# A TLA+ model of the Seagrass language server

Seagrass is a static analyser for Solana programs. Started without arguments it
is a language server (tower-lsp on tokio, over stdio); with arguments it is a
command line tool. This directory models the part of it that is a concurrent
system, the server that turns an editor's notifications into analyses, cached
results and published diagnostics, with the algorithms it rests on (text edits,
the workspace index, call-graph search, arbitration of findings), and the VS Code
client that downloads, starts and restarts it. Paths below are relative to the
repository.

## The system

| component | source | state | operations |
|---|---|---|---|
| debouncer | `src/runtime/debounce/mod.rs` | channel of 16 commands, pending closure, timer, the closure being awaited | `schedule`, `cancel`, `flush`, the worker loop |
| document pipeline | `src/server/mod.rs`, `diagnostic_pipeline.rs` | `documents`, one debouncer per document, typing suppression, what the editor displays | `did_open`, `did_change`, `did_save`, `did_close`; lanes hot, idle, save |
| query cache and epochs | `src/runtime/query_cache`, `src/server/code_actions.rs`, `code_action_epoch.rs`, `backend_features.rs` | results tagged with a document version or a publish epoch | requests, invalidation, `republish_open_documents` |
| workspace index and its jobs | `src/core/workspace`, `src/server/workspace_indexing.rs` | symbol entries, call graph, module-path trie, roots | full refresh, watched files, upsert by the hot lane, reachability queries |
| settings | `src/runtime/server_types` | cold path, transport, rule levels | `initialize`, `did_change_configuration` |
| text changes, ranges | `src/server/helpers.rs`, `src/runtime/range` | none | offsets, incremental edits |
| diagnostic engine | `src/lsp/diagnostics` | none | rules, arbitration, suppression comments |
| other LSP features, parsing, project discovery, framework tables | `src/lsp`, `src/core`, `src/solana`, `src/anchor`, `crates` | none | pure functions of a syntax tree and files |
| command line | `src/app` | none | a sequential walk over files |
| VS Code client | `editors/vscode/src/extension.ts`, `serverInstall.ts` | the language client, `restartQueue`, the cached binary shared by all windows | activate, restart, change of launch settings, scan, download |
| other editor extensions | `editors/zed`, `editors/nvim` | none of their own | start the server, forward settings |

How they interact. All handlers are futures of the one task that serves the
connection, at most four at a time; they interleave only where the code awaits.
`did_open` and `did_change` store the text, start the *hot* analysis on a
blocking thread, and when it ends schedule a full analysis on the document's
debouncer or cancel the waiting one (`diagnostics.coldPath` decides). The
debouncer's worker runs this *idle* analysis on a clone of the `Backend`.
`did_save` runs the full analysis from its own handler. Every lane ends in a
check of the stored version, `documents.insert` and `publish_analysis`. A change
of manifests, settings or roots rebuilds the workspace index and republishes
every open document.

What is hard in it: results that come back in another order than the edits they
belong to; state that was read before an await; deep copies (`documents`,
`query_cache` and the maps of debouncers and typing changes are cloned with the
`Backend`, while settings, index, roots and epochs are shared); a bounded
channel that blocks handlers; closes, reopens and rejected edits while analyses
are in flight; panics in analyses; caches keyed by a version that does not cover
everything the result depends on; index builds and scans that read files and
documents while they change; units of text positions; on the client's side, a
chain of promises that one rejection stops, and a downloaded file that several
windows write and one may leave half written. `PROJECT.json` lists these hazards with their
lines.

## Modules

| module | models |
|---|---|
| `DebounceSteps` | what the worker does to its own state, as operators on a record |
| `DebouncePromise` | the abstract specification of a debouncer, built from them |
| `Debounce` | the debouncer in full: waiting senders, channel bound, timer, flush, panic, dropped handles |
| `DocumentPipeline` | one document: editor, handlers, three lanes, the debouncers of its successive sessions |
| `QueryCaches` | several documents: cached diagnostics, semantic tokens and code actions, typing suppression, epochs, republish |
| `WorkspaceIndex` | the index as a value: insert, remove, sort, rebuild, module paths |
| `WorkspaceIndexing` | the jobs that keep it: builds, scans, hot updates, closes, settings, folders |
| `CallGraph` | the graph's construction, the capped search and the query over it |
| `TextSync` | edits in the editor's units applied in the server's |
| `DiagnosticEngine` | from the findings of rules to the diagnostics of a document |
| `ServerInstall` | `resolveServerBinary` of every window and the file they share |
| `EditorClient` | activation, restarts and scans of windows, over `ServerInstall` |
| `Selection` | the filter of a list (`retain`, the halves of a stable sort), shared by three modules |
| `...Proofs` | the theorems about `Debounce`, `DocumentPipeline`, `QueryCaches`, `WorkspaceIndexing` (with `WorkspaceIndex`), `CallGraph`, `DiagnosticEngine`, `TextSync` and `EditorClient` (with `ServerInstall`) |
| `MC...` | constants and symmetry sets for TLC |

**Debounce.** `chan` and `sendq` are the mpsc channel and its queue of waiting
sends, `pending` and `timer` the worker's locals, `worker`/`running`/`replyTo`
where the worker is. A timer is parked (the 365-day sleep), armed, or elapsed.
`FireTimer` and the `Recv...` actions are the branches of the `select!`;
`CanReceive` holds its bias: a ready timer is taken first. `Panic` unwinds the
worker and drops the receiver. `dropped` and `barrier` are history
variables for the properties. The refinement mapping to `DebouncePromise` selects
the schedules and cancels of the channel and hides flushes, the timer and the
capacity; `DocumentPipeline` composes its per-document
debouncers from the same operators, adding the capacity.

**DocumentPipeline.** An action is the code between two awaits. The first
segment of a notification runs in the order of arrival, so it is one step with
the editor's. `handlers[h].pc` names the await a handler is at: `hot` (blocking
task), `cold` (about to schedule or cancel), `save`, `refresh` (index rebuild of
`did_close`), or a send that waits for room (`sent`, `rejecting`, `saving`,
`closing`). A text is the number of the edit that made it and whether it is the
editor's; an incremental edit that meets another base gives an inexact text. A
task of the idle lane remembers `seen`, the version its copy of the documents
holds. `workers` keeps the worker of every debouncer ever made, because
`did_close` only takes the debouncer out of the map. Settings do not change
during a behaviour.

**QueryCaches.** Texts are named by their edit; a result remembers the text and
the number of project changes it was computed from, and whether it is whole. A
handler analysing on a blocking thread reads the manifests at some moment since
it started. `republish` walks over a copy of the documents, one await per
publish; with the pull transport there is none. Cold path `manual`, so that no
debouncer exists. `folding_range` and `inlay_hint` have the shape of
`semantic_tokens_full` with keys of their own; `document_symbol` and
`completion` run on a clone, so what they cache is lost.

**WorkspaceIndex, WorkspaceIndexing.** The six maps of the index are pruned,
filled and sorted alike, so one list of entries, those of a name every file
declares, stands for each. A text is a number, 0 for none. A build or scan takes
its inputs (roots, open documents or the events of closed files) at its first
segment, reads the disk at some later moment, and stores its result at a third;
between these other handlers run and other programs write files. `raced` is
history: the files whose source changed behind a job in flight, or whose job
panicked, until an edit or a job that ran alone repairs them. A file outside the
roots, a manifest event (full refresh), the setting switched off and the removal
of a folder are in it; definition-bridge symbols are not.

**CallGraph.** `build` gives sorted callees per name; `Pop` is one iteration of
the search, `StartSearch` and `EndSearch` the loop over the instructions of a
context. The properties compare with a definition that does not search: a name is
within `d` calls if a chain of at most `d` calls leads to it.

**TextSync.** A character is a letter, a newline or wide (two UTF-16 units). The
editor addresses its changes by UTF-16 units, `offset_at` resolves characters;
`skewed` remembers that a change was addressed behind a wide character. A batch
of changes is applied in order, an error of one drops the document.

**DiagnosticEngine.** Rules are abstracted to the finding they report; lane and
framework decide which run. A document that does not parse has one parse
diagnostic and is analysed with an empty syntax tree, so what rules still find in
its text is of other topics (`Degraded`). `arbitrate` and `filter` are the code's passes in
the code's order, each a recursive function over the list. A directive is a kind, lines, a pattern, and whether it stands
in a string or below the header. The severity a level sets and the text of
related information are left out.

**ServerInstall, EditorClient.** A step ends at an await that another job can
notice. `copyFile` is a truncation and an end, with failures at both; a window
may be closed at any moment, and is opened again. `phase` is where `startClient`
and `restartClient` are, `queue` and `rejected` are the promise chain
`restartQueue`. The language client is external: `start` and `stop` may fail,
and `stop` throws while the client is starting. `overlap`, `torn`, `overtaken`
and `faulty` are history that the properties' exceptions name.

## Runs

| run | instance | result |
|---|---|---|
| `debounce` | 2 callers, 3 tasks, 2 slots | types and the channel bound, flush barrier, no replaced task runs, timers cover pending tasks, flushes return, tasks resolve, `DebouncePromise` is implemented |
| `pipeline` | 2 handlers, 3 texts, 1 slot, all cold paths and transports | the server's text is the editor's; hot and save lanes leave the latest diagnostics |
| `pipeline_manual` | 4 handlers, 4 texts, no idle lane | diagnostics never go back and end at the latest text |
| `pipeline_live` | 2 handlers, 2 texts, 1 slot, panics, reopens in flight | every handler ends, also when the channel is full or the worker is dead |
| `caches` | 2 documents, 2 texts, 1 project change | cached tokens that would be served are those of the stored text; suppressed diagnostics are not kept; cached code actions miss after a republish |
| `indexing` | 2 files of 2 programs with one module path, 2 handlers, 3 texts, 1 switch, panics | at rest the index is what a rebuild would hold, except for raced files; one entry per file, open ones first; call graph and module paths follow |
| `callgraph` | all graphs over 4 names, one of which calls nothing, depth cap 2 | the search finds the names within the cap, and an answer without `truncated` is complete |
| `textsync` | all texts of 3 characters, batches of 2 | the copies agree until a change is skewed; positions round-trip; the remembered range covers the change |
| `engine` | 3 rules, 7 findings, 1 parse diagnostic, 12 directives | the most confident finding of a topic is shown and names the others; nothing silenced or doubled is shown |
| `editor` | 1 window with 3 starts, 3 commands, 1 close | a partial binary is transient, the server intact, alone, and on the current settings; every start and restart ends |

Bounds. `MaxEdits`, `MaxChanges` and `MaxEpoch` cap counters. In
`DocumentPipeline` three texts are enough for a change that overtakes another and
for close, reopen and change; in `QueryCaches` two are enough for a change, a
close with a reopen, or two open documents, and the theorems cover the rest; two
handlers give every pair of interleaved notifications, four are what tower-lsp
allows. One slot makes every second send block, which 16 slots do only after 17
commands. In `indexing` two handlers are two jobs, or a job and an edit, at the
same time; three texts are a file's first text and two changes of it. A cap of 2
meets paths shorter than, at and beyond it among four names, and loops. Three
characters hold two lines, an empty one, and a wide character before and behind
an edit. In `editor` activation, restart and scan are three jobs that may install
at once, so one window has the races of several; `EditorClient` is written for
any number. Symmetry over handlers and documents is sound: no definition tells
them apart, and it is used in runs without liveness only. `CHECK_DEADLOCK FALSE`
throughout: an editor may stop typing.

Fairness. `Debounce` assumes weak fairness of the worker, its timer and the
channel's sends: tokio polls what can move, its clock advances and an analysis
ends or panics. Callers are free to stop. `DocumentPipeline` assumes weak
fairness of each handler's continuation and each worker, never of the editor.
The index refresh and blocking tasks are assumed to end. `EditorClient` assumes
weak fairness of installs, starts and stops: fetch has its own time limits, child
processes end, and the promises of the language client settle; never of the user.

### Where the code disagrees with its comments and documentation

Two runs check one such statement each and end with a counterexample:

- `pipeline_stale_idle`: the idle lane's stale check reads its own copy of the
  documents, and older diagnostics replace newer ones. This is why
  `pipeline_manual` has no idle lane.
- `editor_restart`: a restart that fails (download, start or stop) leaves
  `restartQueue` rejected, and no later change of a launch setting restarts the
  server. This is the exception of `RestartsServed` and `SettledRunsSettings`.

Met while modelling and not kept as runs. In the debouncer: the `select!` polls
its timer before the channel, so a task can start after `cancel()` returned
("biased to prefer channel messages"); when all senders are gone the 365-day
timer keeps the worker alive ("channel closed, worker exits"), one per closed
document; `flush()` answers Ok when its task panicked. In the pipeline: an
analysis of the previous session of a reopened document puts its text back,
since a closed document reads as version 0 (`ReopenInFlight = TRUE` violates
`TextInSync`); with cold path `save` the stale idle result of `did_open` stays on
display; a late handler replaces the newer pending analysis by an older one; an
analysis in flight recreates the epoch entry of a closed document; `did_save`
runs the full analysis also with cold path `manual`. In the caches: the second
republish of an unedited document is served from the cache of the first; a
republish tags the diagnostics of the text it copied with the version of the
moment; with the pull transport the epoch is never bumped; a range request fills
the cache entry of full semantic tokens; cached code actions are built from
range-filtered diagnostics. In the index: removing one of two files with the same
module path removes the path of the other; an instruction name that two programs
define starts its search from the callees of both. In the engine: a directive for
the surviving finding also hides what it displaced, and a silenced finding can
still be named as related information; `seagrass-allow` also covers the line
after it, where `README.md:79` says "this line only". In the client: a restart
during activation starts a second client; a partial binary that a closed window
leaves is found usable for good; a failed download removes the binary another
window has finished; agent mode sets ten security families, where
`editors/zed/README.md:104` says nine.

## Theorems

Every safety property and action property that a run checks, and the refinement,
is a theorem: for every value of the constants that the ASSUMEs allow, where TLC
has shown one small instance. Four theorems about the pipeline and one about the
caches have hypotheses on constants; the runs that check these properties set the
same values, and the table says what goes wrong without them.

| theorem | hypothesis | without it |
|---|---|---|
| `TextStaysInSync`, `MainLaneEndsLatest`, `AllLanesEndLatest`, `DisplayMonotone` | `ReopenInFlight = FALSE` | an analysis of the last session puts its text back |
| `MainLaneEndsLatest`, `AllLanesEndLatest` | `MayPanic = FALSE` | an analysis that panics publishes nothing |
| `AllLanesEndLatest`, `DisplayMonotone` | `ColdPaths = {"manual"}` | the idle lane's copy of the documents is stale (`pipeline_stale_idle`) |
| `ServedActionsFollow` | `Transport = "push"` | pull never bumps the epoch |

Few of the properties are inductive. What the proofs add, and why it is needed:

- **DebounceProofs**: `DebounceTypes`, `FlushBarrier`, `ReplacedStaysDropped`,
  `TimerCoversPending`. `DebounceInv` adds where the worker can be
  (`WorkerStates`), that a caller waiting for a reply has exactly its Flush in the
  channel or being served (`FlushesWait`, `ServedFlush`), that waiting sends belong
  to callers that wait (`SendsWait`), and that a task is in one place only, since
  closures are `FnOnce` (`TasksAreNew`, `QueuedOnce`, `HeldOnce`). Then a Flush at
  the head of the channel has everything accepted before it behind it or in
  `pending`. `PromiseKept` is the refinement of `DebouncePromise`: `Seen` is the
  record the mapping gives, and each action maps to the step of the promise that
  its lemma names, or leaves `Seen` alone. The lemmas `SelectAppend` and
  `SelectHead` say what the mapping's filter does to a queue that grows or loses
  its head; `Awaits` (outside its select the worker holds a task) makes the end and
  the panic of a task steps the promise allows.
- **DocumentPipelineProofs**: `PipelineTypes`, `TextStaysInSync`. A result that is
  stored again either has the stored version, and then the stored text, or a
  greater one, which no handler can have; `SyncInv` bounds versions by the
  editor's, ties equal versions to equal texts, and says what closing leaves in
  flight. `MainLaneEndsLatest` and `AllLanesEndLatest` add `ShownInv`: while the
  display is not that of the stored text a hot analysis of that version is on its
  way, since a stale result is dropped only when a newer analysis was started.
  `DisplayMonotone` adds `MonotoneInv`: of all the texts stored or still to be
  stored a later version is a later text, also after the server dropped its text.
- **QueryCachesProofs**: `CacheTypes`, `CachedIsWhole`, `ServedTokensAreStored`.
  Types need `SnapshotsStored`: a republish only visits documents its copy holds.
  The tokens rest on `OneTextPerVersion`: while a document is open a version stands
  for one text wherever it is carried, in the stored document, in an analysis that
  will store it again, on the entry; an open starts the versions again only when
  the entry is dropped. `ServedActionsFollow` rests on `EpochInv`: no entry
  is tagged with an epoch to come, republishes are about states of the past, and
  of a document that a republish has still to visit either the actions follow it
  already, or the version is no newer than the copied one, so that the visit
  publishes and bumps the epoch.
- **WorkspaceIndexingProofs**: `IndexingTypes`, `FilesHaveOneEntry`,
  `OpenEntriesLead`, `CallGraphFollows`, `PathsLead`. `IndexOK` holds of the index
  and of the index a build carries between its last two segments; each operation
  of `WorkspaceIndex` keeps it. `IndexIsExact` needs `ExactInv`: for a file that
  nothing changed behind, a job in flight will leave exactly its source
  (`JobsExact`), wherever the index is not exact an event, a job or the hot lane is
  due to repair it (`ExactOrDue`), and a job that would clear `raced` has seen all
  the files that other jobs carry stale (`CleanSeesAll`).
- **CallGraphProofs**: `CallGraphTypes`, `SearchFindsWithinDepth`,
  `SearchFlagExact`, `AnswerComplete`. `SearchInv`: the queue is sorted by depth and
  spans two depths at most (`QueueSorted`), what is queued is called by a name one
  call closer (`QueueSound`), and what a found name calls is found or queued in time
  (`CalleesCovered`). With the sorted queue a name is first met at its distance,
  which is what makes the flag exact. `AnswerInv` adds up the searches that ended;
  without the flag the names within the cap are closed under calls, so they are all
  that is reachable.
- **DiagnosticEngineProofs**: `ConfidentFindingShown`, `NoFindingLost`,
  `SuppressionHolds`, `ShownOnce`. Each pass gets a lemma about what it returns;
  `EngineInv` says of the list after each stage that it comes from the live
  findings (`From`), has one diagnostic of a topic (`Unique`), the most confident
  (`Best`), and names or shows everything else (`Kept`), or a directive silenced it.
- **TextSyncProofs**: `CopiesAgree`, `PositionsInvert`, `RememberedRangeCovers`.
  `RoundTrip` shows that positions and offsets are inverse on every text; then a
  change addressed in the editor's units replaces the same characters on the
  server. `SyncInv` speaks of the server's text after the changes not yet sent, so
  that it holds within a batch.
- **EditorClientProofs**: `ClientTypes`, `PartialBinariesPass`, `ServersAreIntact`,
  `AtMostOneServer`, `SettledWindows`. `CacheInv`: while nothing overlapped, an
  installing job is the only one and nobody else is about to run the cached binary.
  `WindowInv`: in a window where no restart overtook activation there is one start
  at a time, and its phase tells what `client` and the running servers are.

Induction. The model's lists are filtered, searched and folded by recursive
functions. `SetInduction` (a set of numbers that holds 0 and the successor of each
member holds them all, from the least member that the well-founded induction
module gives) is stated about a set, so the provers can use it; with it a
recursive function is shown to exist and to meet its equation (`SelectExists` and
`SelectUnfold`, and their like), and then to have its property.

Only model-checked: liveness (`FlushReturns`, `TasksResolve`, `HandlersFinish`,
`RestartsServed`), because fairness and ENABLED are outside the prover.

## Plan

1. Done: debouncer, document pipeline, query caches with republish; workspace
   index and its jobs, call graph, text edits, diagnostic engine, VS Code client;
   the theorems above.
2. Left: the safety facts the liveness arguments rest on (every caller that waits
   for a reply has its Flush in the channel or being served, a restart that waits
   has a job in front of it), as theorems of their own; `DocumentPipeline` with the
   idle lane, as far as its stale copy allows a promise about the display.

## Not modelled

Syntax trees, the diagnostic rules, completions, hovers, code actions and the
text of messages: they are functions from a syntax tree to data, most of the
repository's lines, and have no state to check. What `indexing.rs` extracts from a
file is data for the same reason. File-system access beyond the presence of
files, manifests and the cached binary; time, except as order; reading a settings
payload; the snippet-edit layer, which rewrites one response at a time; server
logs; the command line, a sequential walk over files; the commands and views of
the extensions; the Zed and Neovim extensions; release scripts and generators. A
panic of the save lane is repeated on the serving task and ends the process;
there is no restart in the model. Shutdown flushes each debouncer, which is
`CallFlush` of `Debounce`.
