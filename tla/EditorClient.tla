---------------------------- MODULE EditorClient ----------------------------
(***************************************************************************)
(* The language client of the VS Code extension (extension.ts) in several  *)
(* windows that share the cached server binary.  Activation starts a       *)
(* client; the restart command and every change of a launch setting append *)
(* a restart to restartQueue, a chain of promises; a workspace scan only   *)
(* resolves the binary.  The LanguageClient is external: start and stop    *)
(* may fail, and stop throws for a client that is not running.             *)
(*                                                                         *)
(* Status bar, output channel and the report commands are left out.        *)
(***************************************************************************)
EXTENDS ServerInstall

CONSTANTS
  NoClient,
  MaxCommands,  \* restarts, scans and setting changes of all windows together
  MaxClosed     \* windows closed or crashed

\* A client is named by the start that made it, which has one at a time.
Clients == [by : {"activate", "restart"}, config : Configs, intact : BOOLEAN, up : BOOLEAN]

ASSUME ClientAssumption ==
  /\ Kinds = {"activate", "restart", "scan"}
  /\ NoClient \notin Clients
  /\ MaxCommands \in Nat /\ MaxClosed \in Nat

VARIABLES
  config,     \* the launch settings of each window
  phase,      \* "off", "start", "resolving", "starting", "stopping" of each start
  client,     \* the variable `client` of each window
  running,    \* the language clients that have a server
  stopped,    \* the client a restart is stopping
  queue,      \* restarts appended to restartQueue and not begun
  rejected,   \* restartQueue has rejected: what is appended never runs
  overtaken,  \* a restart began before activation had ended
  faulty,     \* the last start of the window failed
  commands, closed

clientVars == <<config, phase, client, running, stopped, queue, rejected, overtaken, faulty>>
vars == <<installVars, clientVars, commands, closed>>

Starts == Windows \X {"activate", "restart"}

Init ==
  /\ InstallInit
  /\ config \in [Windows -> Configs]
  /\ phase = [j \in Starts |-> IF j[2] = "activate" THEN "start" ELSE "off"]
  /\ client = [w \in Windows |-> NoClient] /\ stopped = client
  /\ running = [w \in Windows |-> {}]
  /\ queue = [w \in Windows |-> 0]
  /\ rejected = [w \in Windows |-> FALSE] /\ overtaken = rejected /\ faulty = rejected
  /\ commands = 0 /\ closed = 0

\* A start that fails rejects its promise; a restart's is the end of restartQueue.
Reject(j) ==
  /\ phase' = [phase EXCEPT ![j] = "off"]
  /\ faulty' = [faulty EXCEPT ![j[1]] = TRUE]
  /\ rejected' = [rejected EXCEPT ![j[1]] = @ \/ j[2] = "restart"]

\* startClient to its first await.
StartClient(j) ==
  /\ phase[j] = "start"
  /\ \/ /\ client[j[1]] # NoClient
        /\ phase' = [phase EXCEPT ![j] = "off"]
        /\ UNCHANGED installVars
     \/ /\ client[j[1]] = NoClient
        /\ Resolve(j, config[j[1]])
        /\ phase' = [phase EXCEPT ![j] = "resolving"]
  /\ UNCHANGED <<config, client, running, stopped, queue, rejected, overtaken, faulty,
                 commands, closed>>

AwaitDialog(j) ==
  /\ Taken(j, "failed")
  /\ UNCHANGED <<clientVars, commands, closed>>
ResolveFails(j) ==
  /\ Taken(j, "failed")
  /\ Reject(j)
  /\ UNCHANGED <<config, client, running, stopped, queue, overtaken, commands, closed>>

\* The binary is found: a client is made and started.
UsesCached(j) == launch[j] \in Default /\ ~host.onPath
Intact == binary # NoFile /\ binary.whole /\ binary.from = "good"
Launch(j) ==
  /\ Taken(j, "resolved")
  /\ phase[j] = "resolving"
  /\ LET c == [by |-> j[2], config |-> launch[j], intact |-> UsesCached(j) => Intact, up |-> FALSE]
     IN /\ client' = [client EXCEPT ![j[1]] = c]
        /\ running' = [running EXCEPT ![j[1]] = @ \cup {c}]
  /\ phase' = [phase EXCEPT ![j] = "starting"]
  /\ UNCHANGED <<config, stopped, queue, rejected, overtaken, faulty, commands, closed>>

\* client.start() ends; after a failure `client` still holds the client.
Made(j) == CHOOSE c \in running[j[1]] : c.by = j[2] /\ ~c.up
Up(c)   == [c EXCEPT !.up = TRUE]
Started(j) ==
  /\ phase[j] = "starting"
  /\ LET c == Made(j)
     IN /\ running' = [running EXCEPT ![j[1]] = (@ \ {c}) \cup {Up(c)}]
        /\ client' = [client EXCEPT ![j[1]] = IF @ = c THEN Up(c) ELSE @]
  /\ phase' = [phase EXCEPT ![j] = "off"]
  /\ faulty' = [faulty EXCEPT ![j[1]] = FALSE]
  /\ UNCHANGED <<installVars, config, stopped, queue, rejected, overtaken, commands, closed>>
StartFails(j) ==
  /\ phase[j] = "starting"
  /\ running' = [running EXCEPT ![j[1]] = @ \ {Made(j)}]
  /\ Reject(j)
  /\ UNCHANGED <<installVars, config, client, stopped, queue, overtaken, commands, closed>>

\* The next restart of the queue: stopClient to its await.
NextAfterAny(w) == ~rejected[w] /\ phase[<<w, "restart">>] = "off"
NextRestart(w) == queue[w] > 0 /\ ~rejected[w] /\ phase[<<w, "restart">>] = "off"
RestartWithoutStop(w) ==
  /\ NextRestart(w)
  /\ queue' = [queue EXCEPT ![w] = @ - 1]
  /\ client' = [client EXCEPT ![w] = NoClient]
  /\ phase' = [phase EXCEPT ![<<w, "restart">>] = "start"]
  /\ UNCHANGED <<installVars, config, running, stopped, rejected, overtaken, faulty,
                 commands, closed>>
BeginRestart(w) ==
  /\ NextRestart(w)
  /\ queue' = [queue EXCEPT ![w] = @ - 1]
  /\ stopped' = [stopped EXCEPT ![w] = client[w]]
  /\ client' = [client EXCEPT ![w] = NoClient]
  /\ phase' = [phase EXCEPT ![<<w, "restart">>] =
                 IF client[w] = NoClient THEN "start" ELSE "stopping"]
  /\ overtaken' = [overtaken EXCEPT ![w] = @ \/ phase[<<w, "activate">>] # "off"]
  /\ UNCHANGED <<installVars, config, running, rejected, faulty, commands, closed>>

\* stop() ends, or throws: always for a client that is not up.
StopEnds(w) ==
  /\ phase[<<w, "restart">>] = "stopping"
  /\ stopped[w].up
  /\ running' = [running EXCEPT ![w] = @ \ {stopped[w]}]
  /\ phase' = [phase EXCEPT ![<<w, "restart">>] = "start"]
  /\ stopped' = [stopped EXCEPT ![w] = NoClient]
  /\ UNCHANGED <<installVars, config, client, queue, rejected, overtaken, faulty, commands, closed>>
StopThrows(w) ==
  /\ phase[<<w, "restart">>] = "stopping"
  /\ ~stopped[w].up
  /\ Reject(<<w, "restart">>)
  /\ stopped' = [stopped EXCEPT ![w] = NoClient]
  /\ UNCHANGED <<installVars, config, client, running, queue, overtaken, commands, closed>>

-----------------------------------------------------------------------------
Command == commands < MaxCommands /\ commands' = commands + 1

\* queueRestart, from the command or onDidChangeConfiguration.
queueRestart(w) == queue' = [queue EXCEPT ![w] = @ + 1]
RestartCommand(w) ==
  /\ Command /\ queueRestart(w)
  /\ UNCHANGED <<installVars, config, phase, client, running, stopped, rejected, overtaken,
                 faulty, closed>>
ChangeWhenIdle(w, c) ==
  /\ Command /\ config' = [config EXCEPT ![w] = c]
  /\ IF phase[<<w, "restart">>] = "off" THEN queueRestart(w) ELSE UNCHANGED queue
  /\ UNCHANGED <<installVars, phase, client, running, stopped, rejected, overtaken, faulty, closed>>
ChangeSettings(w, c) ==
  /\ Command /\ config' = [config EXCEPT ![w] = c]
  /\ queueRestart(w)
  /\ UNCHANGED <<installVars, phase, client, running, stopped, rejected, overtaken, faulty, closed>>

\* scanWorkspace resolves the binary and runs it.
ScanWorkspace(w) ==
  /\ Command /\ Resolve(<<w, "scan">>, config[w])
  /\ UNCHANGED <<clientVars, closed>>
ScanEnds(w) ==
  /\ \E outcome \in {"resolved", "failed"} : Taken(<<w, "scan">>, outcome)
  /\ UNCHANGED <<clientVars, commands, closed>>

\* The window is closed (deactivate, then the extension host ends) or its host dies; it
\* is opened again and activated.
Reopen(w) ==
  /\ closed < MaxClosed /\ closed' = closed + 1
  /\ Abandon(w)
  /\ phase' = [j \in Starts |-> IF j[1] # w THEN phase[j]
                                ELSE IF j[2] = "activate" THEN "start" ELSE "off"]
  /\ client' = [client EXCEPT ![w] = NoClient] /\ stopped' = [stopped EXCEPT ![w] = NoClient]
  /\ running' = [running EXCEPT ![w] = {}] /\ queue' = [queue EXCEPT ![w] = 0]
  /\ rejected' = [rejected EXCEPT ![w] = FALSE]
  /\ overtaken' = [overtaken EXCEPT ![w] = FALSE] /\ faulty' = [faulty EXCEPT ![w] = FALSE]
  /\ UNCHANGED <<config, commands>>

Install(j) == InstallStep(j) /\ UNCHANGED <<clientVars, commands, closed>>
StartStep(j) == StartClient(j) \/ ResolveFails(j) \/ Launch(j) \/ Started(j) \/ StartFails(j)
StopStep(w) == BeginRestart(w) \/ StopEnds(w) \/ StopThrows(w)

Next ==
  \/ \E j \in Jobs : Install(j)
  \/ \E j \in Starts : StartStep(j)
  \/ \E w \in Windows :
       \/ StopStep(w) \/ RestartCommand(w) \/ ScanWorkspace(w) \/ ScanEnds(w) \/ Reopen(w)
       \/ \E c \in Configs \ {config[w]} : ChangeSettings(w, c)

Fairness ==
  /\ \A j \in Jobs : WF_vars(Install(j))
  /\ \A j \in Starts : WF_vars(StartStep(j))
  /\ \A w \in Windows : WF_vars(StopStep(w))

Spec == Init /\ [][Next]_vars /\ Fairness

-----------------------------------------------------------------------------
TypeOK ==
  /\ InstallTypeOK
  /\ config \in [Windows -> Configs]
  /\ phase \in [Starts -> {"off", "start", "resolving", "starting", "stopping"}]
  /\ client \in [Windows -> Clients \cup {NoClient}] /\ stopped \in [Windows -> Clients \cup {NoClient}]
  /\ running \in [Windows -> SUBSET Clients] /\ queue \in [Windows -> 0..MaxCommands]
  /\ rejected \in [Windows -> BOOLEAN] /\ overtaken \in [Windows -> BOOLEAN]
  /\ faulty \in [Windows -> BOOLEAN]
  /\ commands \in 0..MaxCommands /\ closed \in 0..MaxClosed

\* A server started from the cache is a whole binary of a verified archive, unless two
\* jobs installed at the same time or a window was closed during a copy: what a failed
\* download leaves is gone before anyone can take it.
ServersIntact ==
  \A w \in Windows : \A c \in running[w] : c.intact \/ overlap \/ torn

\* A window has one server at a time, however many restarts are queued, unless a restart
\* began during activation, which is not queued.
OneServer == \A w \in Windows : Cardinality(running[w]) <= 1 \/ overtaken[w]

\* When nothing is going on in a window its server runs the launch settings of the
\* moment, changes made in the middle of a start or a restart included, unless the last
\* start failed, a restart was rejected or one began during activation.
Quiet(w) ==
  queue[w] = 0 /\ phase[<<w, "activate">>] = "off" /\ phase[<<w, "restart">>] = "off"
SettledRunsSettings ==
  \A w \in Windows : Quiet(w) /\ ~faulty[w] /\ ~rejected[w] /\ ~overtaken[w] =>
    /\ client[w] # NoClient /\ client[w].up /\ running[w] = {client[w]}
    /\ client[w].config = config[w]

\* Every start ends and every queued restart begins, unless one before it was rejected.
RestartsServed ==
  \A w \in Windows : ~Quiet(w) ~> (Quiet(w) \/ rejected[w])

\* The extension's README: changing a launch setting restarts the server.
ChangeRestarts == \A w \in Windows : queue[w] > 0 ~> queue[w] = 0
=============================================================================
