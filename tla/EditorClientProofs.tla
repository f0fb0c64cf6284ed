------------------------- MODULE EditorClientProofs -------------------------
(***************************************************************************)
(* Proofs about EditorClient and ServerInstall for any windows, settings   *)
(* and bounds.                                                             *)
(***************************************************************************)
EXTENDS EditorClient, FiniteSetTheorems, TLAPS

Active(w)     == phase[<<w, "activate">>]
Restarting(w) == phase[<<w, "restart">>]

(***************************************************************************)
(* The cache.  What is in it comes from a verified archive.  As long as no *)
(* job looked for the binary during an installation, an installing job is  *)
(* the only one, no other job is about to run the cached binary, and what  *)
(* is about to be run is intact.                                           *)
(***************************************************************************)
TakesCached(j) == pc[j] = "resolved" /\ UsesCached(j)
CacheInv ==
  /\ \A j \in Jobs : pc[j] \in {"copy", "copying"} => archive[j] = "good"
  /\ binary # NoFile => binary.from = "good"
  /\ ~overlap /\ ~torn =>
       /\ \A j, k \in Jobs : j # k /\ Installing(j) => ~Installing(k) /\ ~TakesCached(k)
       /\ \A j \in Jobs : TakesCached(j) => Intact

(***************************************************************************)
(* Starts.  A start has a job of its own while it resolves, and a client   *)
(* that is not up while it starts one.                                     *)
(***************************************************************************)
QueueInv     == \A w \in Windows : queue[w] <= commands
ActivateInv  == \A w \in Windows : Active(w) # "stopping"
ResolvingInv == \A j \in Starts : pc[j] # "idle" <=> phase[j] = "resolving"
StartingInv  ==
  \A j \in Starts : phase[j] = "starting" => \E c \in running[j[1]] : c.by = j[2] /\ ~c.up
StartInv == QueueInv /\ ActivateInv /\ ResolvingInv /\ StartingInv

(***************************************************************************)
(* A window in which no restart began during activation: one start or      *)
(* restart at a time, whose phase tells what `client` and the running      *)
(* servers are.                                                            *)
(***************************************************************************)
OldLaunch(w, kind) == phase[<<w, kind>>] = "resolving" /\ launch[<<w, kind>>] # config[w]
Busy(w, ph) == Active(w) = ph \/ Restarting(w) = ph
WindowInv(w) ==
  /\ Restarting(w) # "off" => Active(w) = "off"
  /\ Busy(w, "start") \/ Busy(w, "resolving") => client[w] = NoClient /\ running[w] = {}
  /\ Busy(w, "starting") => client[w] # NoClient /\ running[w] = {client[w]} /\ ~client[w].up
  /\ Restarting(w) = "stopping" =>
       /\ client[w] = NoClient /\ stopped[w] # NoClient
       /\ running[w] = IF stopped[w].up THEN {stopped[w]} ELSE {}
  /\ Active(w) = "off" /\ Restarting(w) = "off" =>
       /\ client[w] = NoClient => running[w] = {}
       /\ client[w] # NoClient => running[w] = IF client[w].up THEN {client[w]} ELSE {}
       /\ ~faulty[w] => client[w] # NoClient /\ client[w].up
  /\ client[w] # NoClient /\ client[w].config # config[w] => queue[w] > 0
  /\ OldLaunch(w, "activate") \/ OldLaunch(w, "restart") => queue[w] > 0

WindowsInv == \A w \in Windows : ~overtaken[w] => WindowInv(w)

Base == TypeOK /\ StartInv

-----------------------------------------------------------------------------
\* The jobs of the extension are starts of clients and scans.
LEMMA StartsAreJobs ==
  /\ Starts \subseteq Jobs
  /\ \A w \in Windows : /\ <<w, "activate">> \in Starts /\ <<w, "restart">> \in Starts
                        /\ <<w, "scan">> \in Jobs \ Starts
  /\ \A j \in Starts : /\ j[1] \in Windows /\ j[2] \in {"activate", "restart"}
                       /\ j = <<j[1], j[2]>>
BY ClientAssumption DEF Starts, Jobs

\* Where a window has settings there is a default value for a job's.
LEMMA UnreadType ==
  ASSUME NEW c \in Configs
  PROVE  Unread \in Configs
BY DEF Unread

\* An installing step moves one busy job to another busy step and touches no
\* settings.
LEMMA InstallMoves ==
  ASSUME InstallTypeOK, NEW j \in Jobs, InstallStep(j)
  PROVE  /\ InstallTypeOK'
         /\ pc[j] # "idle" /\ pc'[j] # "idle"
         /\ \A k \in Jobs : k # j => pc'[k] = pc[k]
         /\ launch' = launch /\ host' = host
         /\ overlap => overlap'
         /\ torn' = torn
<1>1. CASE CheckPath(j)
  BY <1>1 DEF InstallTypeOK, CheckPath, Goto, Steps
<1>2. CASE CheckCache(j)
  BY <1>2 DEF InstallTypeOK, CheckCache, Goto, Steps
<1>3. CASE Download(j)
  BY <1>3 DEF InstallTypeOK, Download, Goto, Steps
<1>4. CASE Verify(j)
  BY <1>4 DEF InstallTypeOK, Verify, Goto, Steps
<1>5. CASE OpenCopy(j)
  <2>1. Truncated(j) \in Files
    BY DEF InstallTypeOK, Truncated, Files
  <2> QED
    BY <1>5, <2>1 DEF InstallTypeOK, OpenCopy, Goto, Steps
<1>6. CASE EndCopy(j)
  <2>1. binary \in Files => [binary EXCEPT !.whole = TRUE] \in Files
    BY DEF Files
  <2> QED
    BY <1>6, <2>1 DEF InstallTypeOK, EndCopy, Goto, Steps
<1>7. CASE Chmod(j)
  BY <1>7 DEF InstallTypeOK, Chmod, Goto, Steps, Archives
<1>8. CASE Undo(j)
  BY <1>8 DEF InstallTypeOK, Undo, Goto, Steps, Archives
<1> QED
  BY <1>1, <1>2, <1>3, <1>4, <1>5, <1>6, <1>7, <1>8 DEF InstallStep

\* A resolve begins.
LEMMA ResolveMoves ==
  ASSUME InstallTypeOK, NEW j \in Jobs, NEW c \in Configs, Resolve(j, c)
  PROVE  /\ InstallTypeOK'
         /\ pc[j] = "idle" /\ pc'[j] # "idle"
         /\ launch'[j] = c
         /\ \A k \in Jobs : k # j => pc'[k] = pc[k] /\ launch'[k] = launch[k]
         /\ UNCHANGED <<host, binary, archive, torn, overlap>>
BY DEF InstallTypeOK, Resolve, Goto, Steps

\* A resolve ends and its caller takes the outcome.
LEMMA TakenMoves ==
  ASSUME InstallTypeOK, NEW j \in Jobs, NEW outcome \in {"resolved", "failed"}, Taken(j, outcome)
  PROVE  /\ InstallTypeOK'
         /\ pc[j] = outcome /\ pc'[j] = "idle"
         /\ \A k \in Jobs : k # j => pc'[k] = pc[k] /\ launch'[k] = launch[k]
         /\ UNCHANGED <<host, binary, archive, torn, overlap>>
<1>1. Unread \in Configs
  BY UnreadType DEF InstallTypeOK
<1> QED
  BY <1>1 DEF InstallTypeOK, Taken, Goto, Steps

\* A window goes away with its jobs.
LEMMA AbandonMoves ==
  ASSUME InstallTypeOK, NEW w \in Windows, Abandon(w)
  PROVE  /\ InstallTypeOK'
         /\ \A k \in Jobs : k[1] = w => pc'[k] = "idle"
         /\ \A k \in Jobs : k[1] # w => /\ pc'[k] = pc[k] /\ launch'[k] = launch[k]
                                        /\ archive'[k] = archive[k]
         /\ UNCHANGED <<host, binary, overlap>>
<1>1. \A j \in Jobs : Unread \in Configs
  BY UnreadType DEF InstallTypeOK
<1> QED
  BY <1>1 DEF InstallTypeOK, Abandon, Steps, Archives

-----------------------------------------------------------------------------
\* The client a start is starting is one of the window's servers.
LEMMA MadeIsRunning ==
  ASSUME Base, NEW j \in Starts, phase[j] = "starting"
  PROVE  /\ Made(j) \in running[j[1]] /\ Made(j) \in Clients
         /\ Made(j).by = j[2] /\ ~Made(j).up
         /\ Up(Made(j)) \in Clients
<1>1. \E c \in running[j[1]] : c.by = j[2] /\ ~c.up
  BY DEF Base, StartInv, StartingInv
<1>2. Made(j) \in running[j[1]] /\ Made(j).by = j[2] /\ ~Made(j).up
  BY <1>1 DEF Made
<1>3. Made(j) \in Clients
  BY <1>2, StartsAreJobs DEF Base, TypeOK
<1> QED
  BY <1>2, <1>3 DEF Clients, Up

\* A start that ends takes its own client from the running ones, not another start's.
LEMMA StartsKeep ==
  ASSUME Base, NEW j \in Starts, NEW c, c.by = j[2], NEW extra,
         phase' = [phase EXCEPT ![j] = "off"],
         running' = [running EXCEPT ![j[1]] = (@ \ {c}) \cup extra]
  PROVE  StartingInv'
<1> SUFFICES ASSUME NEW k \in Starts, phase'[k] = "starting"
             PROVE  \E d \in running'[k[1]] : d.by = k[2] /\ ~d.up
  BY DEF StartingInv
<1>1. k # j /\ phase[k] = "starting"
  BY DEF Base, TypeOK
<1>2. PICK d \in running[k[1]] : d.by = k[2] /\ ~d.up
  BY <1>1 DEF Base, StartInv, StartingInv
<1>3. k[1] = j[1] => d # c
  BY <1>1, <1>2, StartsAreJobs
<1>4. d \in running'[k[1]]
  BY <1>2, <1>3, StartsAreJobs DEF Base, TypeOK
<1> QED
  BY <1>2, <1>4

\* Every step keeps types, and the starts' jobs and clients.
LEMMA BaseStep == Base /\ [Next]_vars => Base'
<1> SUFFICES ASSUME Base, [Next]_vars
             PROVE  Base'
  OBVIOUS
<1> USE ClientAssumption, StartsAreJobs DEF Base, StartInv
<1>1. ASSUME NEW j \in Jobs, Install(j)
      PROVE  Base'
  <2>1. InstallStep(j) /\ UNCHANGED <<clientVars, commands, closed>>
    BY <1>1 DEF Install
  <2>2. TypeOK'
    BY <2>1, InstallMoves DEF TypeOK, clientVars
  <2>3. StartInv'
    BY <2>1, InstallMoves DEF TypeOK, QueueInv, ActivateInv, ResolvingInv,
       StartingInv, clientVars, Active
  <2> QED
    BY <2>2, <2>3
<1>2. ASSUME NEW j \in Starts, StartClient(j)
      PROVE  Base'
  <2>1. CASE client[j[1]] # NoClient /\ UNCHANGED installVars
             /\ phase' = [phase EXCEPT ![j] = "off"]
    <3>1. TypeOK'
      BY <1>2, <2>1 DEF StartClient, TypeOK, InstallTypeOK, installVars
    <3>2. StartInv'
      BY <1>2, <2>1 DEF StartClient, TypeOK, QueueInv, ActivateInv,
       ResolvingInv, StartingInv, installVars, Active
    <3> QED
      BY <3>1, <3>2
  <2>2. CASE Resolve(j, config[j[1]]) /\ phase' = [phase EXCEPT ![j] = "resolving"]
    <3>1. config[j[1]] \in Configs /\ j \in Jobs
      BY DEF TypeOK
    <3>2. TypeOK'
      BY <1>2, <2>2, <3>1, ResolveMoves DEF StartClient, TypeOK
    <3>3. QueueInv' /\ ActivateInv' /\ StartingInv'
      BY <1>2, <2>2 DEF StartClient, TypeOK, QueueInv, ActivateInv, StartingInv, Active
    <3>4. ResolvingInv'
      BY <1>2, <2>2, <3>1, ResolveMoves DEF StartClient, TypeOK, ResolvingInv
    <3> QED
      BY <3>2, <3>3, <3>4
  <2> QED
    BY <1>2, <2>1, <2>2 DEF StartClient
<1>3. ASSUME NEW j \in Starts, ResolveFails(j)
      PROVE  Base'
  <2>1. j \in Jobs /\ Taken(j, "failed")
    BY <1>3 DEF ResolveFails
  <2>2. TypeOK'
    BY <1>3, <2>1, TakenMoves DEF ResolveFails, Reject, TypeOK
  <2>3. /\ phase' = [phase EXCEPT ![j] = "off"]
        /\ UNCHANGED <<running, queue, commands>>
    BY <1>3 DEF ResolveFails, Reject
  <2>4. QueueInv' /\ ActivateInv' /\ StartingInv'
    BY <2>3 DEF TypeOK, QueueInv, ActivateInv, StartingInv, Active
  <2>5. ResolvingInv'
    BY <2>1, <2>3, TakenMoves DEF TypeOK, ResolvingInv
  <2> QED
    BY <2>2, <2>4, <2>5
<1>4. ASSUME NEW j \in Starts, Launch(j)
      PROVE  Base'
  <2> DEFINE c == [by |-> j[2], config |-> launch[j], intact |-> UsesCached(j) => Intact,
                   up |-> FALSE]
  <2>1. j \in Jobs /\ Taken(j, "resolved")
    BY <1>4 DEF Launch
  <2>2. launch[j] \in Configs
    BY <2>1 DEF TypeOK, InstallTypeOK
  <2>3. (UsesCached(j) => Intact) \in BOOLEAN
    OBVIOUS
  <2>4. c \in Clients /\ c.by = j[2] /\ ~c.up
    BY <2>2, <2>3 DEF Clients
  <2>5. /\ client' = [client EXCEPT ![j[1]] = c]
        /\ running' = [running EXCEPT ![j[1]] = @ \cup {c}]
        /\ phase[j] = "resolving" /\ phase' = [phase EXCEPT ![j] = "starting"]
        /\ UNCHANGED <<config, stopped, queue, rejected, overtaken, faulty, commands, closed>>
    BY <1>4 DEF Launch
  <2> HIDE DEF c
  <2>6. TypeOK'
    BY <2>1, <2>4, <2>5, TakenMoves DEF TypeOK
  <2>7. QueueInv' /\ ActivateInv'
    BY <2>5 DEF TypeOK, QueueInv, ActivateInv, Active
  <2>8. ResolvingInv'
    BY <2>1, <2>5, TakenMoves DEF TypeOK, ResolvingInv
  <2>9. StartingInv'
    BY <2>4, <2>5 DEF TypeOK, StartingInv
  <2> QED
    BY <2>6, <2>7, <2>8, <2>9
<1>5. ASSUME NEW j \in Starts, Started(j)
      PROVE  Base'
  <2> DEFINE c == Made(j)
  <2>1. /\ phase[j] = "starting" /\ phase' = [phase EXCEPT ![j] = "off"]
        /\ running' = [running EXCEPT ![j[1]] = (@ \ {c}) \cup {Up(c)}]
        /\ client' = [client EXCEPT ![j[1]] = IF @ = c THEN Up(c) ELSE @]
        /\ faulty' = [faulty EXCEPT ![j[1]] = FALSE]
        /\ UNCHANGED <<installVars, config, stopped, queue, rejected, overtaken, commands, closed>>
    BY <1>5 DEF Started
  <2>2. c \in running[j[1]] /\ c.by = j[2] /\ Up(c) \in Clients
    BY <2>1, MadeIsRunning
  <2> HIDE DEF c
  <2>3. TypeOK'
    BY <2>1, <2>2 DEF TypeOK, InstallTypeOK, installVars
  <2>4. QueueInv' /\ ActivateInv' /\ ResolvingInv'
    BY <2>1 DEF TypeOK, QueueInv, ActivateInv, ResolvingInv, installVars, Active
  <2>5. StartingInv'
    BY <2>1, <2>2, StartsKeep
  <2> QED
    BY <2>3, <2>4, <2>5
<1>6. ASSUME NEW j \in Starts, StartFails(j)
      PROVE  Base'
  <2> DEFINE c == Made(j)
  <2>1. /\ phase[j] = "starting" /\ Reject(j)
        /\ running' = [running EXCEPT ![j[1]] = (@ \ {c}) \cup {}]
        /\ UNCHANGED <<installVars, config, client, stopped, queue, overtaken, commands, closed>>
    BY <1>6 DEF StartFails
  <2>2. c \in running[j[1]] /\ c.by = j[2]
    BY <2>1, MadeIsRunning
  <2> HIDE DEF c
  <2>3. TypeOK'
    BY <2>1 DEF TypeOK, InstallTypeOK, installVars, Reject
  <2>4. QueueInv' /\ ActivateInv' /\ ResolvingInv'
    BY <2>1 DEF TypeOK, QueueInv, ActivateInv, ResolvingInv, installVars, Active, Reject
  <2>5. StartingInv'
    BY <2>1, <2>2, StartsKeep DEF Reject
  <2> QED
    BY <2>3, <2>4, <2>5
<1>7. ASSUME NEW w \in Windows, BeginRestart(w)
      PROVE  Base'
  <2>1. /\ queue[w] > 0 /\ queue' = [queue EXCEPT ![w] = @ - 1]
        /\ phase[<<w, "restart">>] = "off"
        /\ stopped' = [stopped EXCEPT ![w] = client[w]]
        /\ client' = [client EXCEPT ![w] = NoClient]
        /\ UNCHANGED <<installVars, config, running, rejected, faulty, commands, closed>>
    BY <1>7 DEF BeginRestart, NextRestart
  <2> DEFINE r == <<w, "restart">>
  <2>8. PICK ph \in {"start", "stopping"} : phase' = [phase EXCEPT ![r] = ph]
    BY <1>7 DEF BeginRestart
  <2>9. r \in Starts /\ \A v \in Windows : <<v, "activate">> # r
    OBVIOUS
  <2> HIDE DEF r
  <2>2. queue' \in [Windows -> 0..MaxCommands] /\ QueueInv'
    BY <2>1 DEF TypeOK, QueueInv
  <2>3. overtaken' \in [Windows -> BOOLEAN]
    BY <1>7, Zenon DEF BeginRestart, TypeOK
  <2>4. phase' \in [Starts -> {"off", "start", "resolving", "starting", "stopping"}]
    BY <2>8, <2>9 DEF TypeOK
  <2>5. TypeOK'
    BY <2>1, <2>2, <2>3, <2>4 DEF TypeOK, InstallTypeOK, installVars
  <2>6. ActivateInv'
    BY <2>8, <2>9 DEF TypeOK, ActivateInv, Active
  <2>7. ResolvingInv' /\ StartingInv'
    BY <2>1, <2>8, <2>9 DEF TypeOK, ResolvingInv, StartingInv, installVars, r
  <2> QED
    BY <2>2, <2>5, <2>6, <2>7
<1>8. ASSUME NEW w \in Windows, StopEnds(w)
      PROVE  Base'
  <2>1. /\ phase[<<w, "restart">>] = "stopping" /\ stopped[w].up
        /\ phase' = [phase EXCEPT ![<<w, "restart">>] = "start"]
        /\ running' = [running EXCEPT ![w] = @ \ {stopped[w]}]
        /\ UNCHANGED <<installVars, queue, commands>>
    BY <1>8 DEF StopEnds
  <2>2. TypeOK'
    BY <1>8 DEF StopEnds, TypeOK, InstallTypeOK, installVars
  <2>3. QueueInv' /\ ActivateInv' /\ ResolvingInv'
    BY <2>1 DEF TypeOK, QueueInv, ActivateInv, ResolvingInv, installVars, Active
  <2>4. StartingInv'
    <3> SUFFICES ASSUME NEW j \in Starts, phase'[j] = "starting"
                 PROVE  \E c \in running'[j[1]] : c.by = j[2] /\ ~c.up
      BY DEF StartingInv
    <3>1. phase[j] = "starting"
      BY <2>1 DEF TypeOK
    <3>2. PICK c \in running[j[1]] : c.by = j[2] /\ ~c.up
      BY <3>1 DEF StartingInv
    <3>3. c \in running'[j[1]]
      BY <2>1, <3>2 DEF TypeOK
    <3> QED
      BY <3>2, <3>3
  <2> QED
    BY <2>2, <2>3, <2>4
<1>9. ASSUME NEW w \in Windows, StopThrows(w)
      PROVE  Base'
  <2>1. TypeOK'
    BY <1>9 DEF StopThrows, Reject, TypeOK, InstallTypeOK, installVars
  <2>2. StartInv'
    BY <1>9 DEF StopThrows, Reject, TypeOK, QueueInv, ActivateInv,
       ResolvingInv, StartingInv, installVars, Active
  <2> QED
    BY <2>1, <2>2
<1>10. ASSUME NEW w \in Windows, RestartCommand(w) \/ \E c \in Configs : ChangeSettings(w, c)
       PROVE  Base'
  <2>1. /\ commands < MaxCommands /\ commands' = commands + 1
        /\ queue' = [queue EXCEPT ![w] = @ + 1]
        /\ config' = config \/ \E c \in Configs : config' = [config EXCEPT ![w] = c]
        /\ UNCHANGED <<installVars, phase, client, running, stopped, rejected, overtaken, faulty,
                       closed>>
    BY <1>10 DEF RestartCommand, ChangeSettings, Command, queueRestart
  <2>2. queue' \in [Windows -> 0..MaxCommands] /\ commands' \in 0..MaxCommands /\ QueueInv'
    BY <2>1 DEF TypeOK, QueueInv
  <2>3. config' \in [Windows -> Configs]
    BY <2>1 DEF TypeOK
  <2>4. TypeOK'
    BY <2>1, <2>2, <2>3 DEF TypeOK, InstallTypeOK, installVars
  <2>5. ActivateInv' /\ ResolvingInv' /\ StartingInv'
    BY <2>1 DEF ActivateInv, ResolvingInv, StartingInv, installVars, Active
  <2> QED
    BY <2>2, <2>4, <2>5
<1>11. ASSUME NEW w \in Windows, ScanWorkspace(w)
       PROVE  Base'
  <2>1. /\ Resolve(<<w, "scan">>, config[w]) /\ config[w] \in Configs
        /\ UNCHANGED <<clientVars, closed>>
        /\ commands' = commands + 1 /\ commands < MaxCommands
    BY <1>11 DEF ScanWorkspace, Command, TypeOK
  <2>2. InstallTypeOK' /\ \A k \in Starts : pc'[k] = pc[k]
    <3>1. InstallTypeOK /\ <<w, "scan">> \in Jobs /\ \A k \in Starts : k # <<w, "scan">>
      BY DEF TypeOK
    <3> QED
      BY <2>1, <3>1, ResolveMoves, StartsAreJobs
  <2>3. commands' \in 0..MaxCommands /\ QueueInv'
    BY <2>1 DEF TypeOK, clientVars, QueueInv
  <2>4. TypeOK'
    BY <2>1, <2>2, <2>3 DEF TypeOK, clientVars
  <2>5. ActivateInv' /\ ResolvingInv' /\ StartingInv'
    BY <2>1, <2>2 DEF ActivateInv, ResolvingInv, StartingInv, clientVars, Active
  <2> QED
    BY <2>3, <2>4, <2>5
<1>12. ASSUME NEW w \in Windows, ScanEnds(w)
       PROVE  Base'
  <2>1. PICK outcome \in {"resolved", "failed"} : Taken(<<w, "scan">>, outcome)
    BY <1>12 DEF ScanEnds
  <2>2. InstallTypeOK' /\ \A k \in Starts : pc'[k] = pc[k]
    <3>1. InstallTypeOK /\ <<w, "scan">> \in Jobs /\ \A k \in Starts : k # <<w, "scan">>
      BY DEF TypeOK
    <3> QED
      BY <2>1, <3>1, TakenMoves, StartsAreJobs
  <2>3. TypeOK'
    BY <1>12, <2>2 DEF ScanEnds, TypeOK, clientVars
  <2>4. StartInv'
    BY <1>12, <2>2 DEF ScanEnds, QueueInv, ActivateInv, ResolvingInv, StartingInv, clientVars,
       Active
  <2> QED
    BY <2>3, <2>4
<1>13. ASSUME NEW w \in Windows, Reopen(w)
       PROVE  Base'
  <2>1. Abandon(w)
    BY <1>13 DEF Reopen
  <2>2. TypeOK'
    BY <1>13, <2>1, AbandonMoves DEF Reopen, TypeOK
  <2>3. /\ phase' = [j \in Starts |-> IF j[1] # w THEN phase[j]
                                     ELSE IF j[2] = "activate" THEN "start" ELSE "off"]
        /\ running' = [running EXCEPT ![w] = {}] /\ queue' = [queue EXCEPT ![w] = 0]
        /\ commands' = commands
    BY <1>13 DEF Reopen
  <2>4. QueueInv'
    BY <2>3 DEF TypeOK, QueueInv
  <2>7. ActivateInv'
    BY <2>3 DEF ActivateInv, Active
  <2>5. ResolvingInv'
    BY <2>1, <2>3, AbandonMoves DEF TypeOK, ResolvingInv
  <2>6. StartingInv'
    BY <2>3 DEF TypeOK, StartingInv
  <2> QED
    BY <2>2, <2>4, <2>5, <2>6, <2>7
<1>14. CASE UNCHANGED vars
  <2>1. TypeOK'
    BY <1>14 DEF vars, installVars, clientVars, TypeOK, InstallTypeOK
  <2>2. StartInv'
    BY <1>14 DEF vars, installVars, clientVars, QueueInv, ActivateInv, ResolvingInv, StartingInv,
       Active
  <2> QED
    BY <2>1, <2>2
<1> QED
  BY <1>1, <1>2, <1>3, <1>4, <1>5, <1>6, <1>7, <1>8, <1>9, <1>10, <1>11, <1>12, <1>13, <1>14
     DEF Next, StartStep, StopStep

\* Types hold initially.
LEMMA BaseInit == Init => Base
<1> SUFFICES ASSUME Init
             PROVE  Base
  OBVIOUS
<1>1. \A j \in Jobs : Unread \in Configs
  BY UnreadType DEF Init, Jobs
<1>2. InstallTypeOK
  BY <1>1 DEF Init, InstallInit, InstallTypeOK, Steps, Archives
<1>3. TypeOK
  BY <1>2, ClientAssumption, StartsAreJobs DEF Init, TypeOK
<1>4. QueueInv /\ ActivateInv
  <2>1. /\ queue = [w \in Windows |-> 0] /\ commands = 0
        /\ phase = [j \in Starts |-> IF j[2] = "activate" THEN "start" ELSE "off"]
    BY DEF Init
  <2>2. \A w \in Windows : phase[<<w, "activate">>] = "start"
    BY <2>1, StartsAreJobs
  <2>3. ActivateInv
    BY <2>2 DEF ActivateInv, Active
  <2> QED
    BY <2>1, <2>3 DEF QueueInv
<1>5. ResolvingInv /\ StartingInv
  BY StartsAreJobs DEF Init, InstallInit, ResolvingInv, StartingInv
<1> QED
  BY <1>3, <1>4, <1>5 DEF Base, StartInv

\* Base holds in every reachable state.
LEMMA BaseAlways == Spec => []Base
<1> QED
  BY BaseInit, BaseStep, PTL DEF Spec

\* Type correctness: queues within the number of commands, clients and jobs of the
\* shape the code gives them, in any number of windows.
THEOREM ClientTypes == Spec => []TypeOK
<1>1. Base => TypeOK
  BY DEF Base
<1> QED
  BY <1>1, BaseAlways, PTL

-----------------------------------------------------------------------------
(***************************************************************************)
(* The cached binary.                                                      *)
(***************************************************************************)
PartialInv == PartialIsTransient /\ CacheInv

\* What an installing step does to the cached binary and the jobs around it.
LEMMA PartialInstall ==
  ASSUME InstallTypeOK, PartialInv, NEW j \in Jobs, InstallStep(j)
  PROVE  PartialInv'
<1>1. CASE CheckPath(j)
  <2>1. PartialIsTransient'
    BY <1>1 DEF InstallTypeOK, PartialInv, PartialIsTransient, CheckPath, Goto, Files
  <2>2. CacheInv'
    BY <1>1 DEF InstallTypeOK, PartialInv, CacheInv, CheckPath, Goto, Installing, TakesCached,
       UsesCached, Intact
  <2> QED
    BY <2>1, <2>2 DEF PartialInv
<1>2. CASE CheckCache(j)
  <2>1. PartialIsTransient'
    BY <1>2 DEF InstallTypeOK, PartialInv, PartialIsTransient, CheckCache, Goto, Files
  <2>2. CacheInv'
    <3>1. (\A k \in Jobs : pc[k] \in {"copy", "copying"} => archive[k] = "good")'
      BY <1>2 DEF InstallTypeOK, PartialInv, CacheInv, CheckCache, Goto
    <3>2. (binary # NoFile => binary.from = "good")'
      BY <1>2 DEF PartialInv, CacheInv, CheckCache
    <3>3. ASSUME ~overlap', ~torn'
          PROVE  /\ ~overlap /\ ~torn
                 /\ \A k \in Jobs : k # j => ~Installing(k)
                 /\ binary # NoFile => Intact
      <4>1. ~overlap /\ ~torn /\ \A k \in Jobs : k # j => ~Installing(k)
        BY <1>2, <3>3 DEF CheckCache
      <4>2. ~Installing(j)
        BY <1>2 DEF CheckCache, Installing
      <4>3. binary # NoFile => binary.by \in Jobs /\ binary.whole \in BOOLEAN
        BY DEF InstallTypeOK, Files
      <4>4. binary # NoFile => binary.whole
        BY <4>1, <4>2, <4>3 DEF PartialInv, PartialIsTransient, Installing
      <4> QED
        BY <4>1, <4>4 DEF PartialInv, CacheInv, Intact
    <3>4. ASSUME ~overlap', ~torn'
          PROVE  /\ \A k, l \in Jobs : k # l /\ Installing(k)' => ~Installing(l)' /\ ~TakesCached(l)'
                 /\ \A k \in Jobs : TakesCached(k)' => Intact'
      BY <1>2, <3>3, <3>4 DEF InstallTypeOK, PartialInv, CacheInv, CheckCache, Goto, Installing,
         TakesCached, UsesCached, Intact
    <3> QED
      BY <3>1, <3>2, <3>4 DEF CacheInv
  <2> QED
    BY <2>1, <2>2 DEF PartialInv
<1>3. CASE Download(j)
  <2>1. PartialIsTransient'
    BY <1>3 DEF InstallTypeOK, PartialInv, PartialIsTransient, Download, Goto, Files
  <2>2. CacheInv'
    BY <1>3 DEF InstallTypeOK, PartialInv, CacheInv, Download, Goto, Installing, TakesCached,
       UsesCached, Intact
  <2> QED
    BY <2>1, <2>2 DEF PartialInv
<1>4. CASE Verify(j)
  <2>1. PartialIsTransient'
    BY <1>4 DEF InstallTypeOK, PartialInv, PartialIsTransient, Verify, Goto, Files
  <2>2. CacheInv'
    BY <1>4 DEF InstallTypeOK, PartialInv, CacheInv, Verify, Goto, Installing, TakesCached,
       UsesCached, Intact
  <2> QED
    BY <2>1, <2>2 DEF PartialInv
<1>5. CASE OpenCopy(j)
  <2>1. archive[j] = "good" /\ Truncated(j).from = "good" /\ Truncated(j).by = j
    BY <1>5 DEF PartialInv, CacheInv, OpenCopy, Truncated
  <2>2. PartialIsTransient'
    BY <1>5, <2>1 DEF InstallTypeOK, PartialInv, PartialIsTransient, OpenCopy, Goto, Files
  <2>3. CacheInv'
    BY <1>5, <2>1 DEF InstallTypeOK, PartialInv, CacheInv, OpenCopy, Goto, Installing, TakesCached,
       UsesCached, Intact
  <2> QED
    BY <2>2, <2>3 DEF PartialInv
<1>6. CASE EndCopy(j)
  <2>1. \/ binary' = binary
        \/ /\ binary \in Files /\ binary' = [binary EXCEPT !.whole = TRUE] /\ binary # NoFile
           /\ binary'.from = binary.from /\ binary'.by = binary.by /\ binary'.whole
    BY <1>6 DEF EndCopy, InstallTypeOK, Files
  <2>2. PartialIsTransient'
    BY <1>6, <2>1 DEF InstallTypeOK, PartialInv, PartialIsTransient, EndCopy, Goto, Files
  <2>3. CacheInv'
    BY <1>6, <2>1 DEF InstallTypeOK, PartialInv, CacheInv, EndCopy, Goto, Installing, TakesCached,
       UsesCached, Intact
  <2> QED
    BY <2>2, <2>3 DEF PartialInv
<1>7. CASE Chmod(j)
  <2>1. PartialIsTransient'
    BY <1>7 DEF InstallTypeOK, PartialInv, PartialIsTransient, Chmod, Goto, Files
  <2>2. ASSUME ~overlap, ~torn, binary # NoFile
        PROVE  Intact
    <3>1. binary.by \in Jobs /\ binary.whole \in BOOLEAN
      BY <2>2 DEF InstallTypeOK, Files
    <3>2. Installing(j) /\ pc[j] = "chmod"
      BY <1>7 DEF Chmod, Installing
    <3>3. binary.whole
      BY <2>2, <3>1, <3>2 DEF PartialInv, PartialIsTransient, CacheInv, Installing
    <3> QED
      BY <2>2, <3>3 DEF PartialInv, CacheInv, Intact
  <2>3. CacheInv'
    BY <1>7, <2>2 DEF InstallTypeOK, PartialInv, CacheInv, Chmod, Goto, Installing, TakesCached,
       UsesCached, Intact
  <2> QED
    BY <2>1, <2>3 DEF PartialInv
<1>8. CASE Undo(j)
  <2>1. PartialIsTransient'
    BY <1>8 DEF InstallTypeOK, PartialInv, PartialIsTransient, Undo, Goto, Files
  <2>2. CacheInv'
    BY <1>8 DEF InstallTypeOK, PartialInv, CacheInv, Undo, Goto, Installing, TakesCached,
       UsesCached, Intact
  <2> QED
    BY <2>1, <2>2 DEF PartialInv
<1> QED
  BY <1>1, <1>2, <1>3, <1>4, <1>5, <1>6, <1>7, <1>8 DEF InstallStep

\* A resolve begins: the cached binary stays as it is.
LEMMA PartialResolve ==
  ASSUME InstallTypeOK, PartialInv, NEW j \in Jobs, NEW c \in Configs, Resolve(j, c)
  PROVE  PartialInv'
<1>1. PartialIsTransient'
  BY DEF InstallTypeOK, PartialInv, PartialIsTransient, Resolve, Goto, Files
<1>2. CacheInv'
  BY DEF InstallTypeOK, PartialInv, CacheInv, Resolve, Goto, Installing, TakesCached, UsesCached,
     Intact
<1> QED
  BY <1>1, <1>2 DEF PartialInv

\* The caller takes the outcome.
LEMMA PartialTaken ==
  ASSUME InstallTypeOK, PartialInv, NEW j \in Jobs, NEW outcome \in {"resolved", "failed"},
         Taken(j, outcome)
  PROVE  PartialInv'
<1>1. PartialIsTransient'
  BY DEF InstallTypeOK, PartialInv, PartialIsTransient, Taken, Goto, Files
<1>2. CacheInv'
  BY DEF InstallTypeOK, PartialInv, CacheInv, Taken, Goto, Installing, TakesCached, UsesCached,
     Intact
<1> QED
  BY <1>1, <1>2 DEF PartialInv

\* A window goes away: a copy cut off leaves its part, and the history says so.
LEMMA PartialAbandon ==
  ASSUME InstallTypeOK, PartialInv, NEW w \in Windows, Abandon(w)
  PROVE  PartialInv'
<1>1. PartialIsTransient'
  BY DEF InstallTypeOK, PartialInv, PartialIsTransient, Abandon, Files
<1>2. CacheInv'
  <2>1. /\ \A k \in Jobs : pc'[k] = "idle" \/ (pc'[k] = pc[k] /\ launch'[k] = launch[k]
                                              /\ archive'[k] = archive[k])
        /\ UNCHANGED <<host, binary, overlap>>
        /\ torn => torn'
    BY AbandonMoves DEF Abandon
  <2>2. (\A k \in Jobs : pc[k] \in {"copy", "copying"} => archive[k] = "good")'
    BY <2>1 DEF PartialInv, CacheInv
  <2>3. ASSUME ~overlap', ~torn'
        PROVE  /\ \A k, l \in Jobs : k # l /\ Installing(k)' => ~Installing(l)' /\ ~TakesCached(l)'
               /\ \A k \in Jobs : TakesCached(k)' => Intact'
    BY <2>1, <2>3 DEF PartialInv, CacheInv, Installing, TakesCached, UsesCached, Intact
  <2> QED
    BY <2>1, <2>2, <2>3 DEF PartialInv, CacheInv
<1> QED
  BY <1>1, <1>2 DEF PartialInv

\* A step either leaves the installation alone or is one of the above.
InstallationStep ==
  \/ UNCHANGED installVars
  \/ \E j \in Jobs : \/ InstallStep(j)
                     \/ \E c \in Configs : Resolve(j, c)
                     \/ \E outcome \in {"resolved", "failed"} : Taken(j, outcome)
  \/ \E w \in Windows : Abandon(w)

\* Every step of the extension is one of these for the installation.
LEMMA NextInstallation ==
  ASSUME Base, [Next]_vars
  PROVE  InstallationStep
<1> USE StartsAreJobs
<1>1. ASSUME NEW j \in Jobs, Install(j)
      PROVE  InstallationStep
  BY <1>1 DEF Install, InstallationStep
<1>2. ASSUME NEW j \in Starts, StartStep(j)
      PROVE  InstallationStep
  <2>1. config[j[1]] \in Configs
    BY DEF Base, TypeOK
  <2> QED
    BY <1>2, <2>1 DEF StartStep, StartClient, ResolveFails, Launch, Started, StartFails,
       InstallationStep, installVars
<1>3. ASSUME NEW w \in Windows,
             StopStep(w) \/ RestartCommand(w) \/ \E c \in Configs : ChangeSettings(w, c)
      PROVE  InstallationStep
  BY <1>3 DEF StopStep, BeginRestart, StopEnds, StopThrows, RestartCommand, ChangeSettings,
     InstallationStep, installVars
<1>4. ASSUME NEW w \in Windows, ScanWorkspace(w) \/ ScanEnds(w) \/ Reopen(w)
      PROVE  InstallationStep
  <2>1. config[w] \in Configs
    BY DEF Base, TypeOK
  <2> QED
    BY <1>4, <2>1 DEF ScanWorkspace, ScanEnds, Reopen, InstallationStep
<1>5. CASE UNCHANGED vars
  BY <1>5 DEF vars, InstallationStep, installVars
<1> QED
  BY <1>1, <1>2, <1>3, <1>4, <1>5 DEF Next

\* Every step keeps the cache invariant.
LEMMA PartialStep == Base /\ PartialInv /\ [Next]_vars => PartialInv'
<1> SUFFICES ASSUME Base, PartialInv, [Next]_vars
             PROVE  PartialInv'
  OBVIOUS
<1>1. InstallTypeOK /\ InstallationStep
  BY NextInstallation DEF Base, TypeOK
<1>2. CASE UNCHANGED installVars
  BY <1>2 DEF installVars, PartialInv, PartialIsTransient, CacheInv, Installing, TakesCached,
     UsesCached, Intact
<1> QED
  BY <1>1, <1>2, PartialInstall, PartialResolve, PartialTaken, PartialAbandon DEF InstallationStep

\* The cache starts empty.
LEMMA PartialInit == Init => PartialInv
BY DEF Init, InstallInit, PartialInv, PartialIsTransient, CacheInv, Installing, TakesCached

\* The cache invariant holds in every reachable state.
LEMMA PartialAlways == Spec => []PartialInv
<1> QED
  BY PartialInit, PartialStep, BaseAlways, PTL DEF Spec

\* Whatever downloads, copies and permission changes fail, in whatever order the
\* jobs of whatever windows take their steps: a cached binary that is not whole
\* has a job at work on it, unless a window was closed during its copy.
THEOREM PartialBinariesPass == Spec => []PartialIsTransient
<1>1. PartialInv => PartialIsTransient
  BY DEF PartialInv
<1> QED
  BY <1>1, PartialAlways, PTL

\* Servers keep the binary they were started from, and a new one is started from
\* a binary that the cache invariant calls intact.
LEMMA IntactStep == Base /\ PartialInv /\ ServersIntact /\ [Next]_vars => ServersIntact'
<1> SUFFICES ASSUME Base, PartialInv, ServersIntact, [Next]_vars
             PROVE  ServersIntact'
  OBVIOUS
<1>1. overlap => overlap'
  BY NextInstallation, InstallMoves DEF InstallationStep, installVars, Resolve, Taken, Abandon,
     Base, TypeOK
<1>2. torn => torn'
  BY NextInstallation, InstallMoves DEF InstallationStep, installVars, Resolve, Taken, Abandon,
     Base, TypeOK
<1>3. ASSUME \A w \in Windows : running'[w] \subseteq running[w]
      PROVE  ServersIntact'
  BY <1>1, <1>2, <1>3 DEF ServersIntact
<1>4. ASSUME NEW j \in Starts, Launch(j)
      PROVE  ServersIntact'
  <2> DEFINE c == [by |-> j[2], config |-> launch[j], intact |-> UsesCached(j) => Intact,
                   up |-> FALSE]
  <2>1. /\ Taken(j, "resolved") /\ j \in Jobs
        /\ running' = [running EXCEPT ![j[1]] = @ \cup {c}]
    BY <1>4, StartsAreJobs DEF Launch
  <2>2. pc[j] = "resolved"
    BY <2>1 DEF Taken
  <2>3. ~overlap /\ ~torn /\ UsesCached(j) => Intact
    BY <2>1, <2>2 DEF PartialInv, CacheInv, TakesCached
  <2>4. c.intact \/ overlap \/ torn
    BY <2>3
  <2> HIDE DEF c
  <2> QED
    BY <1>1, <1>2, <2>1, <2>4 DEF Base, TypeOK, ServersIntact
<1>5. ASSUME NEW j \in Starts, Started(j)
      PROVE  ServersIntact'
  <2>1. /\ phase[j] = "starting"
        /\ running' = [running EXCEPT ![j[1]] = (@ \ {Made(j)}) \cup {Up(Made(j))}]
    BY <1>5 DEF Started
  <2>2. Made(j) \in running[j[1]] /\ Made(j) \in Clients /\ j[1] \in Windows
    BY <2>1, MadeIsRunning, StartsAreJobs
  <2>3. Up(Made(j)).intact = Made(j).intact
    BY <2>2 DEF Up, Clients
  <2> QED
    BY <1>1, <1>2, <2>1, <2>2, <2>3 DEF Base, TypeOK, ServersIntact
<1>6. CASE \/ \E j \in Jobs : Install(j)
           \/ \E j \in Starts : StartClient(j) \/ ResolveFails(j) \/ StartFails(j)
           \/ \E w \in Windows : \/ StopStep(w) \/ RestartCommand(w) \/ ScanWorkspace(w)
                                 \/ ScanEnds(w) \/ Reopen(w)
                                 \/ \E c \in Configs : ChangeSettings(w, c)
           \/ UNCHANGED vars
  <2>1. \/ running' = running
        \/ \E w \in Windows : \E c : running' = [running EXCEPT ![w] = @ \ {c}]
        \/ \E w \in Windows : running' = [running EXCEPT ![w] = {}]
    <3>1. ASSUME NEW j \in Starts, StartFails(j)
          PROVE  \E w \in Windows : \E c : running' = [running EXCEPT ![w] = @ \ {c}]
      BY <3>1, StartsAreJobs DEF StartFails
    <3>2. ASSUME NEW w \in Windows, StopEnds(w) \/ Reopen(w)
          PROVE  \/ \E c : running' = [running EXCEPT ![w] = @ \ {c}]
                 \/ running' = [running EXCEPT ![w] = {}]
      BY <3>2 DEF StopEnds, Reopen
    <3>3. CASE \/ \E j \in Jobs : Install(j)
               \/ \E j \in Starts : StartClient(j) \/ ResolveFails(j)
               \/ \E w \in Windows : \/ BeginRestart(w) \/ StopThrows(w) \/ RestartCommand(w)
                                     \/ ScanWorkspace(w) \/ ScanEnds(w)
                                     \/ \E c \in Configs : ChangeSettings(w, c)
               \/ UNCHANGED vars
      BY <3>3 DEF Install, StartClient, ResolveFails, BeginRestart, StopThrows, RestartCommand,
         ScanWorkspace, ScanEnds, ChangeSettings, vars, clientVars
    <3> QED
      BY <1>6, <3>1, <3>2, <3>3 DEF StopStep
  <2>2. \A w \in Windows : running'[w] \subseteq running[w]
    BY <2>1 DEF Base, TypeOK
  <2> QED
    BY <1>3, <2>2
<1> QED
  BY <1>4, <1>5, <1>6 DEF Next, StartStep

\* No window ever starts a server from a cached binary that is not the whole of a
\* verified archive, unless a job looked for the binary during an installation or
\* a window was closed during a copy.
THEOREM ServersAreIntact == Spec => []ServersIntact
<1>1. Init => ServersIntact
  BY DEF Init, ServersIntact
<1> QED
  BY <1>1, IntactStep, PartialAlways, BaseAlways, PTL DEF Spec

-----------------------------------------------------------------------------
(***************************************************************************)
(* The windows.                                                            *)
(***************************************************************************)
\* A step of a start moves its own phase and no other.
LEMMA PhaseMoves ==
  ASSUME Base, NEW j \in Starts, NEW ph, phase' = [phase EXCEPT ![j] = ph]
  PROVE  /\ \A v \in Windows : v # j[1] => Active(v)' = Active(v) /\ Restarting(v)' = Restarting(v)
         /\ j[2] = "activate" => /\ Active(j[1]) = phase[j] /\ Active(j[1])' = ph
                                 /\ Restarting(j[1])' = Restarting(j[1])
         /\ j[2] = "restart" => /\ Restarting(j[1]) = phase[j] /\ Restarting(j[1])' = ph
                                /\ Active(j[1])' = Active(j[1])
<1>1. phase \in [Starts -> {"off", "start", "resolving", "starting", "stopping"}]
  BY DEF Base, TypeOK
<1>2. \A k \in Starts : phase'[k] = IF k = j THEN ph ELSE phase[k]
  BY <1>1
<1>3. \A v \in Windows : v # j[1] => <<v, "activate">> # j /\ <<v, "restart">> # j
  BY StartsAreJobs
<1>4. j[2] = "activate" => j = <<j[1], "activate">> /\ <<j[1], "restart">> # j
  BY StartsAreJobs
<1>5. j[2] = "restart" => j = <<j[1], "restart">> /\ <<j[1], "activate">> # j
  BY StartsAreJobs
<1> QED
  BY <1>2, <1>3, <1>4, <1>5, StartsAreJobs DEF Active, Restarting

\* What the invariant of a window reads.
SameWindow(v) ==
  /\ Active(v)' = Active(v) /\ Restarting(v)' = Restarting(v)
  /\ client'[v] = client[v] /\ running'[v] = running[v] /\ stopped'[v] = stopped[v]
  /\ faulty'[v] = faulty[v] /\ config'[v] = config[v] /\ queue'[v] = queue[v]
  /\ overtaken'[v] = overtaken[v]
  /\ OldLaunch(v, "activate")' => OldLaunch(v, "activate")
  /\ OldLaunch(v, "restart")' => OldLaunch(v, "restart")

\* The invariant of a window holds as long as what it reads stays the same.
LEMMA WindowFrame ==
  ASSUME NEW v \in Windows, SameWindow(v), ~overtaken[v] => WindowInv(v)
  PROVE  ~overtaken'[v] => WindowInv(v)'
BY DEF SameWindow, WindowInv, Busy

\* Where jobs of other windows are, nothing is old that was not before.
LEMMA OldLaunchKeeps ==
  ASSUME NEW v \in Windows, Active(v)' = Active(v), Restarting(v)' = Restarting(v),
         config'[v] = config[v],
         launch'[<<v, "activate">>] = launch[<<v, "activate">>],
         launch'[<<v, "restart">>] = launch[<<v, "restart">>]
  PROVE  /\ OldLaunch(v, "activate")' => OldLaunch(v, "activate")
         /\ OldLaunch(v, "restart")' => OldLaunch(v, "restart")
BY DEF OldLaunch, Active, Restarting

\* A step of a start, given what it does to its own window.
LEMMA WindowStart ==
  ASSUME Base, WindowsInv, NEW j \in Starts, NEW ph, phase' = [phase EXCEPT ![j] = ph],
         \A k \in Jobs : k # j => launch'[k] = launch[k],
         \A v \in Windows : v # j[1] =>
           /\ client'[v] = client[v] /\ running'[v] = running[v] /\ faulty'[v] = faulty[v],
         UNCHANGED <<config, stopped, queue, overtaken>>,
         ~overtaken[j[1]] /\ WindowInv(j[1]) => WindowInv(j[1])'
  PROVE  WindowsInv'
<1> SUFFICES ASSUME NEW v \in Windows
             PROVE  ~overtaken'[v] => WindowInv(v)'
  BY DEF WindowsInv
<1>1. CASE v = j[1]
  BY <1>1 DEF WindowsInv
<1>2. CASE v # j[1]
  <2>1. Active(v)' = Active(v) /\ Restarting(v)' = Restarting(v)
    BY <1>2, PhaseMoves
  <2>2. <<v, "activate">> # j /\ <<v, "restart">> # j
    BY <1>2, StartsAreJobs
  <2>3. /\ launch'[<<v, "activate">>] = launch[<<v, "activate">>]
        /\ launch'[<<v, "restart">>] = launch[<<v, "restart">>]
    BY <2>2, StartsAreJobs
  <2>4. SameWindow(v)
    BY <1>2, <2>1, <2>3, OldLaunchKeeps DEF SameWindow
  <2> QED
    BY <2>4, WindowFrame DEF WindowsInv
<1> QED
  BY <1>1, <1>2

\* A start begins to resolve; only a start that was overtaken finds a client.
LEMMA WindowStartClient ==
  ASSUME Base, WindowsInv, NEW j \in Starts, StartClient(j)
  PROVE  WindowsInv'
<1> DEFINE w == j[1]
<1>1. w \in Windows /\ j \in Jobs /\ config[w] \in Configs
  BY StartsAreJobs DEF Base, TypeOK
<1>2. CASE client[w] # NoClient /\ UNCHANGED installVars /\ phase' = [phase EXCEPT ![j] = "off"]
  <2>1. ~overtaken[w] /\ WindowInv(w) => FALSE
    BY <1>1, <1>2, StartsAreJobs, PhaseMoves DEF StartClient, WindowInv, Busy
  <2> QED
    BY <1>2, <2>1, WindowStart DEF StartClient, installVars
<1>3. CASE Resolve(j, config[w]) /\ phase' = [phase EXCEPT ![j] = "resolving"]
  <2>1. /\ launch'[j] = config[w] /\ \A k \in Jobs : k # j => launch'[k] = launch[k]
    BY <1>1, <1>3, ResolveMoves DEF Base, TypeOK
  <2>2. /\ phase[j] = "start"
        /\ UNCHANGED <<config, client, running, stopped, queue, overtaken, faulty>>
    BY DEF StartClient
  <2>3. j[2] \in {"activate", "restart"} /\ j = <<w, j[2]>>
    BY StartsAreJobs
  <2>4. ASSUME ~overtaken[w], WindowInv(w)
        PROVE  WindowInv(w)'
    <3>1. CASE j[2] = "activate"
      <4>1. /\ Active(w) = "start" /\ Active(w)' = "resolving" /\ Restarting(w)' = Restarting(w)
            /\ Restarting(w) = "off"
        BY <1>3, <2>2, <2>4, <3>1, PhaseMoves DEF WindowInv
      <4>2. ~OldLaunch(w, "activate")' /\ ~OldLaunch(w, "restart")'
        BY <2>1, <2>2, <2>3, <3>1, <4>1 DEF OldLaunch, Restarting
      <4> QED
        BY <2>2, <2>4, <4>1, <4>2 DEF WindowInv, Busy
    <3>2. CASE j[2] = "restart"
      <4>1. /\ Restarting(w) = "start" /\ Restarting(w)' = "resolving" /\ Active(w)' = Active(w)
            /\ Active(w) = "off"
        BY <1>3, <2>2, <2>4, <3>2, PhaseMoves DEF WindowInv
      <4>2. ~OldLaunch(w, "activate")' /\ ~OldLaunch(w, "restart")'
        BY <2>1, <2>2, <2>3, <3>2, <4>1 DEF OldLaunch, Active
      <4> QED
        BY <2>2, <2>4, <4>1, <4>2 DEF WindowInv, Busy
    <3> QED
      BY <2>3, <3>1, <3>2
  <2> QED
    BY <1>3, <2>1, <2>2, <2>4, WindowStart
<1> QED
  BY <1>2, <1>3 DEF StartClient

\* A resolve fails and leaves the window without a client, and faulty.
LEMMA WindowResolveFails ==
  ASSUME Base, WindowsInv, NEW j \in Starts, ResolveFails(j)
  PROVE  WindowsInv'
<1> DEFINE w == j[1]
<1>1. /\ Taken(j, "failed") /\ j \in Jobs /\ w \in Windows
      /\ phase' = [phase EXCEPT ![j] = "off"]
      /\ faulty' = [faulty EXCEPT ![w] = TRUE]
      /\ UNCHANGED <<config, client, running, stopped, queue, overtaken>>
  BY StartsAreJobs DEF ResolveFails, Reject
<1>2. pc[j] = "failed" /\ \A k \in Jobs : k # j => launch'[k] = launch[k]
  BY <1>1, TakenMoves DEF Base, TypeOK
<1>3. phase[j] = "resolving"
  BY <1>2 DEF Base, StartInv, ResolvingInv
<1>4. faulty'[w] /\ \A v \in Windows : v # w => faulty'[v] = faulty[v]
  BY <1>1 DEF Base, TypeOK
<1>5. ASSUME ~overtaken[w], WindowInv(w)
      PROVE  WindowInv(w)'
  <2>1. /\ Busy(w, "resolving") /\ Active(w)' = "off" /\ Restarting(w)' = "off"
    BY <1>1, <1>3, <1>5, StartsAreJobs, PhaseMoves DEF WindowInv, Busy
  <2>2. ~OldLaunch(w, "activate")' /\ ~OldLaunch(w, "restart")'
    BY <2>1 DEF OldLaunch, Active, Restarting
  <2> QED
    BY <1>1, <1>4, <1>5, <2>1, <2>2 DEF WindowInv, Busy
<1> QED
  BY <1>1, <1>2, <1>4, <1>5, WindowStart

\* A client is made, the window's only one.
LEMMA WindowLaunch ==
  ASSUME Base, WindowsInv, NEW j \in Starts, Launch(j)
  PROVE  WindowsInv'
<1> DEFINE w == j[1]
           c == [by |-> j[2], config |-> launch[j], intact |-> UsesCached(j) => Intact, up |-> FALSE]
<1>1. /\ Taken(j, "resolved") /\ phase[j] = "resolving" /\ j \in Jobs /\ w \in Windows
      /\ client' = [client EXCEPT ![w] = c]
      /\ running' = [running EXCEPT ![w] = @ \cup {c}]
      /\ phase' = [phase EXCEPT ![j] = "starting"]
      /\ UNCHANGED <<config, stopped, queue, overtaken, faulty>>
  BY StartsAreJobs DEF Launch
<1>2. \A k \in Jobs : k # j => launch'[k] = launch[k]
  BY <1>1, TakenMoves DEF Base, TypeOK
<1>3. launch[j] \in Configs /\ (UsesCached(j) => Intact) \in BOOLEAN
  BY <1>1 DEF Base, TypeOK, InstallTypeOK
<1>4. c \in Clients /\ c # NoClient /\ ~c.up /\ c.config = launch[j]
  <2>1. c \in Clients /\ ~c.up /\ c.config = launch[j]
    BY <1>3, StartsAreJobs DEF Clients
  <2> QED
    BY <2>1, ClientAssumption
<1> HIDE DEF c
<1>5. /\ client'[w] = c /\ running'[w] = running[w] \cup {c}
      /\ \A v \in Windows : v # w => client'[v] = client[v] /\ running'[v] = running[v]
  BY <1>1 DEF Base, TypeOK
<1>6. ASSUME ~overtaken[w], WindowInv(w)
      PROVE  WindowInv(w)'
  <2>1. /\ Busy(w, "resolving") /\ Busy(w, "starting")'
        /\ \/ Active(w)' = "starting" /\ Restarting(w)' = "off"
           \/ Active(w)' = "off" /\ Restarting(w)' = "starting"
    BY <1>1, <1>6, StartsAreJobs, PhaseMoves DEF WindowInv, Busy
  <2>2. ~OldLaunch(w, "activate")' /\ ~OldLaunch(w, "restart")'
    BY <2>1 DEF OldLaunch, Active, Restarting
  <2>3. c.config # config[w] => queue[w] > 0
    BY <1>1, <1>4, <1>6, StartsAreJobs DEF WindowInv, OldLaunch
  <2>4. running'[w] = {c}
    BY <1>5, <1>6, <2>1 DEF WindowInv
  <2> QED
    BY <1>1, <1>4, <1>5, <1>6, <2>1, <2>2, <2>3, <2>4 DEF WindowInv, Busy
<1> QED
  BY <1>1, <1>2, <1>5, <1>6, WindowStart

\* A client comes up.
LEMMA WindowStarted ==
  ASSUME Base, WindowsInv, NEW j \in Starts, Started(j)
  PROVE  WindowsInv'
<1> DEFINE w == j[1]
           c == Made(j)
<1>1. /\ phase[j] = "starting" /\ w \in Windows
      /\ running' = [running EXCEPT ![w] = (@ \ {c}) \cup {Up(c)}]
      /\ client' = [client EXCEPT ![w] = IF @ = c THEN Up(c) ELSE @]
      /\ phase' = [phase EXCEPT ![j] = "off"]
      /\ faulty' = [faulty EXCEPT ![w] = FALSE]
      /\ UNCHANGED <<launch, config, stopped, queue, overtaken>>
  BY StartsAreJobs DEF Started, installVars
<1>2. c \in running[w] /\ c \in Clients /\ Up(c) \in Clients
  BY <1>1, MadeIsRunning
<1>3. Up(c).up /\ Up(c).config = c.config /\ Up(c) # NoClient
  <2>1. Up(c).up /\ Up(c).config = c.config
    BY <1>2 DEF Up, Clients
  <2> QED
    BY <1>2, <2>1, ClientAssumption
<1> HIDE DEF c
<1>4. /\ running'[w] = (running[w] \ {c}) \cup {Up(c)}
      /\ client'[w] = IF client[w] = c THEN Up(c) ELSE client[w]
      /\ ~faulty'[w]
      /\ \A v \in Windows : v # w => /\ client'[v] = client[v] /\ running'[v] = running[v]
                                     /\ faulty'[v] = faulty[v]
  BY <1>1 DEF Base, TypeOK
<1>5. ASSUME ~overtaken[w], WindowInv(w)
      PROVE  WindowInv(w)'
  <2>1. /\ Busy(w, "starting") /\ Active(w)' = "off" /\ Restarting(w)' = "off"
    BY <1>1, <1>5, StartsAreJobs, PhaseMoves DEF WindowInv, Busy
  <2>2. ~OldLaunch(w, "activate")' /\ ~OldLaunch(w, "restart")'
    BY <2>1 DEF OldLaunch, Active, Restarting
  <2>3. client[w] = c /\ running[w] = {c}
    BY <1>2, <1>5, <2>1 DEF WindowInv
  <2>4. client'[w] = Up(c) /\ running'[w] = {Up(c)}
    BY <1>4, <2>3
  <2>5. client'[w].config # config'[w] => queue'[w] > 0
    BY <1>1, <1>3, <1>5, <2>3, <2>4, ClientAssumption, <1>2 DEF WindowInv
  <2> QED
    BY <1>3, <2>1, <2>2, <2>4, <2>5 DEF WindowInv, Busy
<1> QED
  BY <1>1, <1>4, <1>5, WindowStart

\* A client fails to start: it stays in `client` and runs no more.
LEMMA WindowStartFails ==
  ASSUME Base, WindowsInv, NEW j \in Starts, StartFails(j)
  PROVE  WindowsInv'
<1> DEFINE w == j[1]
           c == Made(j)
<1>1. /\ phase[j] = "starting" /\ w \in Windows
      /\ running' = [running EXCEPT ![w] = @ \ {c}]
      /\ phase' = [phase EXCEPT ![j] = "off"]
      /\ faulty' = [faulty EXCEPT ![w] = TRUE]
      /\ UNCHANGED <<launch, client, config, stopped, queue, overtaken>>
  BY StartsAreJobs DEF StartFails, Reject, installVars
<1>2. c \in running[w] /\ ~c.up
  BY <1>1, MadeIsRunning
<1> HIDE DEF c
<1>3. /\ running'[w] = running[w] \ {c} /\ faulty'[w]
      /\ \A v \in Windows : v # w => running'[v] = running[v] /\ faulty'[v] = faulty[v]
  BY <1>1 DEF Base, TypeOK
<1>4. ASSUME ~overtaken[w], WindowInv(w)
      PROVE  WindowInv(w)'
  <2>1. /\ Busy(w, "starting") /\ Active(w)' = "off" /\ Restarting(w)' = "off"
    BY <1>1, <1>4, StartsAreJobs, PhaseMoves DEF WindowInv, Busy
  <2>2. ~OldLaunch(w, "activate")' /\ ~OldLaunch(w, "restart")'
    BY <2>1 DEF OldLaunch, Active, Restarting
  <2>3. client[w] = c /\ running[w] = {c} /\ client[w] # NoClient
    BY <1>2, <1>4, <2>1 DEF WindowInv
  <2>4. client'[w] = c /\ running'[w] = {}
    BY <1>1, <1>3, <2>3
  <2> QED
    BY <1>1, <1>2, <1>3, <1>4, <2>1, <2>2, <2>3, <2>4 DEF WindowInv, Busy
<1> QED
  BY <1>1, <1>3, <1>4, WindowStart

\* A restart takes the client out of `client` before it stops it; while activation
\* is under way the window is overtaken from here on.
LEMMA WindowBeginRestart ==
  ASSUME Base, WindowsInv, NEW w \in Windows, BeginRestart(w)
  PROVE  WindowsInv'
<1> DEFINE r == <<w, "restart">>
           ph == IF client[w] = NoClient THEN "start" ELSE "stopping"
<1>1. /\ Restarting(w) = "off"
      /\ queue' = [queue EXCEPT ![w] = @ - 1]
      /\ stopped' = [stopped EXCEPT ![w] = client[w]]
      /\ client' = [client EXCEPT ![w] = NoClient]
      /\ phase' = [phase EXCEPT ![r] = ph]
      /\ overtaken' = [overtaken EXCEPT ![w] = @ \/ Active(w) # "off"]
      /\ UNCHANGED <<launch, config, running, faulty>>
  BY DEF BeginRestart, NextRestart, installVars, Active, Restarting
<1>2. r \in Starts /\ r[1] = w /\ r[2] = "restart"
  BY StartsAreJobs
<1>3. /\ Restarting(w)' = ph /\ Active(w)' = Active(w)
      /\ \A v \in Windows : v # w => Active(v)' = Active(v) /\ Restarting(v)' = Restarting(v)
  BY <1>1, <1>2, PhaseMoves
<1>4. /\ stopped'[w] = client[w] /\ client'[w] = NoClient
      /\ ~overtaken'[w] => ~overtaken[w] /\ Active(w) = "off"
      /\ \A v \in Windows : v # w => /\ stopped'[v] = stopped[v] /\ client'[v] = client[v]
                                     /\ overtaken'[v] = overtaken[v] /\ queue'[v] = queue[v]
  BY <1>1 DEF Base, TypeOK
<1>5. ASSUME ~overtaken'[w]
      PROVE  WindowInv(w)'
  <2>1. WindowInv(w) /\ Active(w)' = "off" /\ Restarting(w)' \in {"start", "stopping"}
    BY <1>3, <1>4, <1>5 DEF WindowsInv
  <2>2. ~OldLaunch(w, "activate")' /\ ~OldLaunch(w, "restart")'
    BY <2>1 DEF OldLaunch, Active, Restarting
  <2> QED
    BY <1>1, <1>3, <1>4, <1>5, <2>1, <2>2 DEF WindowInv, Busy
<1>6. ASSUME NEW v \in Windows, v # w
      PROVE  ~overtaken'[v] => WindowInv(v)'
  <2>1. SameWindow(v)
    BY <1>1, <1>3, <1>4, <1>6, OldLaunchKeeps DEF SameWindow
  <2> QED
    BY <2>1, WindowFrame DEF WindowsInv
<1> QED
  BY <1>5, <1>6 DEF WindowsInv

\* The client is stopped.
LEMMA WindowStopEnds ==
  ASSUME Base, WindowsInv, NEW w \in Windows, StopEnds(w)
  PROVE  WindowsInv'
<1> DEFINE r == <<w, "restart">>
<1>1. /\ Restarting(w) = "stopping" /\ stopped[w].up
      /\ running' = [running EXCEPT ![w] = @ \ {stopped[w]}]
      /\ phase' = [phase EXCEPT ![r] = "start"]
      /\ stopped' = [stopped EXCEPT ![w] = NoClient]
      /\ UNCHANGED <<launch, config, client, queue, overtaken, faulty>>
  BY DEF StopEnds, installVars, Restarting
<1>2. r \in Starts /\ r[1] = w /\ r[2] = "restart"
  BY StartsAreJobs
<1>3. /\ Restarting(w)' = "start" /\ Active(w)' = Active(w)
      /\ \A v \in Windows : v # w => Active(v)' = Active(v) /\ Restarting(v)' = Restarting(v)
  BY <1>1, <1>2, PhaseMoves
<1>4. /\ running'[w] = running[w] \ {stopped[w]}
      /\ \A v \in Windows : v # w => running'[v] = running[v] /\ stopped'[v] = stopped[v]
  BY <1>1 DEF Base, TypeOK
<1>5. ASSUME ~overtaken'[w]
      PROVE  WindowInv(w)'
  <2>1. WindowInv(w) /\ Active(w)' = "off"
    BY <1>1, <1>3, <1>5 DEF WindowsInv, WindowInv
  <2>2. ~OldLaunch(w, "activate")' /\ ~OldLaunch(w, "restart")'
    BY <1>3, <2>1 DEF OldLaunch, Active, Restarting
  <2>3. running'[w] = {}
    BY <1>1, <1>4, <2>1 DEF WindowInv
  <2> QED
    BY <1>1, <1>3, <2>1, <2>2, <2>3 DEF WindowInv, Busy
<1>6. ASSUME NEW v \in Windows, v # w
      PROVE  ~overtaken'[v] => WindowInv(v)'
  <2>1. SameWindow(v)
    BY <1>1, <1>3, <1>4, <1>6, OldLaunchKeeps DEF SameWindow
  <2> QED
    BY <2>1, WindowFrame DEF WindowsInv
<1> QED
  BY <1>5, <1>6 DEF WindowsInv

\* Stopping a client that is not up throws: it was not running.
LEMMA WindowStopThrows ==
  ASSUME Base, WindowsInv, NEW w \in Windows, StopThrows(w)
  PROVE  WindowsInv'
<1> DEFINE r == <<w, "restart">>
<1>1. /\ Restarting(w) = "stopping" /\ ~stopped[w].up
      /\ phase' = [phase EXCEPT ![r] = "off"]
      /\ stopped' = [stopped EXCEPT ![w] = NoClient]
      /\ faulty' = [faulty EXCEPT ![r[1]] = TRUE]
      /\ UNCHANGED <<launch, config, client, running, queue, overtaken>>
  BY DEF StopThrows, Reject, installVars, Restarting
<1>2. r \in Starts /\ r[1] = w /\ r[2] = "restart"
  BY StartsAreJobs
<1>3. /\ Restarting(w)' = "off" /\ Active(w)' = Active(w)
      /\ \A v \in Windows : v # w => Active(v)' = Active(v) /\ Restarting(v)' = Restarting(v)
  BY <1>1, <1>2, PhaseMoves
<1>4. /\ faulty'[w]
      /\ \A v \in Windows : v # w => faulty'[v] = faulty[v] /\ stopped'[v] = stopped[v]
  BY <1>1, <1>2 DEF Base, TypeOK
<1>5. ASSUME ~overtaken'[w]
      PROVE  WindowInv(w)'
  <2>1. WindowInv(w) /\ Active(w)' = "off"
    BY <1>1, <1>3, <1>5 DEF WindowsInv, WindowInv
  <2>2. ~OldLaunch(w, "activate")' /\ ~OldLaunch(w, "restart")'
    BY <1>3, <2>1 DEF OldLaunch, Active, Restarting
  <2> QED
    BY <1>1, <1>3, <1>4, <2>1, <2>2 DEF WindowInv, Busy
<1>6. ASSUME NEW v \in Windows, v # w
      PROVE  ~overtaken'[v] => WindowInv(v)'
  <2>1. SameWindow(v)
    BY <1>1, <1>3, <1>4, <1>6, OldLaunchKeeps DEF SameWindow
  <2> QED
    BY <2>1, WindowFrame DEF WindowsInv
<1> QED
  BY <1>5, <1>6 DEF WindowsInv

\* A restart is queued, for new settings or without: what is old then has a
\* restart ahead of it.
LEMMA WindowQueues ==
  ASSUME Base, WindowsInv, NEW w \in Windows,
         RestartCommand(w) \/ \E c \in Configs : ChangeSettings(w, c)
  PROVE  WindowsInv'
<1>1. /\ queue' = [queue EXCEPT ![w] = @ + 1]
      /\ config' = config \/ \E c \in Configs : config' = [config EXCEPT ![w] = c]
      /\ UNCHANGED <<launch, phase, client, running, stopped, overtaken, faulty>>
  BY DEF RestartCommand, ChangeSettings, queueRestart, installVars
<1>2. /\ queue'[w] > 0
      /\ \A v \in Windows : v # w => queue'[v] = queue[v] /\ config'[v] = config[v]
  BY <1>1 DEF Base, TypeOK
<1>3. \A v \in Windows : Active(v)' = Active(v) /\ Restarting(v)' = Restarting(v)
  BY <1>1 DEF Active, Restarting
<1>4. ~overtaken'[w] => WindowInv(w)'
  BY <1>1, <1>2, <1>3 DEF WindowsInv, WindowInv, Busy
<1>5. ASSUME NEW v \in Windows, v # w
      PROVE  ~overtaken'[v] => WindowInv(v)'
  <2>1. SameWindow(v)
    BY <1>1, <1>2, <1>3, <1>5, OldLaunchKeeps DEF SameWindow
  <2> QED
    BY <2>1, WindowFrame DEF WindowsInv
<1> QED
  BY <1>4, <1>5 DEF WindowsInv

\* Scans and installing steps read and write nothing of a window.
LEMMA WindowElsewhere ==
  ASSUME Base, WindowsInv, UNCHANGED clientVars, \A j \in Starts : launch'[j] = launch[j]
  PROVE  WindowsInv'
<1> SUFFICES ASSUME NEW v \in Windows
             PROVE  ~overtaken'[v] => WindowInv(v)'
  BY DEF WindowsInv
<1>1. Active(v)' = Active(v) /\ Restarting(v)' = Restarting(v)
  BY DEF clientVars, Active, Restarting
<1>2. SameWindow(v)
  BY <1>1, OldLaunchKeeps, StartsAreJobs DEF clientVars, SameWindow
<1> QED
  BY <1>2, WindowFrame DEF WindowsInv

\* A window that is opened again starts from nothing.
LEMMA WindowReopen ==
  ASSUME Base, WindowsInv, NEW w \in Windows, Reopen(w)
  PROVE  WindowsInv'
<1>1. /\ Abandon(w)
      /\ phase' = [j \in Starts |-> IF j[1] # w THEN phase[j]
                                    ELSE IF j[2] = "activate" THEN "start" ELSE "off"]
      /\ client' = [client EXCEPT ![w] = NoClient] /\ stopped' = [stopped EXCEPT ![w] = NoClient]
      /\ running' = [running EXCEPT ![w] = {}] /\ queue' = [queue EXCEPT ![w] = 0]
      /\ overtaken' = [overtaken EXCEPT ![w] = FALSE] /\ faulty' = [faulty EXCEPT ![w] = FALSE]
      /\ config' = config
  BY DEF Reopen
<1>2. /\ Active(w)' = "start" /\ Restarting(w)' = "off"
      /\ \A v \in Windows : v # w => Active(v)' = Active(v) /\ Restarting(v)' = Restarting(v)
  BY <1>1, StartsAreJobs DEF Active, Restarting
<1>3. /\ client'[w] = NoClient /\ running'[w] = {}
      /\ \A v \in Windows : v # w =>
           /\ client'[v] = client[v] /\ stopped'[v] = stopped[v] /\ running'[v] = running[v]
           /\ queue'[v] = queue[v] /\ overtaken'[v] = overtaken[v] /\ faulty'[v] = faulty[v]
  BY <1>1 DEF Base, TypeOK
<1>4. WindowInv(w)'
  <2>1. ~OldLaunch(w, "activate")' /\ ~OldLaunch(w, "restart")'
    BY <1>2 DEF OldLaunch, Active, Restarting
  <2> QED
    BY <1>2, <1>3, <2>1 DEF WindowInv, Busy
<1>5. ASSUME NEW v \in Windows, v # w
      PROVE  ~overtaken'[v] => WindowInv(v)'
  <2>1. /\ launch'[<<v, "activate">>] = launch[<<v, "activate">>]
        /\ launch'[<<v, "restart">>] = launch[<<v, "restart">>]
    <3>1. \A k \in Jobs : k[1] # w => launch'[k] = launch[k]
      BY <1>1, AbandonMoves DEF Base, TypeOK
    <3>2. <<v, "activate">> \in Jobs /\ <<v, "restart">> \in Jobs
      BY StartsAreJobs
    <3> QED
      BY <1>5, <3>1, <3>2
  <2>2. SameWindow(v)
    BY <1>1, <1>2, <1>3, <1>5, <2>1, OldLaunchKeeps DEF SameWindow
  <2> QED
    BY <2>2, WindowFrame DEF WindowsInv
<1> QED
  BY <1>4, <1>5 DEF WindowsInv

\* Every step keeps the invariant of every window.
LEMMA WindowStep == Base /\ WindowsInv /\ [Next]_vars => WindowsInv'
<1> SUFFICES ASSUME Base, WindowsInv, [Next]_vars
             PROVE  WindowsInv'
  OBVIOUS
<1>1. ASSUME NEW j \in Jobs, Install(j)
      PROVE  WindowsInv'
  BY <1>1, InstallMoves, WindowElsewhere DEF Install, Base, TypeOK
<1>2. ASSUME NEW w \in Windows, ScanWorkspace(w)
      PROVE  WindowsInv'
  <2>1. config[w] \in Configs /\ InstallTypeOK
    BY DEF Base, TypeOK
  <2>2. <<w, "scan">> \in Jobs /\ \A j \in Starts : j \in Jobs /\ j # <<w, "scan">>
    BY StartsAreJobs
  <2>3. \A j \in Starts : launch'[j] = launch[j]
    BY <1>2, <2>1, <2>2, ResolveMoves DEF ScanWorkspace
  <2> QED
    BY <1>2, <2>3, WindowElsewhere DEF ScanWorkspace
<1>3. ASSUME NEW w \in Windows, ScanEnds(w)
      PROVE  WindowsInv'
  <2>1. InstallTypeOK
    BY DEF Base, TypeOK
  <2>2. <<w, "scan">> \in Jobs /\ \A j \in Starts : j \in Jobs /\ j # <<w, "scan">>
    BY StartsAreJobs
  <2>3. \A j \in Starts : launch'[j] = launch[j]
    BY <1>3, <2>1, <2>2, TakenMoves DEF ScanEnds
  <2> QED
    BY <1>3, <2>3, WindowElsewhere DEF ScanEnds
<1>4. CASE UNCHANGED vars
  BY <1>4, WindowElsewhere DEF vars, installVars
<1> QED
  BY <1>1, <1>2, <1>3, <1>4, WindowStartClient, WindowResolveFails, WindowLaunch, WindowStarted,
     WindowStartFails, WindowBeginRestart, WindowStopEnds, WindowStopThrows, WindowQueues,
     WindowReopen DEF Next, StartStep, StopStep

\* Every window begins activating, without a client.
LEMMA WindowInit == Init => WindowsInv
<1> SUFFICES ASSUME Init, NEW w \in Windows
             PROVE  WindowInv(w)
  BY DEF WindowsInv
<1>1. /\ phase = [j \in Starts |-> IF j[2] = "activate" THEN "start" ELSE "off"]
      /\ client[w] = NoClient /\ running[w] = {}
  BY DEF Init
<1>2. Active(w) = "start" /\ Restarting(w) = "off"
  BY <1>1, StartsAreJobs DEF Active, Restarting
<1>3. ~OldLaunch(w, "activate") /\ ~OldLaunch(w, "restart")
  BY <1>2 DEF OldLaunch, Active, Restarting
<1> QED
  BY <1>1, <1>2, <1>3 DEF WindowInv, Busy

\* The invariant of the windows holds in every reachable state.
LEMMA WindowsAlways == Spec => []WindowsInv
<1> QED
  BY WindowInit, WindowStep, BaseAlways, PTL DEF Spec

\* A window whose restarts all began after activation has at most one server, for
\* any number of windows, queued restarts, failures and reopened windows.
THEOREM AtMostOneServer == Spec => []OneServer
<1>1. ASSUME Base, WindowsInv
      PROVE  OneServer
  <2> SUFFICES ASSUME NEW w \in Windows, ~overtaken[w]
               PROVE  Cardinality(running[w]) <= 1
    BY DEF OneServer
  <2>1. WindowInv(w)
    BY <1>1 DEF WindowsInv
  <2>2. /\ Active(w) \in {"off", "start", "resolving", "starting"}
        /\ Restarting(w) \in {"off", "start", "resolving", "starting", "stopping"}
    BY <1>1, StartsAreJobs DEF Base, TypeOK, StartInv, ActivateInv, Active, Restarting
  <2>3. running[w] = {} \/ \E c : running[w] = {c}
    BY <2>1, <2>2 DEF WindowInv, Busy
  <2>4. CASE running[w] = {}
    BY <2>4, FS_EmptySet
  <2>5. CASE \E c : running[w] = {c}
    <3>1. PICK c : running[w] = {c}
      BY <2>5
    <3>2. Cardinality({c}) = 1
      BY FS_Singleton
    <3> QED
      BY <3>1, <3>2
  <2> QED
    BY <2>3, <2>4, <2>5
<1> QED
  BY <1>1, BaseAlways, WindowsAlways, PTL

\* A window in which nothing is going on and nothing failed runs one server, the
\* one `client` holds, with the launch settings of the moment.
THEOREM SettledWindows == Spec => []SettledRunsSettings
<1>1. ASSUME Base, WindowsInv
      PROVE  SettledRunsSettings
  <2> SUFFICES ASSUME NEW w \in Windows, Quiet(w), ~faulty[w], ~overtaken[w]
               PROVE  /\ client[w] # NoClient /\ client[w].up /\ running[w] = {client[w]}
                      /\ client[w].config = config[w]
    BY DEF SettledRunsSettings
  <2>1. WindowInv(w) /\ Active(w) = "off" /\ Restarting(w) = "off" /\ queue[w] = 0
    BY <1>1 DEF WindowsInv, Quiet, Active, Restarting
  <2> QED
    BY <2>1 DEF WindowInv
<1> QED
  BY <1>1, BaseAlways, WindowsAlways, PTL
=============================================================================
