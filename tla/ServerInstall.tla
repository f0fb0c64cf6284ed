--------------------------- MODULE ServerInstall ---------------------------
(***************************************************************************)
(* Finding the server binary in the VS Code extension (serverInstall.ts).  *)
(* Every start of a client and every workspace scan of every window runs   *)
(* resolveServerBinary; the downloads of all windows end in one file of    *)
(* the global storage, written by copyFile, which is not atomic.  An await *)
(* that another job can notice ends a step.                                *)
(*                                                                         *)
(* Hosts are unix, where the copy is executable from its first byte; the   *)
(* private download directory is not modelled.                             *)
(***************************************************************************)
EXTENDS Integers, FiniteSets

CONSTANTS
  Windows,
  Kinds,     \* what resolves a binary in a window
  Configs,   \* launch settings
  Default,   \* those with the default serverCommand
  NoFile

Jobs == Windows \X Kinds
Archives == {"good", "damaged", "none"}
Files == [by : Jobs, from : Archives, whole : BOOLEAN]

ASSUME InstallAssumption == Default \subseteq Configs /\ NoFile \notin Files

VARIABLES
  host,     \* [onPath, supported]: what PATH and the platform offer
  binary,   \* the cached binary: who wrote it last, from what, and whether all of it
  pc,       \* where each job is in resolveServerBinary
  launch,   \* the settings each job at work read
  archive,  \* the download of each job
  torn,     \* a window closed in the middle of a copy
  overlap   \* a job looked for the binary while another was installing

installVars == <<host, binary, pc, launch, archive, torn, overlap>>

Steps == {"idle", "path", "cache", "fetch", "verify", "copy", "copying", "chmod", "undo",
          "resolved", "failed"}
Installing(j) == pc[j] \in {"fetch", "verify", "copy", "copying", "chmod", "undo"}

Unread == CHOOSE c \in Configs : TRUE
Goto(j, step) == pc' = [pc EXCEPT ![j] = step]

InstallInit ==
  /\ host \in [onPath : BOOLEAN, supported : BOOLEAN]
  /\ binary = NoFile
  /\ pc = [j \in Jobs |-> "idle"]
  /\ launch = [j \in Jobs |-> Unread]
  /\ archive = [j \in Jobs |-> "none"]
  /\ torn = FALSE /\ overlap = FALSE

\* resolveServerBinary up to its first await: a configured command is taken as it is.
Resolve(j, config) ==
  /\ pc[j] = "idle"
  /\ launch' = [launch EXCEPT ![j] = config]
  /\ Goto(j, IF config \in Default THEN "path" ELSE "resolved")
  /\ UNCHANGED <<host, binary, archive, torn, overlap>>

\* pathServerMatchesVersion.
CheckPath(j) ==
  /\ pc[j] = "path"
  /\ Goto(j, IF host.onPath THEN "resolved" ELSE "cache")
  /\ UNCHANGED <<host, binary, launch, archive, torn, overlap>>

\* cachedBinaryUsable tells whether the file is there, not whether it is whole.
CheckCache(j) ==
  /\ pc[j] = "cache"
  /\ Goto(j, IF binary # NoFile THEN "resolved"
             ELSE IF host.supported THEN "fetch" ELSE "failed")
  /\ overlap' = (overlap \/ \E k \in Jobs \ {j} : Installing(k))
  /\ UNCHANGED <<host, binary, launch, archive, torn>>

\* The two downloads: a whole or a damaged archive, or an error.
Download(j) ==
  /\ pc[j] = "fetch"
  /\ \E got \in Archives :
       /\ archive' = [archive EXCEPT ![j] = got]
       /\ Goto(j, IF got = "none" THEN "undo" ELSE "verify")
  /\ UNCHANGED <<host, binary, launch, torn, overlap>>

\* verifyArchiveChecksum, then extractArchive and findExtractedBinary, which may fail too.
Unverified(j) ==
  /\ pc[j] = "verify"
  /\ \E next \in {"copy", "undo"} : Goto(j, next)
  /\ UNCHANGED <<host, binary, launch, archive, torn, overlap>>
Verify(j) ==
  /\ pc[j] = "verify"
  /\ \E next \in {"copy", "undo"} :
       /\ next = "copy" => archive[j] = "good"
       /\ Goto(j, next)
  /\ UNCHANGED <<host, binary, launch, archive, torn, overlap>>

\* copyFile opens and truncates the destination, or fails.
Truncated(j) == [by |-> j, from |-> archive[j], whole |-> FALSE]
OpenCopy(j) ==
  /\ pc[j] = "copy"
  /\ \/ Goto(j, "copying") /\ binary' = Truncated(j)
     \/ Goto(j, "undo") /\ UNCHANGED binary
  /\ UNCHANGED <<host, launch, archive, torn, overlap>>

\* The copy ends or fails.  It makes the file whole unless another job has truncated
\* or removed it since.
EndCopy(j) ==
  /\ pc[j] = "copying"
  /\ \/ /\ Goto(j, "chmod")
        /\ binary' = IF binary # NoFile /\ binary.by = j THEN [binary EXCEPT !.whole = TRUE]
                     ELSE binary
     \/ Goto(j, "undo") /\ UNCHANGED binary
  /\ UNCHANGED <<host, launch, archive, torn, overlap>>

\* chmod fails when another job has removed the file.
Chmod(j) ==
  /\ pc[j] = "chmod"
  /\ Goto(j, IF binary = NoFile THEN "undo" ELSE "resolved")
  /\ archive' = [archive EXCEPT ![j] = "none"]
  /\ UNCHANGED <<host, binary, launch, torn, overlap>>

\* The catch block of downloadAndCacheServer removes the cached binary, whoever wrote it.
KeepBinary(j) ==
  /\ pc[j] = "undo"
  /\ Goto(j, "failed") /\ archive' = [archive EXCEPT ![j] = "none"]
  /\ UNCHANGED <<host, binary, launch, torn, overlap>>
Undo(j) ==
  /\ pc[j] = "undo"
  /\ Goto(j, "failed") /\ binary' = NoFile /\ archive' = [archive EXCEPT ![j] = "none"]
  /\ UNCHANGED <<host, launch, torn, overlap>>

\* The caller takes the command or the error.
Taken(j, outcome) ==
  /\ pc[j] = outcome
  /\ Goto(j, "idle") /\ launch' = [launch EXCEPT ![j] = Unread]
  /\ UNCHANGED <<host, binary, archive, torn, overlap>>

\* The extension host of a window goes away, with all its jobs.
Abandon(w) ==
  /\ pc' = [j \in Jobs |-> IF j[1] = w THEN "idle" ELSE pc[j]]
  /\ launch' = [j \in Jobs |-> IF j[1] = w THEN Unread ELSE launch[j]]
  /\ archive' = [j \in Jobs |-> IF j[1] = w THEN "none" ELSE archive[j]]
  /\ torn' = (torn \/ \E j \in Jobs : /\ j[1] = w /\ pc[j] \in {"copying", "undo"}
                                      /\ binary # NoFile /\ binary.by = j)
  /\ UNCHANGED <<host, binary, overlap>>

InstallStep(j) ==
  \/ CheckPath(j) \/ CheckCache(j) \/ Download(j) \/ Verify(j)
  \/ OpenCopy(j) \/ EndCopy(j) \/ Chmod(j) \/ Undo(j)

InstallTypeOK ==
  /\ host \in [onPath : BOOLEAN, supported : BOOLEAN]
  /\ binary \in Files \cup {NoFile}
  /\ pc \in [Jobs -> Steps]
  /\ launch \in [Jobs -> Configs]
  /\ archive \in [Jobs -> Archives]
  /\ torn \in BOOLEAN /\ overlap \in BOOLEAN

\* A cached binary that is not whole is being copied or about to be removed by the
\* job that wrote it, whatever failures and other windows do; only a window closed
\* during its copy leaves one behind (and then for good: it is found usable).
PartialIsTransient ==
  binary # NoFile /\ ~binary.whole /\ ~torn => pc[binary.by] \in {"copying", "undo"}
=============================================================================
