-------------------------- MODULE DebouncePromise --------------------------
(***************************************************************************)
(* The promise of a debouncer: commands take effect in the order they were *)
(* accepted, a schedule or a cancel that took effect removes the pending   *)
(* task, at most one task runs at a time, and a task runs at most once.    *)
(* It says nothing about when: an accepted cancel may take effect after    *)
(* the task it meant to stop has started.                                  *)
(***************************************************************************)
EXTENDS DebounceSteps

CONSTANT Tasks

VARIABLE w

PromisedCommand == [op : {"schedule"}, task : Tasks] \cup [op : {"cancel"}]

Init == w = NewWorker

Next ==
  \/ \E cmd \in PromisedCommand : w' = Accept(w, cmd)
  \/ CanReceive(w) /\ w' = Receive(w)
  \/ CanStart(w) /\ w' = Start(w)
  \/ w.running # NoTask /\ w' \in {Finish(w), Die(w)}

Spec == Init /\ [][Next]_w
=============================================================================
