--------------------------- MODULE DebounceSteps ---------------------------
(***************************************************************************)
(* What the worker of src/runtime/debounce/mod.rs does to its own state,   *)
(* as operators on a record: the commands accepted and not yet received,   *)
(* the pending closure, and the closure being awaited.  The record leaves  *)
(* out Flush, the timer and the capacity of the channel, so it is what a   *)
(* user of a debouncer may rely on; Debounce is shown to implement it, and *)
(* DocumentPipeline builds its per-document debouncers from it.            *)
(***************************************************************************)
EXTENDS Naturals, Sequences

CONSTANT NoTask   \* pending = None, or nothing awaited

NewWorker == [alive |-> TRUE, chan |-> <<>>, pending |-> NoTask, running |-> NoTask]

\* A send to a worker whose receiver is gone is discarded.
Accept(w, cmd) == IF w.alive THEN [w EXCEPT !.chan = Append(@, cmd)] ELSE w

CanReceive(w) == w.running = NoTask /\ w.chan # <<>>

\* Schedule replaces the pending closure, Cancel drops it.
Receive(w) ==
  LET cmd == Head(w.chan)
  IN [w EXCEPT !.chan = Tail(@),
               !.pending = IF cmd.op = "schedule" THEN cmd.task ELSE NoTask]

CanStart(w) == w.running = NoTask /\ w.pending # NoTask

Start(w) == [w EXCEPT !.running = w.pending, !.pending = NoTask]

FinishForgotten(w) == w
Finish(w) == [w EXCEPT !.running = NoTask]

\* The awaited closure panics and takes the worker with it.
Die(w) == [alive |-> FALSE, chan |-> <<>>, pending |-> NoTask, running |-> NoTask]
=============================================================================
