------------------------------ MODULE Debounce ------------------------------
(***************************************************************************)
(* The debouncer of src/runtime/debounce/mod.rs: one worker task owns a    *)
(* pending closure and a timer; callers talk to it over a bounded mpsc     *)
(* channel with Schedule, Cancel and Flush.  Time is abstracted: an armed  *)
(* timer may elapse at any later moment, and the 365-day sleep that stands *)
(* for "no timer" never does.                                              *)
(***************************************************************************)
EXTENDS Naturals, Sequences, Selection

CONSTANTS
  Callers,          \* futures that hold a clone of the Debouncer
  Tasks,            \* closures handed to schedule, each at most once (FnOnce)
  ChannelCapacity,  \* mpsc::channel(16)
  NoTask,           \* pending = None
  NoCaller          \* no flush is being served

ASSUME DebounceAssumption ==
  /\ ChannelCapacity \in Nat \ {0}
  /\ NoTask \notin Tasks
  /\ NoCaller \notin Callers

VARIABLES
  chan,      \* commands in the channel, oldest first
  sendq,     \* sends waiting for room in the channel, in order of arrival
  pc,        \* where each caller is: "idle", "send" or "reply"
  open,      \* some Sender is still alive
  worker,    \* "select", "running", "flushing" or "dead" (panicked)
  running,   \* the task the worker awaits
  replyTo,   \* the caller whose Flush is being served
  pending,   \* the closure waiting for the timer
  timer,     \* "parked" (365 days), "armed" or "elapsed"
  result,    \* what flush() last returned to each caller
  fresh,     \* history: tasks not yet given to schedule
  dropped,   \* history: tasks received, then replaced or cancelled
  barrier    \* history: tasks outstanding when a caller's Flush was accepted

caller  == <<pc, result>>
channel == <<chan, sendq, open>>
state   == <<worker, running, replyTo, pending, timer>>
history == <<fresh, dropped, barrier>>
vars    == <<caller, channel, state, history>>

Schedule(t) == [op |-> "schedule", task |-> t]
Cancel      == [op |-> "cancel"]
Flush(c)    == [op |-> "flush", tx |-> c]

\* Commands, and those that change what is pending.
Setting == [op : {"schedule"}, task : Tasks] \cup [op : {"cancel"}]
Command == Setting \cup [op : {"flush"}, tx : Callers]

QueuedTasks == {t \in Tasks : \E i \in 1..Len(chan) : chan[i] = Schedule(t)}

\* Accepted by the channel and not yet run to its end, replaced or cancelled.
Outstanding == QueuedTasks \cup {t \in Tasks : t \in {pending, running}}

-----------------------------------------------------------------------------
Init ==
  /\ chan = <<>> /\ sendq = <<>> /\ open = TRUE
  /\ pc = [c \in Callers |-> "idle"]
  /\ result = [c \in Callers |-> "none"]
  /\ worker = "select" /\ running = NoTask /\ replyTo = NoCaller
  /\ pending = NoTask /\ timer = "parked"
  /\ fresh = Tasks /\ dropped = {}
  /\ barrier = [c \in Callers |-> {}]

(***************************************************************************)
(* Callers.  schedule, cancel and flush all start with sender.send(..)     *)
(* .await, which queues fairly for a free slot of the channel.             *)
(***************************************************************************)
Send(c, cmd) ==
  /\ open /\ pc[c] = "idle"
  /\ pc' = [pc EXCEPT ![c] = "send"]
  /\ sendq' = Append(sendq, [from |-> c, cmd |-> cmd])

CallSchedule(c) == \E t \in fresh :
  /\ Send(c, Schedule(t))
  /\ fresh' = fresh \ {t}
  /\ UNCHANGED <<chan, open, state, result, dropped, barrier>>

CallCancel(c) ==
  /\ Send(c, Cancel)
  /\ UNCHANGED <<chan, open, state, result, history>>

CallFlush(c) ==
  /\ Send(c, Flush(c))
  /\ result' = [result EXCEPT ![c] = "none"]
  /\ barrier' = [barrier EXCEPT ![c] = {}]
  /\ UNCHANGED <<chan, open, state, fresh, dropped>>

HasRoomOffByOne == Len(chan) <= ChannelCapacity
HasRoom         == Len(chan) < ChannelCapacity

\* The oldest waiting send gets its slot; only flush then waits for its reply.
Enqueue ==
  /\ sendq # <<>> /\ worker # "dead" /\ HasRoom
  /\ LET c == Head(sendq).from
         cmd == Head(sendq).cmd
     IN /\ chan' = Append(chan, cmd)
        /\ pc' = [pc EXCEPT ![c] = IF cmd.op = "flush" THEN "reply" ELSE "idle"]
        /\ barrier' = IF cmd.op = "flush"
                      THEN [barrier EXCEPT ![c] = Outstanding] ELSE barrier
  /\ sendq' = Tail(sendq)
  /\ UNCHANGED <<open, state, result, fresh, dropped>>

\* The receiver is gone: send errs, schedule and cancel discard the error and
\* flush answers Ok.
SendFails ==
  /\ sendq # <<>> /\ worker = "dead"
  /\ LET c == Head(sendq).from
     IN /\ pc' = [pc EXCEPT ![c] = "idle"]
        /\ result' = IF Head(sendq).cmd.op = "flush"
                     THEN [result EXCEPT ![c] = "ok"] ELSE result
  /\ sendq' = Tail(sendq)
  /\ UNCHANGED <<chan, open, state, history>>

\* The last clone of the Debouncer is dropped.
DropHandles ==
  /\ open /\ \A c \in Callers : pc[c] = "idle"
  /\ open' = FALSE
  /\ UNCHANGED <<chan, sendq, caller, state, history>>

(***************************************************************************)
(* The worker.  Its select! is biased and polls the timer first.           *)
(***************************************************************************)
TimerElapses ==
  /\ timer = "armed" /\ worker # "dead"
  /\ timer' = "elapsed"
  /\ UNCHANGED <<worker, running, replyTo, pending, channel, caller, history>>

FireTimerKeepsPending ==
  /\ worker = "select" /\ timer = "elapsed" /\ pending # NoTask
  /\ worker' = "running" /\ running' = pending
  /\ UNCHANGED <<pending, timer, replyTo, channel, caller, history>>

FireTimer ==
  /\ worker = "select" /\ timer = "elapsed"
  /\ IF pending = NoTask
     THEN timer' = "parked" /\ UNCHANGED <<worker, running, pending>>
     ELSE /\ worker' = "running" /\ running' = pending /\ pending' = NoTask
          /\ UNCHANGED timer
  /\ UNCHANGED <<replyTo, channel, caller, history>>

\* rx.recv() is reached only when the timer is not ready.
CanReceive == worker = "select" /\ timer # "elapsed" /\ chan # <<>>

DroppedPending == dropped \cup ({pending} \ {NoTask})

\* The sleep a Schedule pins: sleep(delay).
TimerNotReset      == timer
TimerAfterSchedule == "armed"

RecvSchedule ==
  /\ CanReceive /\ Head(chan).op = "schedule"
  /\ pending' = Head(chan).task /\ timer' = TimerAfterSchedule
  /\ dropped' = DroppedPending
  /\ chan' = Tail(chan)
  /\ UNCHANGED <<sendq, open, worker, running, replyTo, caller, fresh,
                 barrier>>

RecvCancelKeepsPending ==
  /\ CanReceive /\ Head(chan).op = "cancel"
  /\ timer' = "parked"
  /\ dropped' = DroppedPending
  /\ chan' = Tail(chan)
  /\ UNCHANGED <<sendq, open, worker, running, replyTo, pending, caller, fresh,
                 barrier>>

RecvCancel ==
  /\ CanReceive /\ Head(chan).op = "cancel"
  /\ pending' = NoTask /\ timer' = "parked"
  /\ dropped' = DroppedPending
  /\ chan' = Tail(chan)
  /\ UNCHANGED <<sendq, open, worker, running, replyTo, caller, fresh,
                 barrier>>

\* The oneshot is answered and the caller's flush() returns.
ReplyLost(c) == UNCHANGED caller
Reply(c) ==
  /\ pc' = [pc EXCEPT ![c] = "idle"]
  /\ result' = [result EXCEPT ![c] = "ok"]

RecvFlushRepliesFirst ==
  /\ CanReceive /\ Head(chan).op = "flush"
  /\ Reply(Head(chan).tx)
  /\ chan' = Tail(chan)
  /\ UNCHANGED <<sendq, open, state, history>>

\* Flush runs the pending task at once, leaves the timer alone, then replies.
RecvFlush ==
  /\ CanReceive /\ Head(chan).op = "flush"
  /\ LET c == Head(chan).tx
     IN IF pending = NoTask
        THEN Reply(c) /\ UNCHANGED <<worker, running, replyTo, pending>>
        ELSE /\ worker' = "flushing" /\ running' = pending /\ replyTo' = c
             /\ pending' = NoTask
             /\ UNCHANGED caller
  /\ chan' = Tail(chan)
  /\ UNCHANGED <<sendq, open, timer, history>>

FinishTimed ==
  /\ worker = "running"
  /\ worker' = "select" /\ running' = NoTask /\ timer' = "parked"
  /\ UNCHANGED <<replyTo, pending, channel, caller, history>>

FinishFlushed ==
  /\ worker = "flushing"
  /\ worker' = "select" /\ running' = NoTask /\ replyTo' = NoCaller
  /\ Reply(replyTo)
  /\ UNCHANGED <<pending, timer, channel, history>>

\* A panic in the awaited task unwinds the worker: the receiver is dropped with
\* every queued command, and each dropped oneshot makes its flush answer Ok.
Panic ==
  /\ worker \in {"running", "flushing"}
  /\ LET waiting == {c \in Callers : pc[c] = "reply"}
     IN /\ pc' = [c \in Callers |-> IF c \in waiting THEN "idle" ELSE pc[c]]
        /\ result' = [c \in Callers |-> IF c \in waiting THEN "ok" ELSE result[c]]
  /\ worker' = "dead" /\ running' = NoTask /\ replyTo' = NoCaller
  /\ pending' = NoTask /\ timer' = "parked"
  /\ chan' = <<>>
  /\ UNCHANGED <<sendq, open, fresh, dropped, barrier>>

Worker == \/ FireTimer \/ RecvSchedule \/ RecvCancel \/ RecvFlush
          \/ FinishTimed \/ FinishFlushed \/ Panic

Next ==
  \/ \E c \in Callers : CallSchedule(c) \/ CallCancel(c) \/ CallFlush(c)
  \/ Enqueue \/ SendFails \/ DropHandles
  \/ TimerElapses \/ Worker

\* tokio polls the worker whenever it can move, serves senders in order, and
\* its clock advances; an analysis ends or panics.  Callers are free to stop.
Fairness == WF_vars(Worker) /\ WF_vars(TimerElapses)
              /\ WF_vars(Enqueue) /\ WF_vars(SendFails)

Spec == Init /\ [][Next]_vars /\ Fairness

-----------------------------------------------------------------------------
TypeOK ==
  /\ chan \in Seq(Command) /\ Len(chan) <= ChannelCapacity
  /\ sendq \in Seq([from : Callers, cmd : Command])
  /\ pc \in [Callers -> {"idle", "send", "reply"}]
  /\ result \in [Callers -> {"none", "ok"}]
  /\ open \in BOOLEAN
  /\ worker \in {"select", "running", "flushing", "dead"}
  /\ running \in Tasks \cup {NoTask}
  /\ pending \in Tasks \cup {NoTask}
  /\ replyTo \in Callers \cup {NoCaller}
  /\ timer \in {"parked", "armed", "elapsed"}
  /\ fresh \subseteq Tasks /\ dropped \subseteq Tasks
  /\ barrier \in [Callers -> SUBSET Tasks]

\* When flush() has returned, no task that was accepted before it is still
\* queued, pending or running: what shutdown relies on when it flushes every
\* document's debouncer.
FlushIsBarrier ==
  \A c \in Callers : pc[c] # "reply" => barrier[c] \cap Outstanding = {}

\* A task that was replaced by a newer schedule, or cancelled, once the worker
\* took that command from the channel, is never started afterwards.
ReplacedNeverRuns == running \notin dropped /\ pending \notin dropped

\* A pending task always has a timer that will start it: no reset of the timer
\* (after a fired task, a flush or a cancel) leaves a scheduled task asleep.
PendingHasTimer == pending # NoTask => timer # "parked"

\* Every flush() returns, whatever is queued and even if the worker panics.
FlushReturns == \A c \in Callers : pc[c] = "reply" ~> pc[c] # "reply"

\* Every accepted task stops being outstanding: it runs to its end, is replaced
\* or cancelled, or is lost with the worker; the channel cannot wedge.
TasksResolve == \A t \in Tasks : t \in Outstanding ~> t \notin Outstanding

\* Leaving out flushes, the timer and the channel's bound, the worker keeps the
\* debouncer's promise: the composition in DocumentPipeline relies on it.
Promise == INSTANCE DebouncePromise WITH
  w <- [alive |-> worker # "dead", pending |-> pending, running |-> running,
        chan |-> Select(chan, Setting)]

KeepsPromise == Promise!Spec

=============================================================================
