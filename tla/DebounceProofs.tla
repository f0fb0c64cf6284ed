--------------------------- MODULE DebounceProofs --------------------------
(***************************************************************************)
(* Proofs about Debounce for any number of callers and tasks and any       *)
(* capacity of the channel: its safety properties, and that it implements  *)
(* DebouncePromise.                                                        *)
(***************************************************************************)
EXTENDS Debounce, WellFoundedInduction, SequenceTheorems, TLAPS

\* The entries of a queue are of its type.
LEMMA SeqMember ==
  ASSUME NEW S, NEW s \in Seq(S)
  PROVE  \A i \in 1..Len(s) : s[i] \in S
OBVIOUS

\* Taking the head of a queue shifts every other entry by one.
LEMMA TailFacts ==
  ASSUME NEW S, NEW s \in Seq(S), s # <<>>
  PROVE  /\ Head(s) \in S /\ Tail(s) \in Seq(S) /\ Len(Tail(s)) = Len(s) - 1
         /\ 1 \in 1..Len(s) /\ Head(s) = s[1]
         /\ \A i \in 1..Len(Tail(s)) : i + 1 \in 1..Len(s) /\ Tail(s)[i] = s[i + 1]
OBVIOUS

\* Appending to a queue adds one entry behind the others.
LEMMA AppendFacts ==
  ASSUME NEW S, NEW s \in Seq(S), NEW e \in S
  PROVE  /\ Append(s, e) \in Seq(S) /\ Len(Append(s, e)) = Len(s) + 1
         /\ \A i \in 1..Len(Append(s, e)) :
              \/ i \in 1..Len(s) /\ Append(s, e)[i] = s[i]
              \/ i = Len(s) + 1 /\ Append(s, e)[i] = e
OBVIOUS

\* What callers send are commands.
LEMMA Commands ==
  /\ \A t \in Tasks : Schedule(t) \in Command
  /\ Cancel \in Command
  /\ \A c \in Callers : Flush(c) \in Command
BY DEF Schedule, Cancel, Flush, Command, Setting

\* Commands of different kinds, or with different contents, are different.
LEMMA CommandsDiffer ==
  ASSUME NEW t, NEW u, NEW c, NEW d
  PROVE  /\ Schedule(t) = Schedule(u) => t = u
         /\ Flush(c) = Flush(d) => c = d
         /\ Schedule(t) # Flush(c) /\ Schedule(t) # Cancel /\ Flush(c) # Cancel
         /\ Schedule(t).op = "schedule" /\ Schedule(t).task = t
         /\ Flush(c).op = "flush" /\ Flush(c).tx = c /\ Cancel.op = "cancel"
<1>1. /\ Schedule(t).op = "schedule" /\ Schedule(t).task = t
      /\ Flush(c).op = "flush" /\ Flush(c).tx = c /\ Cancel.op = "cancel"
      /\ Schedule(u).task = u /\ Flush(d).tx = d
  BY DEF Schedule, Flush, Cancel
<1> QED
  BY <1>1

\* The command at hand is the one its op says.
LEMMA CommandCases ==
  ASSUME NEW cmd \in Command
  PROVE  /\ cmd.op = "schedule" => cmd.task \in Tasks /\ cmd = Schedule(cmd.task)
         /\ cmd.op = "flush" => cmd.tx \in Callers /\ cmd = Flush(cmd.tx)
         /\ cmd.op = "cancel" => cmd = Cancel
         /\ cmd.op \in {"schedule", "cancel", "flush"}
BY DEF Command, Setting, Schedule, Cancel, Flush

-----------------------------------------------------------------------------
\* The debouncer starts with an empty channel and an idle worker.
LEMMA TypeInit == Init => TypeOK
BY DebounceAssumption DEF Init, TypeOK

\* Whoever is next in the queue of waiting sends is a caller with a command.
LEMMA SendHead ==
  ASSUME TypeOK, sendq # <<>>
  PROVE  /\ Head(sendq).from \in Callers /\ Head(sendq).cmd \in Command
         /\ Tail(sendq) \in Seq([from : Callers, cmd : Command])
<1>1. /\ Head(sendq) \in [from : Callers, cmd : Command]
      /\ Tail(sendq) \in Seq([from : Callers, cmd : Command])
  BY TailFacts DEF TypeOK
<1> QED
  BY <1>1

\* Whatever the worker receives is a command, and leaves room behind it.
LEMMA ChanHead ==
  ASSUME TypeOK, chan # <<>>
  PROVE  /\ Head(chan) \in Command
         /\ Tail(chan) \in Seq(Command) /\ Len(Tail(chan)) <= ChannelCapacity
BY TailFacts, DebounceAssumption DEF TypeOK

\* A call adds one waiting send.
LEMMA SendType ==
  ASSUME TypeOK, NEW c \in Callers, NEW cmd \in Command, Send(c, cmd)
  PROVE  /\ sendq' \in Seq([from : Callers, cmd : Command])
         /\ pc' \in [Callers -> {"idle", "send", "reply"}]
<1>1. [from |-> c, cmd |-> cmd] \in [from : Callers, cmd : Command]
  OBVIOUS
<1> QED
  BY <1>1, AppendFacts DEF TypeOK, Send

\* A reply ends its caller's flush.
LEMMA ReplyType ==
  ASSUME TypeOK, NEW c, Reply(c)
  PROVE  /\ pc' \in [Callers -> {"idle", "send", "reply"}]
         /\ result' \in [Callers -> {"none", "ok"}]
BY DEF TypeOK, Reply

\* Every step keeps the types, in particular the bound on the channel.
LEMMA TypeStep == TypeOK /\ [Next]_vars => TypeOK'
<1> SUFFICES ASSUME TypeOK, [Next]_vars PROVE TypeOK'
  OBVIOUS
<1>1. ASSUME NEW c \in Callers, CallSchedule(c) PROVE TypeOK'
  <2>1. PICK t \in fresh : Send(c, Schedule(t)) /\ fresh' = fresh \ {t}
    BY <1>1 DEF CallSchedule
  <2>2. Schedule(t) \in Command
    BY Commands DEF TypeOK
  <2> QED
    BY <1>1, <2>1, <2>2, SendType DEF TypeOK, CallSchedule, state
<1>2. ASSUME NEW c \in Callers, CallCancel(c) PROVE TypeOK'
  BY <1>2, Commands, SendType DEF TypeOK, CallCancel, state, history
<1>3. ASSUME NEW c \in Callers, CallFlush(c) PROVE TypeOK'
  BY <1>3, Commands, SendType DEF TypeOK, CallFlush, state
<1>4. CASE Enqueue
  <2>1. /\ Head(sendq).from \in Callers /\ Head(sendq).cmd \in Command
        /\ sendq' \in Seq([from : Callers, cmd : Command])
    BY <1>4, SendHead DEF Enqueue
  <2>2. chan' \in Seq(Command) /\ Len(chan') <= ChannelCapacity
    <3>1. chan' = Append(chan, Head(sendq).cmd) /\ Len(chan) < ChannelCapacity
      BY <1>4 DEF Enqueue, HasRoom
    <3> QED
      BY <2>1, <3>1, AppendFacts, DebounceAssumption DEF TypeOK
  <2>3. Outstanding \in SUBSET Tasks
    BY DEF Outstanding, QueuedTasks
  <2>4. /\ pc' \in [Callers -> {"idle", "send", "reply"}]
        /\ barrier' \in [Callers -> SUBSET Tasks]
    BY <1>4, <2>1, <2>3 DEF Enqueue, TypeOK
  <2> QED
    BY <1>4, <2>1, <2>2, <2>4 DEF TypeOK, Enqueue, state
<1>5. CASE SendFails
  BY <1>5, SendHead DEF TypeOK, SendFails, state, history
<1>6. CASE DropHandles
  BY <1>6 DEF TypeOK, DropHandles, caller, state, history
<1>7. CASE TimerElapses
  BY <1>7 DEF TypeOK, TimerElapses, channel, caller, history
<1>8. CASE FireTimer
  BY <1>8 DEF TypeOK, FireTimer, channel, caller, history
<1>9. CASE RecvSchedule
  <2>1. Head(chan).task \in Tasks /\ chan' \in Seq(Command) /\ Len(chan') <= ChannelCapacity
    BY <1>9, ChanHead, CommandCases DEF RecvSchedule, CanReceive
  <2> QED
    BY <1>9, <2>1 DEF TypeOK, RecvSchedule, TimerAfterSchedule, DroppedPending, caller
<1>10. CASE RecvCancel
  BY <1>10, ChanHead DEF TypeOK, RecvCancel, CanReceive, DroppedPending, caller
<1>11. CASE RecvFlush
  <2>1. Head(chan).tx \in Callers /\ chan' \in Seq(Command) /\ Len(chan') <= ChannelCapacity
    BY <1>11, ChanHead, CommandCases DEF RecvFlush, CanReceive
  <2>2. /\ pc' \in [Callers -> {"idle", "send", "reply"}]
        /\ result' \in [Callers -> {"none", "ok"}]
    BY <1>11, ReplyType DEF RecvFlush, caller, TypeOK
  <2> QED
    BY <1>11, <2>1, <2>2 DEF TypeOK, RecvFlush, caller, history
<1>12. CASE FinishTimed
  BY <1>12 DEF TypeOK, FinishTimed, channel, caller, history
<1>13. CASE FinishFlushed
  BY <1>13, ReplyType DEF TypeOK, FinishFlushed, channel, history
<1>14. CASE Panic
  <2>1. chan' \in Seq(Command) /\ Len(chan') <= ChannelCapacity
    BY <1>14, DebounceAssumption DEF Panic
  <2> QED
    BY <1>14, <2>1 DEF TypeOK, Panic
<1>15. CASE UNCHANGED vars
  BY <1>15 DEF TypeOK, vars, caller, channel, state, history
<1> QED
  BY <1>1, <1>2, <1>3, <1>4, <1>5, <1>6, <1>7, <1>8, <1>9, <1>10, <1>11, <1>12,
     <1>13, <1>14, <1>15 DEF Next, Worker

\* Every variable keeps its type, and the channel its bound, in every behaviour
\* of the debouncer of src/runtime/debounce/mod.rs.
THEOREM DebounceTypes == Spec => []TypeOK
<1>1. Init => TypeOK
  BY TypeInit
<1>2. TypeOK /\ [Next]_vars => TypeOK'
  BY TypeStep
<1> QED
  BY <1>1, <1>2, PTL DEF Spec

-----------------------------------------------------------------------------
(***************************************************************************)
(* The inductive invariant behind the safety properties.                   *)
(***************************************************************************)

\* A task is awaited or pending only while the worker is in the matching state,
\* and a dead worker has no queue.
WorkerStates ==
  /\ worker \in {"select", "dead"} => running = NoTask
  /\ worker # "select" => pending = NoTask
  /\ worker = "dead" => chan = <<>>

\* A caller whose Flush is queued waits for its reply, has no other Flush in the
\* worker's hands, and every task it must wait for is queued in front of it.
FlushesWait ==
  \A i \in 1..Len(chan) : chan[i].op = "flush" =>
    /\ pc[chan[i].tx] = "reply"
    /\ worker = "flushing" => replyTo # chan[i].tx
    /\ \A j \in 1..Len(chan) :
         /\ chan[j].op = "flush" /\ chan[j].tx = chan[i].tx => j = i
         /\ chan[j].op = "schedule" /\ chan[j].task \in barrier[chan[i].tx] => j < i

\* The Flush being served has overtaken nothing it must wait for.
ServedFlush ==
  worker = "flushing" =>
    /\ replyTo \in Callers /\ pc[replyTo] = "reply"
    /\ \A j \in 1..Len(chan) :
         chan[j].op = "schedule" => chan[j].task \notin barrier[replyTo]

\* A waiting send belongs to a caller that waits for nothing else.
SendsWait ==
  \A i \in 1..Len(sendq) :
    /\ pc[sendq[i].from] = "send"
    /\ sendq[i].cmd.op = "flush" => sendq[i].cmd.tx = sendq[i].from
    /\ \A j \in 1..Len(sendq) : sendq[j].from = sendq[i].from => j = i

Unseen(t) ==
  /\ t \notin Outstanding /\ t \notin dropped
  /\ \A c \in Callers : t \notin barrier[c]

\* A task on its way to the channel is new to everybody.
TasksAreNew ==
  /\ \A t \in fresh : Unseen(t)
  /\ \A i \in 1..Len(sendq) : sendq[i].cmd.op = "schedule" =>
       /\ Unseen(sendq[i].cmd.task) /\ sendq[i].cmd.task \notin fresh
       /\ \A j \in 1..Len(sendq) :
            sendq[j].cmd.op = "schedule" /\ sendq[j].cmd.task = sendq[i].cmd.task => j = i

\* A queued task is queued once, and is neither held by the worker nor dropped.
QueuedOnce ==
  \A i \in 1..Len(chan) : chan[i].op = "schedule" =>
    /\ chan[i].task \notin {pending, running} /\ chan[i].task \notin dropped
    /\ \A j \in 1..Len(chan) :
         chan[j].op = "schedule" /\ chan[j].task = chan[i].task => j = i

HeldOnce ==
  /\ pending = running => pending = NoTask
  /\ NoTask \notin dropped

DebounceInv ==
  /\ WorkerStates /\ FlushesWait /\ ServedFlush /\ SendsWait
  /\ TasksAreNew /\ QueuedOnce /\ HeldOnce
  /\ FlushIsBarrier /\ ReplacedNeverRuns /\ PendingHasTimer

\* A task is outstanding if its Schedule is queued or the worker holds it.
LEMMA OutstandingIs ==
  ASSUME TypeOK, NEW t \in Tasks
  PROVE  t \in Outstanding <=>
           \/ \E i \in 1..Len(chan) : chan[i].op = "schedule" /\ chan[i].task = t
           \/ t = pending \/ t = running
<1>1. \A i \in 1..Len(chan) : chan[i] \in Command
  BY DEF TypeOK
<1>2. \A i \in 1..Len(chan) :
        chan[i] = Schedule(t) <=> chan[i].op = "schedule" /\ chan[i].task = t
  BY <1>1, CommandCases, CommandsDiffer
<1> QED
  BY <1>2 DEF Outstanding, QueuedTasks

\* The same in the state after a step.
LEMMA OutstandingIsNext ==
  ASSUME TypeOK', NEW t \in Tasks
  PROVE  t \in Outstanding' <=>
           \/ \E i \in 1..Len(chan') : chan'[i].op = "schedule" /\ chan'[i].task = t
           \/ t = pending' \/ t = running'
<1>1. \A i \in 1..Len(chan') : chan'[i] \in Command
  BY DEF TypeOK
<1>2. \A i \in 1..Len(chan') :
        chan'[i] = Schedule(t) <=> chan'[i].op = "schedule" /\ chan'[i].task = t
  BY <1>1, CommandCases, CommandsDiffer
<1> QED
  BY <1>2 DEF Outstanding, QueuedTasks

\* What waits in the two queues comes from callers.
LEMMA QueueMembers ==
  ASSUME TypeOK
  PROVE  /\ \A i \in 1..Len(chan) : chan[i].op = "flush" => chan[i].tx \in Callers
         /\ \A i \in 1..Len(sendq) : sendq[i].from \in Callers /\ sendq[i].cmd \in Command
<1>1. \A i \in 1..Len(chan) : chan[i] \in Command
  BY DEF TypeOK
<1>2. \A i \in 1..Len(sendq) : sendq[i] \in [from : Callers, cmd : Command]
  <2>1. sendq \in Seq([from : Callers, cmd : Command])
    BY DEF TypeOK
  <2> QED
    BY <2>1, SeqMember
<1> QED
  BY <1>1, <1>2, CommandCases

\* The channel after the worker took its head.
LEMMA Received ==
  ASSUME TypeOK, chan # <<>>, chan' = Tail(chan)
  PROVE  /\ 1 \in 1..Len(chan) /\ Head(chan) = chan[1] /\ chan[1] \in Command
         /\ Len(chan') = Len(chan) - 1 /\ Len(chan) \in Nat /\ Len(chan') \in Nat
         /\ \A i \in 1..Len(chan') : i + 1 \in 1..Len(chan) /\ chan'[i] = chan[i + 1]
BY TailFacts DEF TypeOK

\* A step that accepts no task and drops only outstanding ones leaves the tasks
\* on their way as new as they were.
LEMMA NewKept ==
  ASSUME TypeOK, TasksAreNew, Outstanding' \subseteq Outstanding,
         dropped' \subseteq dropped \cup Outstanding,
         fresh' = fresh, sendq' = sendq, barrier' = barrier
  PROVE  TasksAreNew'
<1>1. \A t : Unseen(t) => Unseen(t)'
  BY DEF Unseen
<1> QED
  BY <1>1 DEF TasksAreNew

\* A new debouncer satisfies the inductive invariant.
LEMMA InvInit == Init => DebounceInv
<1> SUFFICES ASSUME Init PROVE DebounceInv
  OBVIOUS
<1>1. Outstanding = {} /\ QueuedTasks = {}
  BY DebounceAssumption DEF Init, Outstanding, QueuedTasks
<1> QED
  BY <1>1, DebounceAssumption DEF Init, DebounceInv, WorkerStates, FlushesWait, ServedFlush, SendsWait,
     TasksAreNew, Unseen, QueuedOnce, HeldOnce, FlushIsBarrier, ReplacedNeverRuns,
     PendingHasTimer

\* A call only adds a waiting send of an idle caller.
LEMMA CallKeeps ==
  ASSUME TypeOK, TypeOK', DebounceInv, NEW c \in Callers,
         CallSchedule(c) \/ CallCancel(c) \/ CallFlush(c)
  PROVE  DebounceInv'
<1> PICK cmd \in Command :
      /\ Send(c, cmd)
      /\ cmd.op = "flush" => cmd.tx = c
      /\ cmd.op = "schedule" => cmd.task \in fresh /\ fresh' = fresh \ {cmd.task}
      /\ cmd.op # "schedule" => fresh' = fresh
  <2>1. CASE CallSchedule(c)
    <3>1. PICK t \in fresh : Send(c, Schedule(t)) /\ fresh' = fresh \ {t}
      BY <2>1 DEF CallSchedule
    <3>2. /\ Schedule(t) \in Command /\ Schedule(t).op = "schedule"
          /\ Schedule(t).task = t
      BY Commands, CommandsDiffer DEF TypeOK
    <3> QED
      BY <3>1, <3>2
  <2>2. CASE CallCancel(c)
    <3>1. Cancel \in Command /\ Cancel.op = "cancel"
      BY Commands, CommandsDiffer
    <3> QED
      BY <2>2, <3>1 DEF CallCancel, history
  <2>3. CASE CallFlush(c)
    <3>1. Flush(c) \in Command /\ Flush(c).op = "flush" /\ Flush(c).tx = c
      BY Commands, CommandsDiffer
    <3> QED
      BY <2>3, <3>1 DEF CallFlush
  <2> QED
    BY <2>1, <2>2, <2>3
<1>1. /\ chan' = chan /\ worker' = worker /\ running' = running /\ replyTo' = replyTo
      /\ pending' = pending /\ timer' = timer /\ dropped' = dropped
  BY DEF CallSchedule, CallCancel, CallFlush, state, history
<1>2. barrier' = barrier \/ barrier' = [barrier EXCEPT ![c] = {}]
  BY DEF CallSchedule, CallCancel, CallFlush, history
<1>3. pc[c] = "idle" /\ pc' = [pc EXCEPT ![c] = "send"]
  BY DEF Send
<1>4. /\ Len(sendq') = Len(sendq) + 1 /\ Len(sendq) \in Nat
      /\ \A i \in 1..Len(sendq') :
           \/ i \in 1..Len(sendq) /\ sendq'[i] = sendq[i]
           \/ i = Len(sendq) + 1 /\ sendq'[i].from = c /\ sendq'[i].cmd = cmd
  <2>1. [from |-> c, cmd |-> cmd] \in [from : Callers, cmd : Command]
    OBVIOUS
  <2> QED
    BY <2>1, AppendFacts DEF Send, TypeOK
<1>5. QueuedTasks' = QueuedTasks /\ Outstanding' = Outstanding
  BY <1>1 DEF QueuedTasks, Outstanding
<1>6. /\ \A i \in 1..Len(chan) : chan[i].op = "flush" => chan[i].tx \in Callers
      /\ \A i \in 1..Len(sendq) : sendq[i].from \in Callers /\ sendq[i].cmd \in Command
  BY QueueMembers
<1>7. \A d \in Callers : barrier'[d] \subseteq barrier[d]
  BY <1>2 DEF TypeOK
<1>8. WorkerStates' /\ QueuedOnce' /\ HeldOnce' /\ ReplacedNeverRuns' /\ PendingHasTimer'
  BY <1>1 DEF DebounceInv, WorkerStates, QueuedOnce, HeldOnce, ReplacedNeverRuns, PendingHasTimer
<1>9. FlushesWait'
  BY <1>1, <1>3, <1>6, <1>7 DEF DebounceInv, FlushesWait, TypeOK
<1>10. ServedFlush'
  BY <1>1, <1>3, <1>5, <1>7 DEF DebounceInv, ServedFlush, TypeOK
<1>11. SendsWait'
  <2>1. /\ \A i \in 1..Len(sendq) : sendq[i].from # c /\ pc'[sendq[i].from] = "send"
        /\ pc'[c] = "send"
    BY <1>3, <1>6 DEF DebounceInv, SendsWait, TypeOK
  <2> QED
    BY <1>4, <2>1 DEF DebounceInv, SendsWait
<1>12. \A t : Unseen(t) => Unseen(t)'
  BY <1>1, <1>5, <1>7 DEF Unseen
<1>13. TasksAreNew'
  <2>1. \A t \in fresh' : t \in fresh
    OBVIOUS
  <2>2. \A t \in fresh : Unseen(t)
    BY DEF DebounceInv, TasksAreNew
  <2> QED
    BY <1>4, <1>12, <2>1, <2>2 DEF DebounceInv, TasksAreNew
<1>14. FlushIsBarrier'
  BY <1>3, <1>5, <1>7 DEF DebounceInv, FlushIsBarrier, TypeOK
<1> QED
  BY <1>8, <1>9, <1>10, <1>11, <1>13, <1>14 DEF DebounceInv

\* The sends behind the oldest one go on waiting.
LEMMA SendsShift ==
  ASSUME TypeOK, DebounceInv, sendq # <<>>, sendq' = Tail(sendq),
         \A d \in Callers : d # sendq[1].from => pc'[d] = pc[d]
  PROVE  SendsWait'
<1> SUFFICES ASSUME NEW i \in 1..Len(sendq')
             PROVE  /\ pc'[sendq'[i].from] = "send"
                    /\ sendq'[i].cmd.op = "flush" => sendq'[i].cmd.tx = sendq'[i].from
                    /\ \A j \in 1..Len(sendq') : sendq'[j].from = sendq'[i].from => j = i
  BY DEF SendsWait
<1>1. /\ 1 \in 1..Len(sendq) /\ Len(sendq) \in Nat /\ Len(sendq') = Len(sendq) - 1
      /\ \A k \in 1..Len(sendq') : k + 1 \in 1..Len(sendq) /\ sendq'[k] = sendq[k + 1]
  BY TailFacts DEF TypeOK
<1> PICK k : k = i + 1
  OBVIOUS
<1>2. k \in 1..Len(sendq) /\ sendq'[i] = sendq[k] /\ k # 1
  BY <1>1
<1>3. /\ pc[sendq[k].from] = "send" /\ sendq[k].from \in Callers
      /\ sendq[k].cmd.op = "flush" => sendq[k].cmd.tx = sendq[k].from
      /\ \A j \in 1..Len(sendq) : sendq[j].from = sendq[k].from => j = k
  BY <1>2, QueueMembers DEF DebounceInv, SendsWait
<1>4. \A j \in 1..Len(sendq') : sendq'[j].from = sendq'[i].from => j = i
  BY <1>1, <1>2, <1>3
<1> QED
  BY <1>1, <1>2, <1>3, <1>4

\* An accepted command goes behind everything its flush must wait for, and an
\* accepted task is new.
LEMMA EnqueueKeeps ==
  ASSUME TypeOK, TypeOK', DebounceInv, Enqueue
  PROVE  DebounceInv'
<1> PICK c, cmd : c = sendq[1].from /\ cmd = sendq[1].cmd
  OBVIOUS
<1>1. /\ 1 \in 1..Len(sendq) /\ Head(sendq) = sendq[1] /\ Len(sendq) \in Nat
      /\ Len(sendq') = Len(sendq) - 1
      /\ \A i \in 1..Len(sendq') : i + 1 \in 1..Len(sendq) /\ sendq'[i] = sendq[i + 1]
  BY TailFacts DEF Enqueue, TypeOK
<1>2. /\ worker # "dead" /\ worker' = worker /\ running' = running /\ replyTo' = replyTo
      /\ pending' = pending /\ timer' = timer /\ dropped' = dropped /\ fresh' = fresh
  BY DEF Enqueue, state
<1>3. /\ chan' = Append(chan, cmd)
      /\ pc' = [pc EXCEPT ![c] = IF cmd.op = "flush" THEN "reply" ELSE "idle"]
      /\ barrier' = IF cmd.op = "flush" THEN [barrier EXCEPT ![c] = Outstanding] ELSE barrier
  BY <1>1 DEF Enqueue
<1>4. /\ c \in Callers /\ cmd \in Command /\ pc[c] = "send"
      /\ cmd.op = "flush" => cmd.tx = c
      /\ \A i \in 1..Len(sendq) : sendq[i].from = c => i = 1
  BY <1>1, QueueMembers DEF DebounceInv, SendsWait
<1>5. /\ Len(chan') = Len(chan) + 1 /\ Len(chan) \in Nat
      /\ \A i \in 1..Len(chan') :
           \/ i \in 1..Len(chan) /\ chan'[i] = chan[i]
           \/ i = Len(chan) + 1 /\ chan'[i] = cmd
      /\ \A i \in 1..Len(chan) : i \in 1..Len(chan') /\ chan'[i] = chan[i]
  BY <1>3, <1>4, AppendFacts DEF TypeOK
<1>6. /\ \A i \in 1..Len(chan) : chan[i].op = "flush" => chan[i].tx \in Callers
      /\ \A i \in 1..Len(sendq) : sendq[i].from \in Callers /\ sendq[i].cmd \in Command
  BY QueueMembers
<1>7. cmd.op = "schedule" =>
        /\ cmd.task \in Tasks /\ Unseen(cmd.task) /\ cmd.task \notin fresh
        /\ \A i \in 1..Len(sendq) :
             sendq[i].cmd.op = "schedule" /\ sendq[i].cmd.task = cmd.task => i = 1
  <2>1. cmd.op = "schedule" => cmd.task \in Tasks
    BY <1>4, CommandCases
  <2> QED
    BY <1>1, <2>1 DEF DebounceInv, TasksAreNew
<1>8. \A t \in Tasks : t \in Outstanding' <=>
        t \in Outstanding \/ (cmd.op = "schedule" /\ cmd.task = t)
  <2> SUFFICES ASSUME NEW t \in Tasks
               PROVE  t \in Outstanding' <=>
                        t \in Outstanding \/ (cmd.op = "schedule" /\ cmd.task = t)
    OBVIOUS
  <2>1. (\E i \in 1..Len(chan') : chan'[i].op = "schedule" /\ chan'[i].task = t)
          <=> \/ \E i \in 1..Len(chan) : chan[i].op = "schedule" /\ chan[i].task = t
              \/ cmd.op = "schedule" /\ cmd.task = t
    BY <1>3, <1>5
  <2> QED
    BY <1>2, <2>1, OutstandingIs, OutstandingIsNext
<1>9. Outstanding \subseteq Tasks /\ Outstanding' \subseteq Tasks
  BY DEF Outstanding, QueuedTasks
<1>10. \A d \in Callers : pc[d] # "send" => barrier'[d] = barrier[d] /\ pc'[d] = pc[d]
  <2>1. \A d \in Callers : pc[d] # "send" => d # c
    BY <1>4
  <2>2. \A d \in Callers : d # c => barrier'[d] = barrier[d] /\ pc'[d] = pc[d]
    BY <1>3, <1>4 DEF TypeOK
  <2> QED
    BY <2>1, <2>2
<1>11. cmd.op = "flush" => barrier'[c] = Outstanding /\ pc'[c] = "reply"
  BY <1>3, <1>4 DEF TypeOK
<1>12. WorkerStates' /\ HeldOnce' /\ ReplacedNeverRuns' /\ PendingHasTimer'
  BY <1>2 DEF DebounceInv, WorkerStates, HeldOnce, ReplacedNeverRuns, PendingHasTimer
<1>13. FlushesWait'
  <2> SUFFICES ASSUME NEW i \in 1..Len(chan'), chan'[i].op = "flush"
               PROVE  /\ pc'[chan'[i].tx] = "reply"
                      /\ worker' = "flushing" => replyTo' # chan'[i].tx
                      /\ \A j \in 1..Len(chan') :
                           /\ chan'[j].op = "flush" /\ chan'[j].tx = chan'[i].tx => j = i
                           /\ chan'[j].op = "schedule" /\ chan'[j].task \in barrier'[chan'[i].tx]
                                => j < i
    BY DEF FlushesWait
  <2>1. CASE i \in 1..Len(chan)
    <3> PICK d \in Callers : d = chan[i].tx /\ chan'[i].tx = d /\ chan[i].op = "flush"
      BY <1>5, <1>6, <2>1
    <3>1. /\ pc[d] = "reply"
          /\ worker = "flushing" => replyTo # d
          /\ \A j \in 1..Len(chan) :
               /\ chan[j].op = "flush" /\ chan[j].tx = d => j = i
               /\ chan[j].op = "schedule" /\ chan[j].task \in barrier[d] => j < i
      BY <2>1 DEF DebounceInv, FlushesWait
    <3>2. d # c /\ pc'[d] = "reply" /\ barrier'[d] = barrier[d]
      BY <1>4, <1>10, <3>1
    <3>3. cmd.op = "schedule" => cmd.task \notin barrier[d]
      BY <1>7 DEF Unseen
    <3> QED
      BY <1>2, <1>4, <1>5, <3>1, <3>2, <3>3
  <2>2. CASE i = Len(chan) + 1
    <3>1. cmd.op = "flush" /\ chan'[i].tx = c
      BY <1>4, <1>5, <2>2
    <3>2. /\ \A j \in 1..Len(chan) : chan[j].op = "flush" => chan[j].tx # c
          /\ worker = "flushing" => replyTo # c
      BY <1>4 DEF DebounceInv, FlushesWait, ServedFlush
    <3> QED
      BY <1>2, <1>5, <1>11, <2>2, <3>1, <3>2
  <2> QED
    BY <1>5, <2>1, <2>2
<1>14. ServedFlush'
  <2>1. worker = "flushing" => /\ replyTo \in Callers /\ pc[replyTo] = "reply"
                               /\ cmd.op = "schedule" => cmd.task \notin barrier[replyTo]
    BY <1>7 DEF DebounceInv, ServedFlush, Unseen
  <2> QED
    BY <1>2, <1>5, <1>10, <2>1 DEF DebounceInv, ServedFlush
<1>15. SendsWait'
  <2>1. \A d \in Callers : d # c => pc'[d] = pc[d]
    BY <1>3, <1>4 DEF TypeOK
  <2> QED
    BY <2>1, SendsShift DEF Enqueue
<1>16. TasksAreNew'
  <2>1. \A t \in Tasks : Unseen(t) /\ ~(cmd.op = "schedule" /\ cmd.task = t) => Unseen(t)'
    BY <1>2, <1>3, <1>4, <1>8 DEF Unseen, TypeOK
  <2>2. \A t \in fresh' : Unseen(t)'
    BY <1>2, <1>7, <2>1 DEF DebounceInv, TasksAreNew, TypeOK
  <2> SUFFICES ASSUME NEW i \in 1..Len(sendq'), sendq'[i].cmd.op = "schedule",
                      NEW t, t = sendq'[i].cmd.task
               PROVE  /\ Unseen(t)' /\ t \notin fresh'
                      /\ \A j \in 1..Len(sendq') :
                           sendq'[j].cmd.op = "schedule" /\ sendq'[j].cmd.task = t => j = i
    BY <2>2 DEF TasksAreNew, Unseen
  <2>3. i + 1 \in 1..Len(sendq) /\ sendq'[i] = sendq[i + 1] /\ i + 1 # 1
    BY <1>1
  <2>4. t \in Tasks
    BY <1>6, <2>3, CommandCases
  <2>5. /\ Unseen(t) /\ t \notin fresh /\ ~(cmd.op = "schedule" /\ cmd.task = t)
        /\ \A j \in 1..Len(sendq) :
             sendq[j].cmd.op = "schedule" /\ sendq[j].cmd.task = t => j = i + 1
    BY <1>7, <2>3 DEF DebounceInv, TasksAreNew
  <2> QED
    BY <1>1, <1>2, <2>1, <2>4, <2>5
<1>17. QueuedOnce'
  <2>1. cmd.op = "schedule" =>
          /\ cmd.task \notin {pending, running} /\ cmd.task \notin dropped
          /\ \A j \in 1..Len(chan) : chan[j].op = "schedule" => chan[j].task # cmd.task
    BY <1>7, OutstandingIs DEF Unseen
  <2> QED
    BY <1>2, <1>5, <2>1 DEF DebounceInv, QueuedOnce
<1>18. FlushIsBarrier'
  <2> SUFFICES ASSUME NEW d \in Callers, pc'[d] # "reply"
               PROVE  barrier'[d] \cap Outstanding' = {}
    BY DEF FlushIsBarrier
  <2>1. barrier'[d] = barrier[d] /\ pc[d] # "reply"
    BY <1>3, <1>4, <1>10, <1>11 DEF TypeOK
  <2>2. cmd.op = "schedule" => cmd.task \notin barrier[d]
    BY <1>7 DEF Unseen
  <2> QED
    BY <1>8, <1>9, <2>1, <2>2 DEF DebounceInv, FlushIsBarrier
<1> QED
  BY <1>12, <1>13, <1>14, <1>15, <1>16, <1>17, <1>18 DEF DebounceInv

\* A send that fails returns to its caller; nothing is left to wait for.
LEMMA SendFailsKeeps ==
  ASSUME TypeOK, TypeOK', DebounceInv, SendFails
  PROVE  DebounceInv'
<1> PICK c : c = sendq[1].from
  OBVIOUS
<1>1. /\ 1 \in 1..Len(sendq) /\ Head(sendq) = sendq[1] /\ Len(sendq) \in Nat
      /\ Len(sendq') = Len(sendq) - 1
      /\ \A i \in 1..Len(sendq') : i + 1 \in 1..Len(sendq) /\ sendq'[i] = sendq[i + 1]
  BY TailFacts DEF SendFails, TypeOK
<1>2. /\ worker = "dead" /\ worker' = worker /\ running' = running /\ replyTo' = replyTo
      /\ pending' = pending /\ timer' = timer /\ dropped' = dropped /\ fresh' = fresh
      /\ chan' = chan /\ chan = <<>> /\ barrier' = barrier
  BY DEF SendFails, state, history, DebounceInv, WorkerStates
<1>3. /\ c \in Callers /\ pc[c] = "send"
      /\ \A i \in 1..Len(sendq) : sendq[i].from \in Callers /\ (sendq[i].from = c => i = 1)
  BY <1>1, QueueMembers DEF DebounceInv, SendsWait
<1>4. pc' = [pc EXCEPT ![c] = "idle"]
  BY <1>1 DEF SendFails
<1>5. QueuedTasks' = QueuedTasks /\ Outstanding' = Outstanding
  BY <1>2 DEF QueuedTasks, Outstanding
<1>6. /\ WorkerStates' /\ QueuedOnce' /\ HeldOnce' /\ ReplacedNeverRuns' /\ PendingHasTimer'
      /\ FlushesWait' /\ ServedFlush'
  BY <1>2 DEF DebounceInv, WorkerStates, QueuedOnce, HeldOnce, ReplacedNeverRuns,
              PendingHasTimer, FlushesWait, ServedFlush
<1>7. SendsWait'
  <2>1. \A d \in Callers : d # c => pc'[d] = pc[d]
    BY <1>3, <1>4 DEF TypeOK
  <2> QED
    BY <2>1, SendsShift DEF SendFails
<1>8. TasksAreNew'
  <2>1. \A t : Unseen(t) => Unseen(t)'
    BY <1>2, <1>5 DEF Unseen
  <2> SUFFICES ASSUME NEW i \in 1..Len(sendq'), sendq'[i].cmd.op = "schedule",
                      NEW t, t = sendq'[i].cmd.task
               PROVE  /\ Unseen(t)' /\ t \notin fresh'
                      /\ \A j \in 1..Len(sendq') :
                           sendq'[j].cmd.op = "schedule" /\ sendq'[j].cmd.task = t => j = i
    BY <1>2, <2>1 DEF TasksAreNew, Unseen, DebounceInv
  <2>2. i + 1 \in 1..Len(sendq) /\ sendq'[i] = sendq[i + 1]
    BY <1>1
  <2>3. /\ Unseen(t) /\ t \notin fresh
        /\ \A j \in 1..Len(sendq) :
             sendq[j].cmd.op = "schedule" /\ sendq[j].cmd.task = t => j = i + 1
    BY <2>2 DEF DebounceInv, TasksAreNew
  <2> QED
    BY <1>1, <1>2, <2>1, <2>3
<1>9. FlushIsBarrier'
  BY <1>2, <1>3, <1>4, <1>5 DEF DebounceInv, FlushIsBarrier, TypeOK
<1> QED
  BY <1>6, <1>7, <1>8, <1>9 DEF DebounceInv

\* What remains queued behind a received command keeps its order.
LEMMA QueueShifts ==
  ASSUME TypeOK, DebounceInv, chan # <<>>, chan' = Tail(chan), barrier' = barrier,
         \A d \in Callers : pc'[d] # pc[d] => Head(chan) = Flush(d),
         worker' = "flushing" => Head(chan) = Flush(replyTo')
  PROVE  FlushesWait'
<1> SUFFICES ASSUME NEW i \in 1..Len(chan'), chan'[i].op = "flush"
             PROVE  /\ pc'[chan'[i].tx] = "reply"
                    /\ worker' = "flushing" => replyTo' # chan'[i].tx
                    /\ \A j \in 1..Len(chan') :
                         /\ chan'[j].op = "flush" /\ chan'[j].tx = chan'[i].tx => j = i
                         /\ chan'[j].op = "schedule" /\ chan'[j].task \in barrier'[chan'[i].tx]
                              => j < i
  BY DEF FlushesWait
<1>1. /\ 1 \in 1..Len(chan) /\ Head(chan) = chan[1] /\ Len(chan') = Len(chan) - 1
      /\ Len(chan) \in Nat
      /\ \A k \in 1..Len(chan') : k + 1 \in 1..Len(chan) /\ chan'[k] = chan[k + 1]
  BY Received
<1>2. i + 1 \in 1..Len(chan) /\ chan'[i] = chan[i + 1] /\ i + 1 # 1
  BY <1>1
<1> PICK d \in Callers : d = chan[i + 1].tx
  BY <1>2, QueueMembers
<1>3. /\ pc[d] = "reply"
      /\ \A j \in 1..Len(chan) :
           /\ chan[j].op = "flush" /\ chan[j].tx = d => j = i + 1
           /\ chan[j].op = "schedule" /\ chan[j].task \in barrier[d] => j < i + 1
  BY <1>2 DEF DebounceInv, FlushesWait
<1>4. Head(chan) # Flush(d)
  BY <1>1, <1>2, <1>3, CommandsDiffer
<1> QED
  BY <1>1, <1>2, <1>3, <1>4

\* A received Schedule becomes the pending task.
LEMMA RecvScheduleKeeps ==
  ASSUME TypeOK, TypeOK', DebounceInv, RecvSchedule
  PROVE  DebounceInv'
<1>1. /\ 1 \in 1..Len(chan) /\ Head(chan) = chan[1] /\ chan[1] \in Command
      /\ Len(chan') = Len(chan) - 1 /\ Len(chan) \in Nat
      /\ \A k \in 1..Len(chan') : k + 1 \in 1..Len(chan) /\ chan'[k] = chan[k + 1]
  BY Received DEF RecvSchedule, CanReceive
<1>2. /\ worker = "select" /\ worker' = "select" /\ running' = running /\ replyTo' = replyTo
      /\ fresh' = fresh /\ sendq' = sendq /\ pc' = pc /\ barrier' = barrier
      /\ timer' = "armed" /\ chan # <<>> /\ chan' = Tail(chan)
      /\ dropped' = dropped \cup ({pending} \ {NoTask})
  BY DEF RecvSchedule, CanReceive, TimerAfterSchedule, DroppedPending, caller
<1>3. /\ chan[1].op = "schedule" /\ pending' = chan[1].task /\ chan[1].task \in Tasks
      /\ running = NoTask
  BY <1>1, CommandCases DEF RecvSchedule, CanReceive, DebounceInv, WorkerStates
<1>4. Outstanding \subseteq Tasks /\ Outstanding' \subseteq Tasks
  BY DEF Outstanding, QueuedTasks
<1>5. Outstanding' \subseteq Outstanding
  BY <1>1, <1>2, <1>3, <1>4, OutstandingIs, OutstandingIsNext
<1>6. dropped' \subseteq dropped \cup Outstanding
  BY <1>2, OutstandingIs DEF TypeOK
<1>7. TasksAreNew'
  BY <1>2, <1>5, <1>6, NewKept DEF DebounceInv
<1>8. FlushesWait'
  BY <1>2, QueueShifts
<1>9. WorkerStates' /\ ServedFlush' /\ SendsWait' /\ PendingHasTimer'
  BY <1>2, <1>3 DEF WorkerStates, ServedFlush, SendsWait, PendingHasTimer, DebounceInv
<1>10. FlushIsBarrier'
  BY <1>2, <1>5 DEF FlushIsBarrier, DebounceInv
<1>11. /\ chan[1].task # pending /\ chan[1].task \notin dropped
       /\ \A i \in 1..Len(chan') : chan'[i].op = "schedule" =>
            /\ chan'[i].task # chan[1].task /\ chan'[i].task # pending
            /\ chan'[i].task # NoTask /\ chan'[i].task \notin dropped
  <2>1. \A i \in 1..Len(chan') : chan'[i].op = "schedule" => chan'[i].task # NoTask
    BY CommandCases, DebounceAssumption DEF TypeOK
  <2> QED
    BY <1>1, <1>3, <2>1 DEF QueuedOnce, DebounceInv
<1>12. QueuedOnce'
  BY <1>1, <1>2, <1>3, <1>11 DEF QueuedOnce, DebounceInv
<1>13. HeldOnce' /\ ReplacedNeverRuns'
  BY <1>2, <1>3, <1>11, DebounceAssumption DEF HeldOnce, ReplacedNeverRuns, DebounceInv
<1> QED
  BY <1>7, <1>8, <1>9, <1>10, <1>12, <1>13 DEF DebounceInv

\* A received Cancel drops the pending task and parks the timer.
LEMMA RecvCancelKeeps ==
  ASSUME TypeOK, TypeOK', DebounceInv, RecvCancel
  PROVE  DebounceInv'
<1>1. /\ 1 \in 1..Len(chan) /\ Head(chan) = chan[1]
      /\ Len(chan') = Len(chan) - 1 /\ Len(chan) \in Nat
      /\ \A k \in 1..Len(chan') : k + 1 \in 1..Len(chan) /\ chan'[k] = chan[k + 1]
  BY Received DEF RecvCancel, CanReceive
<1>2. /\ worker = "select" /\ worker' = "select" /\ running' = running /\ replyTo' = replyTo
      /\ fresh' = fresh /\ sendq' = sendq /\ pc' = pc /\ barrier' = barrier
      /\ pending' = NoTask /\ running = NoTask /\ chan # <<>> /\ chan' = Tail(chan)
      /\ dropped' = dropped \cup ({pending} \ {NoTask})
  BY DEF RecvCancel, CanReceive, DroppedPending, caller, DebounceInv, WorkerStates
<1>3. Outstanding \subseteq Tasks /\ Outstanding' \subseteq Tasks
  BY DEF Outstanding, QueuedTasks
<1>4. Outstanding' \subseteq Outstanding
  BY <1>1, <1>2, <1>3, OutstandingIs, OutstandingIsNext, DebounceAssumption
<1>5. dropped' \subseteq dropped \cup Outstanding
  BY <1>2, OutstandingIs DEF TypeOK
<1>6. TasksAreNew'
  BY <1>2, <1>4, <1>5, NewKept DEF DebounceInv
<1>7. FlushesWait'
  BY <1>2, QueueShifts
<1>8. WorkerStates' /\ ServedFlush' /\ SendsWait' /\ PendingHasTimer'
  BY <1>2 DEF WorkerStates, ServedFlush, SendsWait, PendingHasTimer, DebounceInv
<1>9. FlushIsBarrier'
  BY <1>2, <1>4 DEF FlushIsBarrier, DebounceInv
<1>10. QueuedOnce'
  <2>1. \A i \in 1..Len(chan') : chan'[i].op = "schedule" => chan'[i].task # NoTask
    BY CommandCases, DebounceAssumption DEF TypeOK
  <2> QED
    BY <1>1, <1>2, <2>1 DEF QueuedOnce, DebounceInv
<1>11. HeldOnce' /\ ReplacedNeverRuns'
  BY <1>2 DEF HeldOnce, ReplacedNeverRuns, DebounceInv
<1> QED
  BY <1>6, <1>7, <1>8, <1>9, <1>10, <1>11 DEF DebounceInv

\* A received Flush is answered at once if nothing is pending, and otherwise
\* starts the pending task: every task it waits for was in front of it.
LEMMA RecvFlushKeeps ==
  ASSUME TypeOK, TypeOK', DebounceInv, RecvFlush
  PROVE  DebounceInv'
<1>1. /\ 1 \in 1..Len(chan) /\ Head(chan) = chan[1] /\ chan[1] \in Command
      /\ Len(chan') = Len(chan) - 1 /\ Len(chan) \in Nat
      /\ \A k \in 1..Len(chan') : k + 1 \in 1..Len(chan) /\ chan'[k] = chan[k + 1]
  BY Received DEF RecvFlush, CanReceive
<1>2. /\ worker = "select" /\ running = NoTask /\ chan # <<>> /\ chan' = Tail(chan)
      /\ fresh' = fresh /\ sendq' = sendq /\ barrier' = barrier /\ dropped' = dropped
      /\ timer' = timer
  BY DEF RecvFlush, CanReceive, history, DebounceInv, WorkerStates
<1> PICK c : c = chan[1].tx
  OBVIOUS
<1>3. c \in Callers /\ Head(chan) = Flush(c) /\ chan[1].op = "flush"
  BY <1>1, CommandCases DEF RecvFlush
<1>4. /\ pc[c] = "reply"
      /\ \A j \in 1..Len(chan') : chan'[j].op = "schedule" => chan'[j].task \notin barrier[c]
  <2>1. /\ pc[c] = "reply"
        /\ \A j \in 1..Len(chan) :
             chan[j].op = "schedule" /\ chan[j].task \in barrier[c] => j < 1
    BY <1>1, <1>3 DEF DebounceInv, FlushesWait
  <2> QED
    BY <1>1, <2>1
<1>5. \/ /\ pending = NoTask /\ pc' = [pc EXCEPT ![c] = "idle"]
         /\ worker' = "select" /\ running' = NoTask /\ pending' = NoTask
         /\ replyTo' = replyTo
      \/ /\ pending # NoTask /\ pc' = pc
         /\ worker' = "flushing" /\ running' = pending /\ pending' = NoTask
         /\ replyTo' = c
  BY <1>1, <1>2 DEF RecvFlush, Reply, caller
<1>6. Outstanding \subseteq Tasks /\ Outstanding' \subseteq Tasks
  BY DEF Outstanding, QueuedTasks
<1>7. Outstanding' \subseteq Outstanding
  BY <1>1, <1>5, <1>6, OutstandingIs, OutstandingIsNext, DebounceAssumption
<1>8. TasksAreNew'
  BY <1>2, <1>7, NewKept DEF DebounceInv
<1>9. \A d \in Callers : d # c => pc'[d] = pc[d]
  BY <1>3, <1>5 DEF TypeOK
<1>10. FlushesWait'
  BY <1>2, <1>3, <1>5, <1>9, QueueShifts
<1>11. WorkerStates' /\ PendingHasTimer'
  BY <1>2, <1>5 DEF WorkerStates, PendingHasTimer
<1>12. ServedFlush'
  BY <1>2, <1>3, <1>4, <1>5 DEF ServedFlush
<1>13. SendsWait'
  <2>1. \A i \in 1..Len(sendq) : sendq[i].from \in Callers /\ sendq[i].from # c
    BY <1>4, QueueMembers DEF DebounceInv, SendsWait
  <2> QED
    BY <1>2, <1>9, <2>1 DEF SendsWait, DebounceInv
<1>14. FlushIsBarrier'
  <2> SUFFICES ASSUME NEW d \in Callers, pc'[d] # "reply"
               PROVE  barrier'[d] \cap Outstanding' = {}
    BY DEF FlushIsBarrier
  <2>1. CASE d # c
    BY <1>2, <1>7, <1>9, <2>1 DEF FlushIsBarrier, DebounceInv
  <2>2. CASE d = c
    <3>1. running' = NoTask /\ pending' = NoTask
      BY <1>4, <1>5, <2>2
    <3> QED
      BY <1>2, <1>4, <1>6, <2>2, <3>1, OutstandingIsNext, DebounceAssumption
  <2> QED
    BY <2>1, <2>2
<1>15. QueuedOnce'
  <2>1. \A i \in 1..Len(chan') : chan'[i].op = "schedule" => chan'[i].task # NoTask
    BY CommandCases, DebounceAssumption DEF TypeOK
  <2> QED
    BY <1>1, <1>2, <1>5, <2>1 DEF QueuedOnce, DebounceInv
<1>16. HeldOnce' /\ ReplacedNeverRuns'
  BY <1>2, <1>5 DEF HeldOnce, ReplacedNeverRuns, DebounceInv
<1> QED
  BY <1>8, <1>10, <1>11, <1>12, <1>13, <1>14, <1>15, <1>16 DEF DebounceInv

\* The worker starts the pending task, ends it, or dies of it.
LEMMA WorkerKeeps ==
  ASSUME TypeOK, TypeOK', DebounceInv, FireTimer \/ FinishTimed \/ FinishFlushed \/ Panic
  PROVE  DebounceInv'
<1>1. /\ sendq' = sendq /\ fresh' = fresh /\ dropped' = dropped /\ barrier' = barrier
      /\ chan' = chan \/ chan' = <<>>
  BY DEF FireTimer, FinishTimed, FinishFlushed, Panic, channel, history
<1>2. Outstanding \subseteq Tasks /\ Outstanding' \subseteq Tasks
  BY DEF Outstanding, QueuedTasks
<1>3. /\ pending' = NoTask \/ pending' = pending
      /\ running' \in {NoTask, running, pending}
  BY DEF FireTimer, FinishTimed, FinishFlushed, Panic
<1>4. \A i \in 1..Len(chan') : chan' = chan /\ i \in 1..Len(chan)
  BY <1>1
<1>5. Outstanding' \subseteq Outstanding
  BY <1>2, <1>3, <1>4, OutstandingIs, OutstandingIsNext, DebounceAssumption
<1>6. TasksAreNew'
  BY <1>1, <1>5, NewKept DEF DebounceInv
<1>7. \A i \in 1..Len(chan) : chan[i].op = "schedule" => chan[i].task # NoTask
  BY CommandCases, DebounceAssumption DEF TypeOK
<1>8. QueuedOnce'
  BY <1>1, <1>3, <1>4, <1>7 DEF QueuedOnce, DebounceInv
<1>9. WorkerStates' /\ PendingHasTimer'
  BY DEF WorkerStates, PendingHasTimer, DebounceInv, FireTimer, FinishTimed, FinishFlushed,
         Panic, channel
<1>10. HeldOnce' /\ ReplacedNeverRuns'
  BY <1>1 DEF HeldOnce, ReplacedNeverRuns, DebounceInv, FireTimer, FinishTimed,
              FinishFlushed, Panic
<1>11. \A i \in 1..Len(sendq) : sendq[i].from \in Callers /\ pc[sendq[i].from] = "send"
  BY QueueMembers DEF DebounceInv, SendsWait
<1>12. CASE FireTimer \/ FinishTimed
  <2>1. pc' = pc /\ replyTo' = replyTo /\ chan' = chan /\ worker' # "flushing"
    BY <1>12 DEF FireTimer, FinishTimed, caller, channel
  <2>2. SendsWait' /\ FlushesWait' /\ ServedFlush'
    BY <1>1, <2>1 DEF SendsWait, FlushesWait, ServedFlush, DebounceInv
  <2>3. FlushIsBarrier'
    BY <1>1, <1>5, <2>1 DEF FlushIsBarrier, DebounceInv
  <2> QED
    BY <1>6, <1>8, <1>9, <1>10, <2>2, <2>3 DEF DebounceInv
<1>13. CASE FinishFlushed
  <2>1. /\ replyTo \in Callers /\ pc[replyTo] = "reply"
        /\ \A j \in 1..Len(chan) : chan[j].op = "schedule" => chan[j].task \notin barrier[replyTo]
        /\ \A j \in 1..Len(chan) : chan[j].op = "flush" =>
             chan[j].tx # replyTo /\ chan[j].tx \in Callers
    BY <1>13, QueueMembers DEF FinishFlushed, ServedFlush, FlushesWait, DebounceInv
  <2>2. /\ chan' = chan /\ worker' = "select" /\ running' = NoTask /\ pending' = NoTask
        /\ pc' = [pc EXCEPT ![replyTo] = "idle"]
    BY <1>13 DEF FinishFlushed, Reply, channel, WorkerStates, DebounceInv
  <2>3. pc'[replyTo] = "idle" /\ \A d \in Callers : d # replyTo => pc'[d] = pc[d]
    BY <2>1, <2>2 DEF TypeOK
  <2>4. SendsWait'
    <3>1. \A i \in 1..Len(sendq) : pc'[sendq[i].from] = "send"
      BY <1>11, <2>1, <2>3
    <3> QED
      BY <1>1, <3>1 DEF SendsWait, DebounceInv
  <2>5. FlushesWait' /\ ServedFlush'
    BY <1>1, <2>1, <2>2, <2>3 DEF FlushesWait, ServedFlush, DebounceInv
  <2>6. FlushIsBarrier'
    <3> SUFFICES ASSUME NEW d \in Callers, pc'[d] # "reply"
                 PROVE  barrier'[d] \cap Outstanding' = {}
      BY DEF FlushIsBarrier
    <3>1. CASE d # replyTo
      BY <1>1, <1>5, <2>3, <3>1 DEF FlushIsBarrier, DebounceInv
    <3>2. CASE d = replyTo
      BY <1>1, <1>2, <2>1, <2>2, <3>2, OutstandingIsNext, DebounceAssumption
    <3> QED
      BY <3>1, <3>2
  <2> QED
    BY <1>6, <1>8, <1>9, <1>10, <2>4, <2>5, <2>6 DEF DebounceInv
<1>14. CASE Panic
  <2>1. /\ chan' = <<>> /\ worker' = "dead" /\ running' = NoTask /\ pending' = NoTask
        /\ \A d \in Callers : pc[d] = "send" => pc'[d] = "send"
    BY <1>14 DEF Panic
  <2>2. Outstanding' = {}
    BY <1>2, <2>1, OutstandingIsNext, DebounceAssumption
  <2>3. SendsWait'
    <3>1. \A i \in 1..Len(sendq) : pc'[sendq[i].from] = "send"
      BY <1>11, <2>1
    <3> QED
      BY <1>1, <3>1 DEF SendsWait, DebounceInv
  <2>4. FlushesWait' /\ ServedFlush' /\ FlushIsBarrier'
    BY <2>1, <2>2 DEF FlushesWait, ServedFlush, FlushIsBarrier
  <2> QED
    BY <1>6, <1>8, <1>9, <1>10, <2>3, <2>4 DEF DebounceInv
<1> QED
  BY <1>12, <1>13, <1>14

\* Steps that touch neither queue nor task keep everything.
LEMMA IdleKeeps ==
  ASSUME TypeOK, DebounceInv, DropHandles \/ TimerElapses \/ UNCHANGED vars
  PROVE  DebounceInv'
<1>1. /\ chan' = chan /\ sendq' = sendq /\ pc' = pc /\ worker' = worker /\ running' = running
      /\ replyTo' = replyTo /\ pending' = pending /\ fresh' = fresh /\ dropped' = dropped
      /\ barrier' = barrier /\ (timer' = timer \/ timer' = "elapsed")
  BY DEF DropHandles, TimerElapses, vars, caller, channel, state, history
<1>2. Outstanding' = Outstanding
  BY <1>1 DEF Outstanding, QueuedTasks
<1>3. TasksAreNew'
  BY <1>1, <1>2, NewKept DEF DebounceInv
<1>4. WorkerStates' /\ FlushesWait' /\ ServedFlush' /\ SendsWait' /\ QueuedOnce' /\ HeldOnce'
  BY <1>1 DEF DebounceInv, WorkerStates, FlushesWait, ServedFlush, SendsWait, QueuedOnce,
              HeldOnce
<1>5. FlushIsBarrier' /\ ReplacedNeverRuns' /\ PendingHasTimer'
  BY <1>1, <1>2 DEF DebounceInv, FlushIsBarrier, ReplacedNeverRuns, PendingHasTimer
<1> QED
  BY <1>3, <1>4, <1>5 DEF DebounceInv

\* Every step keeps the invariant.
LEMMA InvStep == TypeOK /\ TypeOK' /\ DebounceInv /\ [Next]_vars => DebounceInv'
BY CallKeeps, EnqueueKeeps, SendFailsKeeps, RecvScheduleKeeps, RecvCancelKeeps,
   RecvFlushKeeps, WorkerKeeps, IdleKeeps DEF Next, Worker

\* The invariant holds in every reachable state.
LEMMA DebounceInvHolds == Spec => []DebounceInv
<1>1. Init => DebounceInv
  BY InvInit
<1>2. TypeOK /\ TypeOK' /\ DebounceInv /\ [Next]_vars => DebounceInv'
  BY InvStep
<1> QED
  BY <1>1, <1>2, DebounceTypes, PTL DEF Spec

\* When flush() of src/runtime/debounce/mod.rs has returned, no task accepted
\* before it is queued, pending or running, for any number of callers and tasks.
THEOREM FlushBarrier == Spec => []FlushIsBarrier
<1>1. DebounceInv => FlushIsBarrier
  BY DEF DebounceInv
<1> QED
  BY <1>1, DebounceInvHolds, PTL

\* A task whose replacement or cancel the worker has received never starts.
THEOREM ReplacedStaysDropped == Spec => []ReplacedNeverRuns
<1>1. DebounceInv => ReplacedNeverRuns
  BY DEF DebounceInv
<1> QED
  BY <1>1, DebounceInvHolds, PTL

\* A pending task is never left without a timer that starts it.
THEOREM TimerCoversPending == Spec => []PendingHasTimer
<1>1. DebounceInv => PendingHasTimer
  BY DEF DebounceInv
<1> QED
  BY <1>1, DebounceInvHolds, PTL

-----------------------------------------------------------------------------
(***************************************************************************)
(* The refinement.  Flushes are filtered out of the channel, so a step     *)
(* takes its command from the filtered channel, or leaves it as it is.     *)
(***************************************************************************)
\* Every nonempty set of natural numbers has a least member.
LEMMA LeastMember ==
  ASSUME NEW S, S \subseteq Nat, S # {}
  PROVE  \E x \in S : \A y \in S : x <= y
<1> DEFINE R == OpToRel(<, Nat)
<1>1. \A x, y \in Nat : <<x, y>> \in R <=> x < y
  BY DEF OpToRel
<1> HIDE DEF R
<1>2. IsWellFoundedOn(R, Nat)
  BY NatLessThanWellFounded DEF R
<1>3. \E x \in S : \A y \in S : ~ (<<y, x>> \in R)
  BY <1>2, WFMin
<1>4. PICK x \in S : \A y \in S : ~ (y < x)
  BY <1>1, <1>3
<1>5. \A y \in S : x <= y
  BY <1>4
<1> QED
  BY <1>5

\* Induction over the natural numbers, for a set instead of a predicate.
LEMMA SetInduction ==
  ASSUME NEW T, 0 \in T, \A n \in Nat : n \in T => n + 1 \in T
  PROVE  Nat \subseteq T
<1> SUFFICES ASSUME Nat \ T # {}
             PROVE  FALSE
  OBVIOUS
<1>1. PICK x \in Nat \ T : \A y \in Nat \ T : x <= y
  BY LeastMember
<1>2. x # 0 /\ x - 1 \in Nat /\ ~ (x <= x - 1)
  BY <1>1
<1> QED
  BY <1>1, <1>2

\* A step of Select.
SelectStep(s, S, f, k) ==
  IF k = 0 THEN <<>>
  ELSE IF s[k] \in S THEN Append(f[k - 1], s[k]) ELSE f[k - 1]

\* The recursion that Select is written with has a solution.
LEMMA SelectExists ==
  ASSUME NEW s, NEW S, NEW n \in Nat
  PROVE  \E f : f = [k \in 0..n |-> SelectStep(s, S, f, k)]
<1> DEFINE Step(f, k) == SelectStep(s, S, f, k)
           Solved(m) == \E f : f = [k \in 0..m |-> Step(f, k)]
           T == {m \in Nat : Solved(m)}
<1>1. Solved(0)
  <2> DEFINE f == [k \in 0..0 |-> <<>>]
  <2>1. f = [k \in 0..0 |-> Step(f, k)]
    BY DEF SelectStep
  <2> QED
    BY <2>1
<1>2. ASSUME NEW m \in Nat, Solved(m)
      PROVE  Solved(m + 1)
  <2>1. PICK f : f = [k \in 0..m |-> Step(f, k)]
    BY <1>2
  <2> DEFINE g == [k \in 0..m + 1 |-> IF k = m + 1 THEN Step(f, k) ELSE f[k]]
  <2>2. ASSUME NEW k \in 0..m + 1
        PROVE  g[k] = Step(g, k)
    <3>1. k # 0 => k - 1 \in 0..m /\ g[k - 1] = f[k - 1]
      OBVIOUS
    <3>2. Step(g, k) = Step(f, k)
      BY <3>1 DEF SelectStep
    <3>3. k # m + 1 => k \in 0..m
      OBVIOUS
    <3>4. k # m + 1 => f[k] = Step(f, k)
      BY <2>1, <3>3
    <3> QED
      BY <3>2, <3>4
  <2>3. g = [k \in 0..m + 1 |-> Step(g, k)]
    BY <2>2
  <2> QED
    BY <2>3
<1> HIDE DEF Solved
<1>3. 0 \in T /\ \A m \in Nat : m \in T => m + 1 \in T
  BY <1>1, <1>2
<1>4. Nat \subseteq T
  BY <1>3, SetInduction
<1>5. Solved(n)
  BY <1>4
<1> QED
  BY <1>5 DEF Solved

\* The selections of the prefixes of a queue.
Prefixes(f, s, S, n) ==
  /\ f[0] = <<>>
  /\ \A k \in 0..n - 1 : f[k + 1] = IF s[k + 1] \in S THEN Append(f[k], s[k + 1]) ELSE f[k]

\* A selection is built from the selections of the prefixes.
LEMMA SelectUnfold ==
  ASSUME NEW s, NEW S, Len(s) \in Nat
  PROVE  \E f : Select(s, S) = f[Len(s)] /\ Prefixes(f, s, S, Len(s))
<1> DEFINE n == Len(s)
           Step(f, k) == SelectStep(s, S, f, k)
           kept == CHOOSE f : f = [k \in 0..n |-> Step(f, k)]
<1>1. kept = [k \in 0..n |-> Step(kept, k)]
  <2>1. \E f : f = [k \in 0..n |-> Step(f, k)]
    BY SelectExists
  <2> QED
    BY <2>1, Zenon
<1>2. Select(s, S) = kept[n]
  BY DEF Select, SelectStep
<1> HIDE DEF kept
<1>3. kept[0] = <<>>
  BY <1>1 DEF SelectStep
<1>4. ASSUME NEW k \in 0..n - 1
      PROVE  kept[k + 1] = IF s[k + 1] \in S THEN Append(kept[k], s[k + 1]) ELSE kept[k]
  <2>1. k + 1 \in 0..n /\ k + 1 # 0 /\ k + 1 - 1 = k
    OBVIOUS
  <2>2. kept[k + 1] = Step(kept, k + 1)
    BY <1>1, <2>1, Zenon
  <2> QED
    BY <2>1, <2>2 DEF SelectStep
<1> QED
  BY <1>2, <1>3, <1>4 DEF Prefixes

\* A command more.
LEMMA SelectAppend ==
  ASSUME NEW E, NEW s \in Seq(E), NEW e \in E, NEW S
  PROVE  Select(Append(s, e), S) = IF e \in S THEN Append(Select(s, S), e) ELSE Select(s, S)
<1> DEFINE n == Len(s)
           more == Append(s, e)
<1>1. /\ n \in Nat /\ Len(more) = n + 1 /\ more[n + 1] = e
      /\ \A k \in 0..n - 1 : more[k + 1] = s[k + 1]
  <2>1. n \in Nat /\ Len(more) = n + 1 /\ more[n + 1] = e /\ \A i \in 1..n : more[i] = s[i]
    OBVIOUS
  <2>2. \A k \in 0..n - 1 : k + 1 \in 1..n
    BY <2>1
  <2> QED
    BY <2>1, <2>2
<1> HIDE DEF n, more
<1>2. PICK f : Select(s, S) = f[n] /\ Prefixes(f, s, S, n)
  BY <1>1, SelectUnfold DEF n
<1>3. PICK g : Select(more, S) = g[n + 1] /\ Prefixes(g, more, S, n + 1)
  <2>1. Len(more) \in Nat
    BY <1>1
  <2> QED
    BY <1>1, <2>1, SelectUnfold
<1> DEFINE T == {k \in Nat : k <= n => g[k] = f[k]}
<1>4. 0 \in T
  BY <1>2, <1>3 DEF Prefixes
<1>5. ASSUME NEW k \in Nat, k \in T
      PROVE  k + 1 \in T
  <2> SUFFICES ASSUME k + 1 <= n
               PROVE  g[k + 1] = f[k + 1]
    OBVIOUS
  <2>1. k \in 0..n - 1 /\ k \in 0..n + 1 - 1 /\ k <= n
    BY <1>1
  <2>2. g[k] = f[k] /\ more[k + 1] = s[k + 1]
    BY <1>1, <1>5, <2>1
  <2>3. f[k + 1] = IF s[k + 1] \in S THEN Append(f[k], s[k + 1]) ELSE f[k]
    BY <1>2, <2>1 DEF Prefixes
  <2>4. g[k + 1] = IF more[k + 1] \in S THEN Append(g[k], more[k + 1]) ELSE g[k]
    BY <1>1, <1>3, <2>1 DEF Prefixes
  <2> QED
    BY <2>2, <2>3, <2>4
<1>6. Nat \subseteq T
  BY <1>4, <1>5, SetInduction
<1>7. g[n] = f[n] /\ n \in 0..n + 1 - 1
  BY <1>1, <1>6
<1> QED
  BY <1>1, <1>2, <1>3, <1>7 DEF more, Prefixes

\* The two ends of a queue that grows.
LEMMA AppendEnds ==
  ASSUME NEW E, NEW s \in Seq(E), NEW e \in E
  PROVE  /\ Append(s, e) \in Seq(E) /\ Append(s, e) # <<>>
         /\ Head(Append(s, e)) = IF s = <<>> THEN e ELSE Head(s)
         /\ Tail(Append(s, e)) = IF s = <<>> THEN <<>> ELSE Append(Tail(s), e)
<1>1. Append(s, e) \in Seq(E) /\ Append(s, e) # <<>>
  <2>1. Append(s, e) \in Seq(E) /\ Len(Append(s, e)) = Len(s) + 1
    BY AppendFacts
  <2>2. Len(s) \in Nat /\ Len(<<>>) = 0
    OBVIOUS
  <2> QED
    BY <2>1, <2>2
<1>2. Head(Append(s, e)) = IF s = <<>> THEN e ELSE Head(s)
  BY HeadTailAppend
<1>3. Tail(Append(s, e)) = IF s = <<>> THEN <<>> ELSE Append(Tail(s), e)
  BY HeadTailAppend
<1> QED
  BY <1>1, <1>2, <1>3

\* The head of a queue is the head of its selection, or is left out of it.
LEMMA SelectHead ==
  ASSUME NEW E, NEW s \in Seq(E), s # <<>>, NEW S
  PROVE  LET t == Select(s, S)
             r == Select(Tail(s), S)
         IN IF Head(s) \in S THEN t # <<>> /\ Head(t) = Head(s) /\ Tail(t) = r ELSE t = r
<1> DEFINE n == Len(s) - 1
           u == Tail(s)
           h == Head(s)
<1>1. /\ n \in Nat /\ Len(s) = n + 1 /\ Len(u) = n /\ s[1] = h /\ u \in Seq(E)
      /\ \A k \in 0..n - 1 : u[k + 1] = s[k + 2] /\ s[k + 2] \in E
  <2>1. /\ n \in Nat /\ Len(s) = n + 1 /\ Len(u) = n /\ s[1] = h /\ u \in Seq(E)
        /\ \A i \in 1..n : u[i] = s[i + 1] /\ u[i] \in E
    BY TailFacts
  <2>2. \A k \in 0..n - 1 : k + 1 \in 1..n /\ k + 1 + 1 = k + 2
    BY <2>1
  <2> QED
    BY <2>1, <2>2
<1> HIDE DEF n, u, h
<1>2. PICK f : Select(s, S) = f[n + 1] /\ Prefixes(f, s, S, n + 1)
  <2>1. Len(s) \in Nat
    BY <1>1
  <2> QED
    BY <1>1, <2>1, SelectUnfold
<1>3. PICK g : Select(u, S) = g[n] /\ Prefixes(g, u, S, n)
  BY <1>1, SelectUnfold
<1> DEFINE Right(k) == /\ f[k + 1] \in Seq(E)
                       /\ IF h \in S THEN f[k + 1] # <<>> /\ Head(f[k + 1]) = h /\ Tail(f[k + 1]) = g[k]
                          ELSE f[k + 1] = g[k]
           T == {k \in Nat : k <= n => Right(k)}
<1>4. Right(0)
  <2>1. f[1] = IF h \in S THEN Append(<<>>, h) ELSE <<>>
    <3>1. 0 \in 0..n + 1 - 1 /\ 0 + 1 = 1
      BY <1>1
    <3>2. f[1] = IF s[1] \in S THEN Append(f[0], s[1]) ELSE f[0]
      <4>1. ASSUME NEW k \in Nat, k = 0
            PROVE  f[k + 1] = IF s[k + 1] \in S THEN Append(f[k], s[k + 1]) ELSE f[k]
        BY <1>1, <1>2, <3>1, <4>1 DEF Prefixes
      <4>2. \A k \in Nat : k = 0 =>
              f[k + 1] = IF s[k + 1] \in S THEN Append(f[k], s[k + 1]) ELSE f[k]
        BY <4>1
      <4>3. \E k \in Nat : k = 0 /\ k + 1 = 1
        OBVIOUS
      <4> QED
        BY <4>2, <4>3
    <3>3. f[0] = <<>>
      BY <1>2 DEF Prefixes
    <3> QED
      BY <1>1, <3>1, <3>2, <3>3
  <2>2. h \in E
    BY TailFacts DEF h
  <2>3. Append(<<>>, h) \in Seq(E) /\ Append(<<>>, h) # <<>>
        /\ Head(Append(<<>>, h)) = h /\ Tail(Append(<<>>, h)) = <<>>
    BY <2>2
  <2>4. 0 + 1 = 1 /\ g[0] = <<>> /\ <<>> \in Seq(E)
    BY <1>3 DEF Prefixes
  <2>5. CASE h \in S
    BY <1>3, <2>1, <2>3, <2>4, <2>5
  <2>6. CASE h \notin S
    BY <1>3, <2>1, <2>4, <2>6
  <2> QED
    BY <2>5, <2>6
<1>5. ASSUME NEW k \in Nat, k + 1 <= n, Right(k)
      PROVE  Right(k + 1)
  <2> DEFINE e == u[k + 1]
  <2>1. k \in 0..n - 1 /\ k + 1 \in 0..n + 1 - 1 /\ (k + 1) + 1 = k + 2
    BY <1>1, <1>5
  <2>2. s[k + 2] = e /\ e \in E
    BY <1>1, <2>1
  <2> HIDE DEF e
  <2>3. f[k + 2] = IF e \in S THEN Append(f[k + 1], e) ELSE f[k + 1]
    <3>1. f[(k + 1) + 1] = IF s[(k + 1) + 1] \in S THEN Append(f[k + 1], s[(k + 1) + 1]) ELSE f[k + 1]
      BY <1>1, <1>2, <2>1 DEF Prefixes
    <3> QED
      BY <2>1, <2>2, <3>1
  <2>4. g[k + 1] = IF e \in S THEN Append(g[k], e) ELSE g[k]
    BY <1>3, <2>1 DEF e, Prefixes
  <2>5. f[k + 1] \in Seq(E)
    BY <1>5
  <2>6. CASE e \in S
    <3>1. /\ Append(f[k + 1], e) \in Seq(E) /\ Append(f[k + 1], e) # <<>>
          /\ Head(Append(f[k + 1], e)) = IF f[k + 1] = <<>> THEN e ELSE Head(f[k + 1])
          /\ Tail(Append(f[k + 1], e)) = IF f[k + 1] = <<>> THEN <<>> ELSE Append(Tail(f[k + 1]), e)
      BY <2>2, <2>5, AppendEnds
    <3>2. f[(k + 1) + 1] = Append(f[k + 1], e) /\ g[k + 1] = Append(g[k], e)
      BY <2>1, <2>3, <2>4, <2>6
    <3>3. CASE h \in S
      BY <1>5, <3>1, <3>2, <3>3
    <3>4. CASE h \notin S
      BY <1>5, <3>1, <3>2, <3>4
    <3> QED
      BY <3>3, <3>4
  <2>7. CASE e \notin S
    BY <1>5, <2>1, <2>3, <2>4, <2>7
  <2> QED
    BY <2>6, <2>7
<1> HIDE DEF Right
<1>6. \A k \in Nat : k \in T => k + 1 \in T
  <2>1. ASSUME NEW k \in Nat, k \in T, k + 1 <= n
        PROVE  Right(k + 1)
    <3>1. k <= n
      BY <1>1, <2>1
    <3> QED
      BY <1>5, <2>1, <3>1
  <2> QED
    BY <2>1
<1>7. Nat \subseteq T
  BY <1>4, <1>6, SetInduction
<1>8. Right(n)
  BY <1>1, <1>7
<1> QED
  BY <1>2, <1>3, <1>8 DEF Right, u, h

-----------------------------------------------------------------------------
(***************************************************************************)
(* The worker implements DebouncePromise: every step maps to a step of the *)
(* promise, or changes nothing the promise speaks of.                      *)
(***************************************************************************)

\* The worker awaits a task whenever it is out of its select!.
Awaits == worker \in {"running", "flushing"} => running # NoTask

\* The promise's record from its fields.
Record(a, p, r, q) == [alive |-> a, pending |-> p, running |-> r, chan |-> q]

\* The part of the worker's state the promise speaks of.
Seen == Record(worker # "dead", pending, running, Select(chan, Setting))

\* The fields of the promise's record.
LEMMA RecordFields ==
  ASSUME NEW a, NEW p, NEW r, NEW q
  PROVE  /\ Record(a, p, r, q).running = r /\ Record(a, p, r, q).pending = p
         /\ Record(a, p, r, q).chan = q
BY DEF Record

\* A new worker, field by field.
LEMMA PromisedNew == Promise!NewWorker = Record(TRUE, NoTask, NoTask, <<>>)
BY DEF Record, Promise!NewWorker

\* Accepting a command, field by field.
LEMMA PromisedAccept ==
  ASSUME NEW a, NEW p, NEW r, NEW q, NEW cmd, Record(a, p, r, q).alive
  PROVE  Promise!Accept(Record(a, p, r, q), cmd) = Record(a, p, r, Append(q, cmd))
BY DEF Record, Promise!Accept

\* Receiving a command, field by field.
LEMMA PromisedReceive ==
  ASSUME NEW a, NEW p, NEW r, NEW q
  PROVE  Promise!Receive(Record(a, p, r, q)) =
           Record(a, IF Head(q).op = "schedule" THEN Head(q).task ELSE NoTask, r, Tail(q))
<1> DEFINE next == IF Head(q).op = "schedule" THEN Head(q).task ELSE NoTask
           t == Tail(q)
           x == Record(a, p, r, q)
           y == Record(a, p, r, t)
<1> HIDE DEF next, t
<1>1. x.chan = q
  BY DEF Record
<1>2. [x EXCEPT !.chan = t] = Record(a, p, r, t)
  BY DEF Record
<1>3. [y EXCEPT !.pending = next] = Record(a, next, r, t)
  BY DEF Record
<1> HIDE DEF x
<1>4. Promise!Receive(x) = [[x EXCEPT !.chan = t] EXCEPT !.pending = next]
  BY <1>1 DEF Promise!Receive, next, t
<1>5. [x EXCEPT !.chan = t] = y
  BY <1>2
<1> HIDE DEF y
<1>6. Promise!Receive(x) = [y EXCEPT !.pending = next]
  BY <1>4, <1>5
<1> QED
  BY <1>3, <1>6 DEF x, next, t

\* Starting the pending task, field by field.
LEMMA PromisedStart ==
  ASSUME NEW a, NEW p, NEW r, NEW q
  PROVE  Promise!Start(Record(a, p, r, q)) = Record(a, NoTask, p, q)
<1> DEFINE x == Record(a, p, r, q)
           y == Record(a, p, p, q)
<1>1. x.pending = p
  BY DEF Record
<1>2. [x EXCEPT !.running = p] = Record(a, p, p, q)
  BY DEF Record
<1>3. [y EXCEPT !.pending = NoTask] = Record(a, NoTask, p, q)
  BY DEF Record
<1> HIDE DEF x
<1>4. Promise!Start(x) = [[x EXCEPT !.running = p] EXCEPT !.pending = NoTask]
  BY <1>1 DEF Promise!Start
<1>5. [x EXCEPT !.running = p] = y
  BY <1>2
<1> HIDE DEF y
<1>6. Promise!Start(x) = [y EXCEPT !.pending = NoTask]
  BY <1>4, <1>5
<1> QED
  BY <1>3, <1>6 DEF x

\* The end of the awaited task, or of the worker, field by field.
LEMMA PromisedEnd ==
  ASSUME NEW a, NEW p, NEW r, NEW q
  PROVE  /\ Promise!Finish(Record(a, p, r, q)) = Record(a, p, NoTask, q)
         /\ Promise!Die(Record(a, p, r, q)) = Record(FALSE, NoTask, NoTask, <<>>)
<1>1. Promise!Finish(Record(a, p, r, q)) = Record(a, p, NoTask, q)
  BY DEF Record, Promise!Finish
<1>2. Promise!Die(Record(a, p, r, q)) = Record(FALSE, NoTask, NoTask, <<>>)
  BY DEF Record, Promise!Die
<1> QED
  BY <1>1, <1>2

\* A worker leaves its select! only with the pending task in hand.
LEMMA AwaitsStep == Awaits /\ [Next]_vars => Awaits'
<1> SUFFICES ASSUME Awaits, [Next]_vars PROVE Awaits'
  OBVIOUS
<1>1. ASSUME NEW c \in Callers, CallSchedule(c) \/ CallCancel(c) \/ CallFlush(c) PROVE Awaits'
  BY <1>1 DEF CallSchedule, CallCancel, CallFlush, state, Awaits
<1>2. CASE Enqueue \/ SendFails \/ DropHandles \/ TimerElapses
  BY <1>2 DEF Enqueue, SendFails, DropHandles, TimerElapses, state, Awaits
<1>3. CASE FireTimer \/ RecvFlush
  BY <1>3 DEF FireTimer, RecvFlush, Awaits, CanReceive
<1>4. CASE RecvSchedule \/ RecvCancel
  BY <1>4 DEF RecvSchedule, RecvCancel, CanReceive, Awaits
<1>5. CASE FinishTimed \/ FinishFlushed \/ Panic
  BY <1>5 DEF FinishTimed, FinishFlushed, Panic, Awaits
<1>6. CASE UNCHANGED vars
  BY <1>6 DEF vars, state, Awaits
<1> QED
  BY <1>1, <1>2, <1>3, <1>4, <1>5, <1>6 DEF Next, Worker

\* The commands the promise speaks of are those that are not flushes.
LEMMA SettingCommands ==
  ASSUME NEW cmd \in Command
  PROVE  cmd \in Setting <=> cmd.op # "flush"
BY DEF Command, Setting

\* Nothing is selected from an empty queue.
LEMMA SelectEmpty == \A S : Select(<<>>, S) = <<>>
<1> TAKE S
<1>1. <<>> \in Seq({}) /\ Len(<<>>) = 0
  OBVIOUS
<1>2. PICK f : Select(<<>>, S) = f[Len(<<>>)] /\ Prefixes(f, <<>>, S, Len(<<>>))
  BY <1>1, SelectUnfold
<1> QED
  BY <1>1, <1>2 DEF Prefixes

\* The new worker is the promise's new worker.
LEMMA SeenInit == Init => Promise!Init
<1> SUFFICES ASSUME Init PROVE Promise!Init
  OBVIOUS
<1>1. (worker # "dead") = TRUE /\ pending = NoTask /\ running = NoTask /\ chan = <<>>
  BY DEF Init
<1>2. Seen = Record(TRUE, NoTask, NoTask, <<>>)
  BY <1>1, SelectEmpty DEF Seen
<1> QED
  BY <1>2, PromisedNew DEF Promise!Init, Seen, Record

\* A step that leaves the worker and its queue alone is not seen.
LEMMA SeenSame ==
  ASSUME UNCHANGED <<worker, pending, running>>, Select(chan, Setting)' = Select(chan, Setting)
  PROVE  Seen' = Seen
BY DEF Seen

\* What a step does to the worker's record, in terms of the promise.
Promised ==
  \/ Seen' = Seen
  \/ \E cmd \in Setting : Seen' = Promise!Accept(Seen, cmd)
  \/ Promise!CanReceive(Seen) /\ Seen' = Promise!Receive(Seen)
  \/ Promise!CanStart(Seen) /\ Seen' = Promise!Start(Seen)
  \/ Seen.running # NoTask /\ Seen' \in {Promise!Finish(Seen), Promise!Die(Seen)}

\* A command the channel takes is accepted, and a flush is not seen.
LEMMA EnqueueSeen ==
  ASSUME TypeOK, Enqueue
  PROVE  Promised
<1> DEFINE cmd == Head(sendq).cmd
<1>1. /\ cmd \in Command /\ chan \in Seq(Command) /\ chan' = Append(chan, cmd)
      /\ (worker # "dead") = TRUE
      /\ UNCHANGED <<worker, pending, running>>
  BY SendHead DEF Enqueue, state, TypeOK
<1> DEFINE a == worker # "dead"
<1>alive. a = TRUE
  BY <1>1
<1> HIDE DEF cmd, a
<1>2. Select(chan', Setting) =
        IF cmd \in Setting THEN Append(Select(chan, Setting), cmd) ELSE Select(chan, Setting)
  BY <1>1, SelectAppend
<1>3. Seen = Record(a, pending, running, Select(chan, Setting))
  BY DEF Seen, a
<1>4. Seen' = Record(a, pending, running, Select(chan', Setting))
  BY <1>1 DEF Seen, a
<1>5. CASE cmd \in Setting
  <2> DEFINE q == Select(chan, Setting)
             after == Append(q, cmd)
  <2>1. Select(chan', Setting) = after
    BY <1>2, <1>5
  <2>2. Promise!Accept(Record(a, pending, running, q), cmd) = Record(a, pending, running, after)
    <3>1. Record(a, pending, running, q).alive
      BY <1>alive DEF Record
    <3> QED
      BY <3>1, PromisedAccept
  <2> HIDE DEF q, after
  <2>3. Seen = Record(a, pending, running, q)
    BY <1>3 DEF q
  <2>4. Seen' = Promise!Accept(Seen, cmd)
    BY <1>4, <2>1, <2>2, <2>3
  <2> QED
    BY <1>5, <2>4 DEF Promised
<1>6. CASE cmd \notin Setting
  BY <1>2, <1>3, <1>4, <1>6 DEF Promised
<1> QED
  BY <1>5, <1>6

\* A Schedule or a Cancel that the worker takes is received.
LEMMA ReceiveSeen ==
  ASSUME TypeOK, WorkerStates, RecvSchedule \/ RecvCancel
  PROVE  Promised
<1> DEFINE q == Select(chan, Setting)
           a == worker # "dead"
<1>1. /\ chan \in Seq(Command) /\ chan # <<>> /\ Head(chan) \in Command
      /\ Head(chan).op # "flush" /\ worker = "select" /\ UNCHANGED <<worker, running>>
      /\ chan' = Tail(chan) /\ running = NoTask
      /\ pending' = IF Head(chan).op = "schedule" THEN Head(chan).task ELSE NoTask
  BY ChanHead DEF RecvSchedule, RecvCancel, CanReceive, WorkerStates, TypeOK
<1>2. Head(chan) \in Setting
  BY <1>1, SettingCommands
<1>3. q # <<>> /\ Head(q) = Head(chan) /\ Select(chan', Setting) = Tail(q)
  BY <1>1, <1>2, SelectHead
<1> HIDE DEF q, a
<1>4. Seen = Record(a, pending, running, q)
  BY DEF Seen, q, a
<1>5. Seen' = Record(a, pending', running, Tail(q))
  BY <1>1, <1>3 DEF Seen, a
<1>6. Seen' = Promise!Receive(Seen)
  BY <1>1, <1>3, <1>4, <1>5, PromisedReceive
<1>7. Promise!CanReceive(Seen)
  BY <1>1, <1>3, <1>4, RecordFields DEF Promise!CanReceive
<1> QED
  BY <1>6, <1>7 DEF Promised

\* The timer starts the pending task, or finds none.
LEMMA FireTimerSeen ==
  ASSUME WorkerStates, FireTimer
  PROVE  Promised
<1> DEFINE q == Select(chan, Setting)
           a == worker # "dead"
<1>1. /\ worker = "select" /\ running = NoTask /\ chan' = chan
      /\ (worker # "dead") = (worker' # "dead")
  BY DEF FireTimer, WorkerStates, channel
<1>2. Seen = Record(a, pending, running, q) /\ Seen' = Record(a, pending', running', q)
  BY <1>1 DEF Seen
<1> HIDE DEF q, a
<1>3. CASE pending = NoTask
  <2>1. pending' = pending /\ running' = running
    BY <1>3 DEF FireTimer
  <2> QED
    BY <1>2, <2>1 DEF Promised
<1>4. CASE pending # NoTask
  <2>1. pending' = NoTask /\ running' = pending
    BY <1>4 DEF FireTimer
  <2>2. Seen' = Promise!Start(Seen) /\ Promise!CanStart(Seen)
    BY <1>1, <1>2, <1>4, <2>1, RecordFields, PromisedStart DEF Promise!CanStart
  <2> QED
    BY <2>2 DEF Promised
<1> QED
  BY <1>3, <1>4

\* A Flush starts the pending task, or is not seen.
LEMMA RecvFlushSeen ==
  ASSUME TypeOK, WorkerStates, RecvFlush
  PROVE  Promised
<1> DEFINE q == Select(chan, Setting)
           a == worker # "dead"
<1>1. /\ chan \in Seq(Command) /\ chan # <<>> /\ Head(chan) \in Command
      /\ Head(chan).op = "flush" /\ chan' = Tail(chan)
      /\ worker = "select" /\ running = NoTask
      /\ (worker # "dead") = (worker' # "dead")
  BY ChanHead DEF RecvFlush, CanReceive, WorkerStates, TypeOK
<1>2. Head(chan) \notin Setting
  BY <1>1, SettingCommands
<1>3. Select(chan', Setting) = q
  BY <1>1, <1>2, SelectHead
<1>4. Seen = Record(a, pending, running, q) /\ Seen' = Record(a, pending', running', q)
  BY <1>1, <1>3 DEF Seen
<1> HIDE DEF q, a
<1>5. CASE pending = NoTask
  <2>1. pending' = pending /\ running' = running
    BY <1>5 DEF RecvFlush
  <2> QED
    BY <1>4, <2>1 DEF Promised
<1>6. CASE pending # NoTask
  <2>1. pending' = NoTask /\ running' = pending
    BY <1>6 DEF RecvFlush
  <2>2. Seen' = Promise!Start(Seen) /\ Promise!CanStart(Seen)
    BY <1>1, <1>4, <1>6, <2>1, RecordFields, PromisedStart DEF Promise!CanStart
  <2> QED
    BY <2>2 DEF Promised
<1> QED
  BY <1>5, <1>6

\* The awaited task ends, or takes the worker with it.
LEMMA FinishSeen ==
  ASSUME Awaits, FinishTimed \/ FinishFlushed \/ Panic
  PROVE  Promised
<1> DEFINE q == Select(chan, Setting)
           a == worker # "dead"
<1>1. worker # "dead" /\ running # NoTask /\ running' = NoTask
  BY DEF FinishTimed, FinishFlushed, Panic, Awaits
<1>2. Seen = Record(a, pending, running, q)
  BY DEF Seen
<1> HIDE DEF q, a
<1>3. Seen.running # NoTask
  BY <1>1, <1>2, RecordFields
<1>4. CASE FinishTimed \/ FinishFlushed
  <2>1. chan' = chan /\ pending' = pending /\ (worker # "dead") = (worker' # "dead")
    BY <1>4 DEF FinishTimed, FinishFlushed, channel
  <2>2. Seen' = Record(a, pending, NoTask, q)
    BY <1>1, <2>1 DEF Seen, q, a
  <2>3. Seen' = Promise!Finish(Seen)
    BY <1>2, <2>2, PromisedEnd
  <2> QED
    BY <1>3, <2>3 DEF Promised
<1>5. CASE Panic
  <2>1. chan' = <<>> /\ pending' = NoTask /\ (worker' # "dead") = FALSE
    BY <1>5 DEF Panic
  <2>2. Seen' = Record(FALSE, NoTask, NoTask, <<>>)
    BY <1>1, <2>1, SelectEmpty DEF Seen
  <2>3. Seen' = Promise!Die(Seen)
    BY <1>2, <2>2, PromisedEnd
  <2> QED
    BY <1>3, <2>3 DEF Promised
<1> QED
  BY <1>4, <1>5

\* Every step of the debouncer is a step of the promise, or is not seen.
LEMMA StepSeen ==
  ASSUME TypeOK, WorkerStates, Awaits, [Next]_vars
  PROVE  Promised
<1>1. ASSUME NEW c \in Callers, CallSchedule(c) \/ CallCancel(c) \/ CallFlush(c) PROVE Promised
  <2>1. UNCHANGED <<worker, pending, running, chan>>
    BY <1>1 DEF CallSchedule, CallCancel, CallFlush, state
  <2> QED
    BY <2>1, SeenSame DEF Promised
<1>2. CASE SendFails \/ DropHandles \/ TimerElapses \/ UNCHANGED vars
  <2>1. UNCHANGED <<worker, pending, running, chan>>
    BY <1>2 DEF SendFails, DropHandles, TimerElapses, state, channel, vars
  <2> QED
    BY <2>1, SeenSame DEF Promised
<1> QED
  BY <1>1, <1>2, EnqueueSeen, ReceiveSeen, FireTimerSeen, RecvFlushSeen, FinishSeen
     DEF Next, Worker

\* The worker of src/runtime/debounce/mod.rs, with its flushes, its timer and
\* its bounded channel, implements DebouncePromise: the record of operations
\* that DocumentPipeline builds its debouncers from.
THEOREM PromiseKept == Spec => KeepsPromise
<1>1. Init => Promise!Init
  BY SeenInit
<1>2. Init => Awaits
  BY DEF Init, Awaits
<1>3. Awaits /\ [Next]_vars => Awaits'
  BY AwaitsStep
<1>4. TypeOK /\ DebounceInv /\ Awaits /\ [Next]_vars => [Promise!Next]_Seen
  <2> SUFFICES ASSUME TypeOK, DebounceInv, Awaits, [Next]_vars PROVE [Promise!Next]_Seen
    OBVIOUS
  <2>1. Promised
    BY StepSeen DEF DebounceInv
  <2> QED
    BY <2>1 DEF Promised, Promise!Next, Promise!PromisedCommand, Setting, Seen, Record
<1> QED
  BY <1>1, <1>2, <1>3, <1>4, DebounceTypes, DebounceInvHolds, PTL
     DEF Spec, KeepsPromise, Promise!Spec, Seen, Record
=============================================================================
