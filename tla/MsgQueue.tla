------------------------------ MODULE MsgQueue ------------------------------
(***************************************************************************)
(* One message queue (kernel/sync/queue.c) shared by tasks and interrupt   *)
(* handlers.  queue_send, queue_send_front, queue_receive and queue_peek   *)
(* are WaitLoops over a RingBuffer; receivers and peekers wait alike, with *)
(* BLOCK_QUEUE_RECV.  queue_reset has the labels                           *)
(*   reset_tail, reset_count  before its second and its third store;       *)
(*   reset_send, reset_recv   before its two calls of scheduler_unblock_all*)
(* Its stores are in no critical section, so that handlers and tasks that  *)
(* preempt it find a ring of which only a part has been reset.             *)
(***************************************************************************)
EXTENDS WaitLoop, RingBuffer

CONSTANTS Queue,       \* the queue's address
          QueueCalls   \* the blocking operations tasks call

QueueOp == {"send", "front", "receive", "peek"}

ASSUME QueueAssumption == Queue \in Object /\ QueueCalls \subseteq QueueOp

VARIABLES queue,     \* the ring
          call,      \* per task: operation and message of the call in progress
          last,      \* the message last copied out to a caller
          missed,    \* history: tasks that wait although they need not
          overlapped,\* history: tasks whose queue_reset a send or receive cut into
          torn       \* history: such a reset has ended, or will, and none since
                     \* has run undivided
queueVars == <<queue, call, last, missed, overlapped, torn>>
allVars == <<vars, waitVars, queueVars>>

NoCall == [op |-> "none", msg |-> None]
QCall(Ops) == [op : Ops \cap {"send", "front"}, msg : Msg]
              \cup [op : Ops \cap {"receive", "peek"}, msg : {None}]

Sends(op) == op \in {"send", "front"}
Reason(op) == IF Sends(op) THEN "QUEUE_SEND" ELSE "QUEUE_RECV"
CanGo(q, op) == IF Sends(op) THEN q.count < Capacity ELSE q.count > 0

-----------------------------------------------------------------------------
\* Mutant: the receivers are not told.
put_silent(q) == queue' = q /\ UNCHANGED <<vars, last>>

put(q) ==
    /\ queue' = q /\ UNCHANGED last
    /\ KernelIs(scheduler_unblock_one(sched, "QUEUE_RECV", Queue, "OK"))

take ==
    /\ last' = queue_front(queue) /\ queue' = queue_pop(queue)
    /\ KernelIs(scheduler_unblock_one(sched, "QUEUE_SEND", Queue, "OK"))

\* What a call does in the critical section in which it succeeds.
perform(c) ==
    \/ c.op = "send" /\ put(queue_push_back(queue, c.msg))
    \/ c.op = "front" /\ put(queue_push_front(queue, c.msg))
    \/ c.op = "receive" /\ take
    \/ c.op = "peek" /\ last' = queue_front(queue) /\ UNCHANGED <<vars, queue>>

\* The critical section at the head of the loop, and the test of the timeout.
attempt(t, c, n) ==
    \/ /\ CanGo(queue, c.op) /\ perform(c)
       /\ Leave(t) /\ call' = [call EXCEPT ![t] = NoCall]
    \/ /\ ~CanGo(queue, c.op)
       /\ GiveUpOr(t, n, "block")
       /\ call' = [call EXCEPT ![t] = IF n = 0 THEN NoCall ELSE c]
       /\ UNCHANGED <<vars, queue, last>>

queue_call(t, c, n) == WaitAt(t, "out") /\ attempt(t, c, n)

queue_wait(t) ==
    /\ block_task(t, Reason(call[t].op), Queue) \/ block_task_yield(t)
    /\ UNCHANGED <<queue, call, last>>

queue_result(t) ==
    \/ /\ WaitEnds(t, FALSE)
       /\ Leave(t) /\ call' = [call EXCEPT ![t] = NoCall]
       /\ UNCHANGED <<vars, queue, last>>
    \/ WaitEnds(t, TRUE) /\ attempt(t, call[t], stim[t])

-----------------------------------------------------------------------------
\* The three stores of queue_reset, one by one.
reset_store(t, label, q, next) ==
    /\ WaitAt(t, label)
    /\ queue' = q
    /\ To(t, next)
    /\ UNCHANGED <<vars, stim, call, last>>

queue_reset(t) ==
    \/ reset_store(t, "out", [queue EXCEPT !.head = 0], "reset_tail")
    \/ reset_store(t, "reset_tail", [queue EXCEPT !.tail = 0], "reset_count")
    \/ reset_store(t, "reset_count", [queue EXCEPT !.count = 0], "reset_send")

reset_wake(t, label, reason, next) ==
    /\ WaitAt(t, label)
    /\ unblock_all_begin(sched, reason, Queue, "STATE")
    /\ To(t, next)
    /\ UNCHANGED <<kstate, pc, arg, stim, queue, call, last>>

\* A handler, between two critical sections of anything else: queue_send_isr,
\* or one of the others, which succeeds or returns an error and never blocks.
queue_isr(c) ==
    /\ InterruptsOn /\ Unmasked
    /\ CanGo(queue, c.op) /\ perform(c)
    /\ UNCHANGED <<waitVars, call>>

-----------------------------------------------------------------------------
QueueInit ==
    /\ Init /\ WaitInit
    /\ queue = queue_init /\ last = None
    /\ call = [t \in Task |-> NoCall] /\ missed = {} /\ overlapped = {} /\ torn = FALSE

QueueCall(t) ==
    \/ queue_wait(t) \/ queue_result(t) \/ queue_reset(t)
    \/ reset_wake(t, "reset_send", "QUEUE_SEND", "reset_recv")
    \/ reset_wake(t, "reset_recv", "QUEUE_RECV", "out")
    \/ \E c \in QCall(QueueCalls), n \in Timeouts : queue_call(t, c, n)

\* t waits beside room or a message.
Needless(t) == /\ call[t].op \in QueueOp /\ sched.state[t] = "BLOCKED"
               /\ CanGo(queue, call[t].op)

\* The two ways into such a wait: the test and the block are separate critical
\* sections; and a peeker that was woken returns without using up the message.
MissesWakeUp(t) ==
    \/ spc[t] = "block"
    \/ \E u \in App : /\ call[u].op = "peek" /\ WaitEnds(u, TRUE) /\ spc'[u] = "out"

\* The tasks between the first and the last store of queue_reset, and the one
\* that makes the last store.
Storing == {t \in App : spc[t] \in {"reset_tail", "reset_count"}}
Stored == {t \in App : spc[t] = "reset_count" /\ spc'[t] = "reset_send"}

\* A send or a receive cuts into every reset in progress.  From then on the
\* indices mean nothing, until a reset runs from its first store to its last
\* with nothing in between.
ResetHistory ==
    \/ /\ Stored # {}
       /\ overlapped' = overlapped \ Stored
       /\ torn' = (torn /\ Stored \subseteq overlapped)
    \/ /\ Stored = {} /\ queue'.count # queue.count
       /\ overlapped' = overlapped \cup Storing
       /\ torn' = (torn \/ Storing # {})
    \/ /\ Stored = {} /\ queue'.count = queue.count
       /\ UNCHANGED <<overlapped, torn>>

QueueNext ==
    /\ \/ (KernelStep \/ WakeLoop) /\ UNCHANGED <<queue, call, last>>
       \/ \E t \in App : QueueCall(t)
       \/ \E c \in QCall(QueueOp) : queue_isr(c)
    /\ missed' = {t \in App : Needless(t)' /\ (t \in missed \/ MissesWakeUp(t))}
    /\ ResetHistory

QueueSpec == QueueInit /\ [][QueueNext]_allVars

-----------------------------------------------------------------------------
\* The deque that the queue stands for, in the middle of a reset too.
DequeMode == IF torn THEN "undefined" ELSE IF Storing # {} THEN "reset" ELSE "ok"
DequeItems == IF DequeMode = "ok" THEN Items(queue) ELSE <<>>
Deque == INSTANCE BoundedDeque WITH items <- DequeItems, mode <- DequeMode

\* The ring implements the deque that queue.h describes: FIFO sends, urgent
\* sends to the front, nothing lost, duplicated or overwritten, whoever waits,
\* is woken or times out in between.  A queue_reset empties it with its first
\* store.  A send or receive that cuts into the three stores leaves the queue
\* undefined; the next reset that runs undivided makes it an empty deque again.
RefinesDeque == Deque!DequeSpec

\* The write index is where the read index and the count say it is, which is
\* what makes the next queue_push_back append and not overwrite: always but
\* between the stores of queue_reset, and after a reset that was cut into.
\* Even then no index leaves the buffer and the count stays within Capacity.
RingAligned ==
    /\ queue \in Ring
    /\ ~torn /\ Storing = {} => queue.head = (queue.tail + queue.count) % Capacity

\* A woken task that has not got back into its loop yet.
OnItsWay(u) == /\ spc[u] \in {"woken", "result"}
               /\ sched.state[u] = "READY" /\ sched.result[u] = "OK"

Settled == scan.job = "none" /\ \A t \in App : spc[t] \notin {"reset_send", "reset_recv"}

\* No task is left waiting for room or data that is there, unless it is one of
\* the two cases the code has (MissesWakeUp), or a task woken for it has yet to
\* run.  In particular timeouts and resets use up nobody else's wake-up.
NoForgottenWaiter ==
    Settled => \A t \in App : Needless(t) =>
        \/ t \in missed
        \/ \E u \in App : OnItsWay(u) /\ Reason(call[u].op) = Reason(call[t].op)
=============================================================================
