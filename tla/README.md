# A TLA+ model of the HelixRT kernel

HelixRT is a small preemptive real-time kernel for one Cortex-M7 core (Teensy 4.1). This directory
holds TLA+ modules of its scheduler, its task API, its semaphores, mutexes, message queues, event
groups and software timers, TLC configurations that check them on small instances, and TLAPS proofs
of most of their safety properties for every number of tasks, priorities, ticks, messages and timers.

## 1. The system

| Component | State | Operations | Hard about it |
|---|---|---|---|
| Scheduler (`kernel/scheduler.c/.h`) | a ready list per priority, one blocked list for everything that waits, the priority bitmap, `current_task`, lock count, deferred reschedule, tick count; per TCB: links, state, priority, slice, block fields | add, remove, set_priority, yield, tick, block, unblock one task / the best waiter / all, lock, unlock | all lists share the TCB's `next`/`prev`; loops unlink what they walk over; requests for a switch must not be lost; 32-bit tick arithmetic |
| Task API, life cycle (`kernel/kernel.c`, `src/syscall.c`, `src/main.c`) | `g_kernel_state`, TCB and stack pools | kernel_init, kernel_start, task_create / delete / suspend / resume / yield / delay / set_priority, `svc_dispatch` | several calls test and act outside a critical section; a stopped task may be on either kind of list |
| Exceptions (`kernel/context.s`, `SysTick_Handler`) | PENDSVSET, stacks, registers | SysTick, PendSV, SVC | arrive between any two critical sections |
| Semaphore (`kernel/sync/semaphore.c`) | count, limit | take, give, give_isr, reset | check-then-block window, retry loop, unprotected increment in handlers |
| Mutex (`kernel/sync/mutex.c`) | owner, recursion count, priorities of owners | trylock, lock, unlock | priority inheritance through a non-atomic priority change |
| Message queue (`kernel/sync/queue.c`) | ring buffer | send, send_front, send_isr, receive, peek, reset | index wrap, lost wake-ups, peekers and receivers wait alike |
| Event group (`kernel/sync/event.c`) | flags, masks of waiters | set, clear, wait | all waiters re-test; clear is not atomic |
| Software timers (`kernel/timer.c`) | singly linked list | create, start, stop, tick | callbacks change the list during the walk |
| Critical sections (`kernel/sync/critical.h`) | PRIMASK | enter, exit (nest) | the grain of atomicity of all the rest |
| Startup, HAL, config | registers, memory image | straight-line code | not modelled: no kernel state, pure I/O |

Tasks call the kernel directly in thread mode, or through SVC. Interrupt handlers call
`scheduler_tick` and the `_isr` variants. All components block and wake tasks through
`scheduler_block_task` and `scheduler_unblock_*`, so they interact through the one blocked list, and
they switch tasks by pending PendSV, which runs when nothing else does.

What makes the parts correct: *scheduler*: the lists stay lists, the state field tells the list, the
bitmap is right, something can always run, a pending preemption is not forgotten, peers share the
CPU. *Task API*: a stopped task does not run and is not revived, a delay lasts its ticks.
*Semaphore*: tokens are neither invented nor lost, the limit holds, the best waiter is woken.
*Mutex*: one owner, priority restored and inherited, no lost waiter. *Queue*: a bounded deque, FIFO
per sender, no waiter beside room or data. *Events*: a waiter whose condition holds returns.
*Timers*: each fires when due and once per period, and the list survives its callbacks.

## 2. Modules and how they correspond to the code

`Scheduler.tla`. The whole scheduler state is one record `sched`: `list[p]` is
`g_sched.ready_list[p]`, `list[MaxPriority]` is the blocked list, and the other fields are the C
fields of the same name. Each C function whose body is one critical section is an operator from a
record to a record (`scheduler_add_task`, `scheduler_remove_task`, `scheduler_yield`, ...), so
callers compose them as the C callers do. The two loops over the blocked list (`scheduler_tick`,
`scheduler_unblock_all`) take one step per iteration; `scan` holds the loop in progress and disables
everything else, as the masked interrupts do. `PendSV_Handler`, `scheduler_tick`, `tick_scan` and
`tick_end` are actions.

Doubly linked lists are sequences. Where the C code would turn them into something else (linking a
TCB that is linked already, taking the first element of one list out through the head pointer of
another, clearing the links of a linked TCB) the model raises `broken` and stops. One damaged case
that stays a list is modelled as it is: a task alone on the blocked list that
`scheduler_remove_task` "removes" stays there (`Unlink`).

A TCB that no `task_create` has filled in yet has the state `UNUSED`; in C it is zero, the value of
READY, and no API call is made on it here before it is created.

`TaskApi.tla` extends `Scheduler`. Tasks call everything in any order. A direct call that leaves a
critical section and enters another one is several actions, with the label in `pc` and the
arguments in `arg`; the same call through SVC is one action (`svc_*`), since SVC runs above SysTick
and PendSV. `Racy = FALSE` restricts the callers to usage rules, listed in the module, that the
code does not check; `Racy = TRUE` lifts them.

`WaitLoop.tla` extends `TaskApi` with what the blocking calls of all synchronisation objects share:
a loop that tests its object in one critical section and, when the test fails, blocks in a later
one. The labels in `spc` are the points between these critical sections (`block`, `woken`,
`result`), at which ticks, switches, handlers and other tasks come in; `stim` is the timeout
argument, with which every iteration starts afresh.

`Semaphore.tla` extends `WaitLoop` with one semaphore and with interrupt handlers. `sem_give_isr` is
cut at each access to `count`, and the handlers in progress form a stack, innermost first; at every
level, and at every cut of the one below, a handler may give, take or reset. History: `owed`, the
tokens given, or present at the start or after the last reset, that no take has returned with;
`torn`, a handler has taken or reset between the load and the store of a `sem_give_isr`, whose store
undoes it.

`Mutex.tla` extends `WaitLoop` with one mutex. `mutex_lock` has two more labels: `boost`, after
`mutex_trylock` failed and before the owner's priority is looked at, and `raise`, before
`scheduler_set_priority`, whose steps are the `prio_*` actions of `TaskApi` (the same code, called
by `task_set_priority` there). `mutex_unlock` is one critical section and composes the operators of
`Scheduler`. History: `depth`, the locks a task has got and not undone; `behind`, the tasks that
found the mutex taken by an owner that has kept it since; and `late`, a tick has woken a sleeping
owner after `scheduler_set_priority` had tested its state and before it stored the priority
(`WokenTooEarly`). `Boosting` names the stretch of
`mutex_lock` from the booster's look at the owner to the end of `scheduler_set_priority`, none of it
protected, and `BoostsAlone` says that the booster is not switched out of it.

`RingBuffer.tla` holds the data of a message queue as operators on a record (`head`, `tail`,
`count`, `buffer`), `BoundedDeque.tla` the abstract specification that `queue.h` describes, a
sequence with sends at both ends; a reset of it takes time, and a call that does not wait for its end
leaves undefined contents. `MsgQueue.tla` extends `WaitLoop` and `RingBuffer` with the
blocking calls, the calls from handlers and `queue_reset`, whose three stores are three steps, with
handlers and preempting tasks between them. History: `overlapped`, the resets in progress that a
send or receive has cut into, and `torn`, such a reset has happened and none since has run
undivided. `RefinesDeque` states that it implements `BoundedDeque`: `items` is `Items(queue)`, the
messages from `tail` on, and `mode` tells a reset in progress and the torn state.

`EventGroup.tla` extends `WaitLoop` with one event group: sets of bits for masks, `event_set` waking
all waiters through the loop of `scheduler_unblock_all`, `event_clear` cut between its load and its
store. History: `due`, the bits set and neither returned by a consuming wait nor cleared since;
`stale`, per `event_clear` in progress, the bits that others have changed since its load; `wrong`,
the bits over whose last change an `event_clear` has stored.

`SwTimer.tla` stands by itself, since the timer list shares nothing with the scheduler: the links as
a function `next`, the list from a timer on (`Chain`) as the least set closed under it,
`timer_tick_isr` one iteration at a time, and, while a callback runs, any calls
of `timer_create`, `timer_start` and `timer_stop` it may make. History: `age`, the ticks a timer has
seen since it was started or fired; `todo`, the timers this tick has yet to count; `disturbed`, a
callback has moved the timer that the walk had saved as its next; `slipped`, the timers that such a
walk has skipped or counted twice since they were started or fired last.

`MCTasks.tla`, `MCSleep.tla`, `MCSemaphore.tla`, `MCMutex.tla`, `MCQueue.tla` and `MCEvent.tla` add
symmetry and a view for TLC; `MCSleep` also adds the history variable `since`, the tick at which
each sleeper fell asleep, so that what `task_delay` promises is stated without the `wake_tick` the
code computes. The views drop what is written before it is read again: `wake_tick` of tasks that are
not on the blocked list, slots of the ring outside its messages, and the message last handed out.

Rules of use that the code does not check, that TLC showed to be needed, and that the modules state
where they apply:

* the stopped-task, deletion and priority rules of `TaskApi` (`Racy = FALSE`);
* `Mutex`: nobody calls `task_set_priority`, and locks nest no deeper than `recursive_count` counts;
* `SwTimer`: no interrupt above SysTick calls the timer functions, and `timer_create` is not called
  on an active timer;
* no task is deleted or created again inside a blocking call (`WaitAssumption`).

The theorems are in modules of their own. `SchedulerProofs` has the lemmas about the scheduler's
operators, one or more per C function; `TaskApiProofs` the theorems about all tasks and calls, on
which `SleepProofs` (delays), `SemaphoreProofs`, `MutexProofs`, `EventProofs` and `QueueProofs`
build; `TimerProofs` needs only its own component.

Operators named `..._something` under a comment "Mutant:" are deliberate bugs. No specification
uses them: each shows, put in the place of the operator after it, that some property is able to
fail.

## 3. What TLC checks

| Run | Instance | Result |
|---|---|---|
| `tasks_rules` (`MCSleep`, `TasksRules.cfg`) | 3 tasks + idle, 2 priorities, all calls but the lock, delays 1-2, ticks 0-3 then wrap, rules kept | `ListsIntact`, `StateTellsList`, `StoppedTaskIsOff`, `NoOverdueSleeper`, `PreemptionNotForgotten`, `TickSparesStopped`, `DelayExact` hold |
| `tasks_any` (`MCTasks`, `TasksAny.cfg`) | 2 tasks + idle, all calls, no rules, lock nesting 2 | `TypeOK`, `ListsSound`, `SomeTaskRuns`, `DeferredYieldServed` hold |
| `tasks_live` (`MCTasks`, `TasksLive.cfg`) | 2 tasks + idle, yield and delay, slice 2, fairness | `PeersShareCpu`, `SleepersWake` hold |
| `semaphore` (`MCSemaphore`, `Sem.cfg`) | 2 tasks + idle, 2 nested interrupt levels that give, take and reset, max count 1, ticks 0-2, timeouts none, 1 and infinite | `SemTypeOK`, `CountBounded`, `NoTokenInvented`, `StateTellsList`, `GiveWakesBest`, `ResetWakesAll` hold |
| `mutex` (`MCMutex`, `MutexPair.cfg`) | 2 tasks + idle, 3 priorities, recursive mutex, depth and saturation 2, delay, suspend, resume, timeouts none, 1 and infinite | `MutualExclusion`, `OwnerInherits`, `PriorityRestored`, `BoostKeepsLists`, `BoostsAlone` hold |
| `queue` (`MCQueue`, `Queue.cfg`) | 2 tasks + idle of one priority, handlers, capacity 2, 2 messages, timeouts none, 1 and infinite | `RingAligned`, `NoForgottenWaiter`, `RefinesDeque` hold |
| `event` (`MCEvent`, `Event.cfg`) | 2 tasks + idle, 2 priorities, handlers, 2 bits, any/all, with and without clearing, timeouts 1 and infinite | `NoForgottenEvent`, `EventsAccounted` hold |
| `timers` (`SwTimer`, `Timers.cfg`) | 3 timers, periods 1 and 3, one-shot and periodic, fairness | `TimerListSound`, `WalkIsFair`, `FiresOnTime`, `TickEnds` hold |
| `suspend_sleeper` | 2 tasks, delay and suspend, no rules | `TickSparesStopped` **fails**: a suspended sleeper stays on the blocked list and is woken |
| `sem_overshoot` | 2 nested interrupt levels, max count 1 | `MaxCountKept` **fails**: two nested `sem_give_isr` pass the test before either increments |
| `sem_tokens` | one interrupt level | `TokensKept` **fails**: a give that finds a waiter leaves it no token |
| `late_boost` | 3 tasks, 3 priorities, plain mutex | `PriorityRestored` **fails**: a booster that was preempted raises a task that has unlocked meanwhile |

Bounds. Two priorities are enough for "higher" and "equal" to occur with the idle task sharing the
lower one; three tasks give a caller, a target and a peer, and two sleepers that expire in one tick
beside a running task. `TickMax` 3 stands for `UINT32_MAX` and lets the counter wrap several times
within a behaviour. `TasksAny` and the semaphore runs use two tasks, since every race in
question needs two (the idle task is a third list member, and handlers act as further parties).
`LockMax` bounds the lock nesting and `OwedMax` the tokens outstanding. In `tasks_any` the deadlock check is off: the
system does stop there, when a list is broken or a task deletes itself through SVC and the handler
never returns (`HUNG`). It is off in the mutex runs too, where the lists get broken after `late`
or, with three tasks, by two boosters, and the model stops. Symmetry is not used in the liveness run.

The mutex run has three priorities, so that the idle task, a low owner and a high waiter differ; two
tasks suffice for its properties to hold, and the third task of `late_boost` is what breaks one:
somebody has to run the owner to its unlock while the booster is switched out. In `queue` all tasks
share one priority: round robin with a slice of one tick lets every tick switch between any two of
them at any point, so that no order of their critical sections is ruled out by rank (which waiter a
wake-up chooses by rank is the subject of `GiveWakesBest`); a capacity of 2 makes the ring full,
empty, wrapped at both ends and in between, and two messages tell order and loss apart. Tasks do not
call `queue_send_front` there (it differs from `queue_send` in the push alone), handlers do.
`Event.cfg` lets tasks wait for both bits, any or all of them, or for none with
`EVENT_CLEAR_ON_EXIT`; sets and clears touch one bit. Three timers are a predecessor, the timer that
fires and the saved next; a period of 1 fires in the same walk, one of 3 survives it.

Fairness (`LiveSpec`). SysTick keeps coming and its masked loop ends (weak fairness). A pending
PendSV is taken (strong fairness: each tick handler disables it for a while, but the handler is far
shorter than the tick period), and likewise `scheduler_start` gets to run between early ticks. No
fairness is assumed of tasks: a task may compute for ever, which is what round robin is for.
`TimerLiveSpec` assumes that the tick handler goes on and that callbacks return (timer.c: "Keep
callbacks short and non-blocking"); `TickEnds` then is about the loop itself. Callbacks may start
timers without end, and the walk still ends, because new timers go to the head, behind it.

Observations that no run of its own shows:

* `sem_take` tests the count and blocks in two critical sections; a give in between raises the count
  and wakes nobody, and the task waits beside a free token. Together with the lost token of
  `sem_tokens` a blocked taker gets a token only if a give falls into that window.
* `scheduler_lock` does not keep its holder running, as kernel.h:198 says: only `scheduler_yield`
  looks at the lock. The tick, the wake-ups and `scheduler_block_task` switch tasks under it
  (reachable in `tasks_any`).
* The window of `sem_take` is in every blocking call. `NoForgottenWaiter` and `NoForgottenEvent` say that it
  is the only way in which a task comes to wait for what is there, apart from two more, which the
  history variable `missed` records: a woken peeker uses up the wake-up of a send and leaves the
  message and a waiting receiver (queue); an `event_clear` stores back a bit that was consumed since
  its load, and wakes nobody (events).
* A timeout starts again in full after every wake-up that finds the object taken, in all loops.
* Two tasks that boost the same owner at once can link it into a ready list twice; TLC finds
  that too in the instance of `late_boost`.
* A task that found the mutex taken and blocks only after it was freed waits behind the next owner
  without boosting it, or beside a free mutex; `OwnerInherits` is therefore about `behind`.
* `mutex_unlock` restores `base_priority` also when the task holds another mutex with waiters, and
  undoes a `task_set_priority`, which leaves `base_priority` alone.
* A callback that stops the timer saved as the walk's next makes it fire all the same if it was due,
  and ends the walk there: the timers behind it miss the tick. One that restarts it sends the walk
  back to the head of the list: timers are counted twice in one tick, and two timers with a period
  of one tick that restart each other in this way keep SysTick in its loop. `WalkIsFair`,
  `FiresOnTime` and `TickEnds` say that nothing but this (`disturbed`) goes wrong, and `FiresOnTime`
  that it goes wrong only for the timers skipped or doubled, until they next fire or are started.
* `event_clear` stores the whole word it has loaded. A bit set in between is lost, a bit consumed in
  between comes back; `EventsAccounted` says that these are the only bits to be wrong, and that each
  is right again from its next change.
* A send or receive between the stores of `queue_reset` leaves a queue whose messages are read from
  the wrong slots. `RingAligned` and `RefinesDeque` say that this takes such a cut, that no access
  leaves the buffer even then, and that the next undivided reset repairs it.
* The boost of a sleeping owner tests its state and stores its priority in separate steps: a tick in
  between makes it ready on the list of its old priority (`late`). The lists are really damaged by
  what follows: TLC reaches `broken` with two tasks.
* `event_wait` for `EVENT_CLEAR_ON_EXIT` alone passes the test for no bits, and with "any" ends only
  by its timeout.
* A delay that crosses the wrap of the 32-bit tick counter ends at the next tick, and a delay of
  `UINT32_MAX` ends when the counter gets there: `EndOfDelay` in `MCSleep` states it, `DelayExact`
  checks that it is exactly so.
* A handler that takes or resets a semaphore while it interrupts `sem_give_isr` is undone by the
  late store, so that a token is taken twice; `NoTokenInvented` says that nothing else invents one.
* `CountBounded` shows the exact price of the unprotected test in `sem_give_isr`: an overshoot of
  one for every nested level, also when handlers take and reset in between.
* A task that keeps calling `task_set_priority` on itself has its slice refilled each time
  (`scheduler_add_task`) and starves its peers; `tasks_live` therefore leaves that call out.
* Lowering the running task's own priority asks for no switch; the next tick does
  (`PreemptionNotForgotten` states exactly this exception).
* A direct `task_set_priority` on oneself, preempted between the removal and the addition, leaves
  the task on no list for good; only the usage rules exclude it.

## 4. What is proved

All theorems hold for all constants that satisfy the `ASSUME`s of the modules: at least one
priority, a slice and a tick of at least one, `Idle` distinct from the tasks and `NULL` from all, a
capacity of at least one message, finitely many timers. Further hypotheses are stated in the
theorem. `~Racy` says that the callers keep the usage rules of `TaskApi`; without it the property is
false, as `suspend_sleeper` and the observations above show.

| Theorem | States | Further hypotheses |
|---|---|---|
| `TypeCorrectness`, `SoundLists`, `NoYieldForgotten` | `TypeOK`, `ListsSound`, `DeferredYieldServed` | none |
| `ListsStayIntact`, `StateAlwaysTellsList`, `SomeTaskAlwaysRuns`, `TickNeverRevives` | `ListsIntact`, `StateTellsList`, `SomeTaskRuns`, `TickSparesStopped` | `~Racy` |
| `StoppedTaskStaysOff`, `PreemptionAlwaysAsked` | `StoppedTaskIsOff`, `PreemptionNotForgotten` | `~Racy` |
| `NobodyOversleeps`, `DelaysAreExact` | `NoOverdueSleeper`, `DelayExact` | `~Racy` |
| `CountStaysBounded`, `TokensNotInvented`, `SemTypeCorrectness` | `CountBounded`, `NoTokenInvented`, `SemTypeOK` | none |
| `SemaphoreKeepsLists`, `ResetLeavesNoWaiter` | `StateTellsList`, `ResetWakesAll` | `~Racy` |
| `GiveAlwaysWakesBest` | `GiveWakesBest` | `~Racy`, nobody else calls `scheduler_unblock_task` |
| `Exclusion` | `MutualExclusion` | locks nest no deeper than `recursive_count` counts |
| `Inheritance`, `Restoration`, `BoostIsSafe` | `OwnerInherits`, `PriorityRestored`, `BoostKeepsLists`, each until `late` | `~Racy`, the nesting bound; of the behaviour: `[]BoostsAlone` (no booster is switched out inside its boost) and `[]OwnerOutside` (the owner of a plain mutex does not lock it again, which would wait for itself) |
| `BoostUndisturbed` | `BoostsAlone`, until `late` | `~Racy`, the nesting bound, at most two tasks, nobody calls `scheduler_lock`; `[]OwnerOutside` |
| `PairIsSafe` | `OwnerInherits`, `PriorityRestored`, `BoostKeepsLists`, until `late` | `~Racy`, the nesting bound, at most two tasks, nobody calls `scheduler_lock`, a recursive mutex |
| `RingStaysAligned`, `QueueIsDeque` | `RingAligned`, the refinement `RefinesDeque` | none |
| `NoWaiterForgotten` | `NoForgottenWaiter` | `~Racy`, finitely many tasks, nobody calls `task_suspend` |
| `EventsStayAccounted` | `EventsAccounted` | none |
| `NoEventForgotten` | `NoForgottenEvent` | `~Racy` |
| `TimerListStaysSound`, `EveryTickCountsAll`, `TimersFireOnTime` | `TimerListSound`, `WalkIsFair`, `FiresOnTime` | none |

The arguments.

*Lists.* `Base == TypeOK /\ ListsSound /\ DeferredYieldKept` is inductive by itself: each list
operator either raises `broken` or returns lists without duplicates and a matching bitmap
(`SchedulerProofs`), and the actions are compositions of these. `ListsIntact` is not inductive: an
insertion breaks the lists exactly when the task is linked already, which the code tells from the
task's `state`. So `RuleInv` adds that every task is on the list its state tells (`Placed`), that
the idle task is runnable, that a running task off its ready list is on its way out, that tasks are
only ever at labels that atomic calls leave, and, for the tick's loop, that the tasks still to be
visited are distinct and on the blocked list (`LoopVisitsBlocked`): the loop unlinks only what it
has passed, so `next_iter` stays valid. `DeferredYieldServed` speaks of a step; what it needs of a
state is `DeferredYieldKept`, no request without a lock. `SomeTaskRuns` follows from the idle task being on a ready
list and the bitmap being right.

*Stopping and preemption.* `StopInv` adds to `RuleInv` that a stopped current task has a switch
pending or deferred, or is at the label before its yield (`StoppedLeaves`). For
`PreemptionNotForgotten`, `InOrder` says of one operator that the current task falls `Behind` a
ready task only by lowering its own priority; each operator that makes a task ready is `Readied`,
which implies `InOrder`, and the property of a step follows by composing them.

*Delays.* `SleepInv` relates the history variable `since` to the `wake_tick` the code computes:
`OnTime` states, in arithmetic modulo the width of the counter, how far a sleeper's delay has come,
with a case of its own for a sleeper that the loop of the current tick has yet to visit (`InLoop`).

*Semaphore.* The overshoot of `sem_give_isr` needs an induction over the stack of handlers: a
handler keeps its height while others nest above it, and `HandlersBounded` bounds what it may load
or store by the levels above it; `LoadsCovered` says that, unless `torn`, a loaded value is still
covered by tokens owed. `SemRuleInv` carries `RuleInv` over to the composed system (every semaphore action is a
change `RuleInv` allows: `SemEffect`) and adds that the loop of `sem_reset` has all remaining
waiters before it (`ResetReaches`). `GiveWakesBest` compares the chosen waiter with all others
through the walk of `scheduler_unblock_one`, which keeps the first of the best it has seen.

*Mutex.* `MutualExclusion` needs that a free mutex has a count of zero and that the owner of a
recursive mutex is never inside the loop of `mutex_lock` (`HoldInv`).

*Priority inheritance.* Between the removal and the addition of `scheduler_set_priority` the owner
is ready and on no list, so that the rules of `TaskApi` do not hold. They do hold of the state in
which the owner is hidden, that is, counted as suspended: `RuledBut(OnMove)`. Every operator of the
scheduler commutes with hiding a task it does not touch (the lemmas `Hidden...`), which carries the
lemmas of `TaskApiProofs` over to the middle of a boost, ticks and PendSVs included. `InheritInv`
adds that what the booster saw stays true until it is done (`BoostInv`: the owner is the owner it
looked at, of lower priority, as awake or as stopped as the test of its state found it and, between
the steps, where the last step left it), and that
every task behind the owner that has done its part outranks it no more (`Inherited`, over the tasks
that are `Settled`). All of it stands on `BoostsAlone`: a booster that is switched out may find
another owner, a second booster in the middle of the same move, or a free mutex when it goes on.
Three tasks reach that, as `late_boost` shows, so the hypothesis cannot be dropped; a system meets
it when no third task becomes ready during a boost. A tick is the only step that changes the owner's
state during an undisturbed boost, and only if it slept: if the tick comes before the test of the
state, the boost goes on as for a ready owner; if it comes before the store, `late` is raised, and
the invariant is `late \/ InheritInv`. TLC finds `OwnerInherits`, `PriorityRestored` and
`BoostsAlone` to hold beyond `late` in the instance of `mutex`; the proofs stop there, since they
reason through lists that are then damaged.

*Two tasks.* `PairInv` adds to `InheritInv` that a booster is runnable and outranks the idle task
(`Ahead`). Since it outranks the owner too, and there is nobody else, it is the head of the highest
ready list, and every PendSV during its boost returns to it. That it is runnable when it begins
needs that no stopped task goes on executing (`StoppedLeaves`) and that no switch has been put off
by `scheduler_lock` (`Calm`).

*Queue.* `Aligned` says that `head` is `count` slots after `tail`, modulo the capacity; it makes
`Items(queue)` well defined, and lemmas show that each push and pop of the ring is the
operation of the same name on the sequence. `ResetsKnown` says what each reset in progress has
stored so far unless it is in `overlapped`, so that the last store of an undivided reset leaves an
aligned, empty ring whatever the ring was before. Every step of the system, those of waiting, waking and
switching tasks included, then maps to a step of `BoundedDeque` or leaves its variables unchanged
(`DequeStep`).

*Waiters of the queue.* `NoForgottenWaiter` asks for one task on its way and is not inductive: the
next send or receive may be made by that task, or by somebody who was never woken. The invariant
counts. While a task waits beside room (or messages), at least as many tasks of its kind are on
their way as there are free slots (or messages), unless it is in `missed`, or the loop of
`scheduler_unblock_all` has it still before it (`Coming`), or a `queue_reset` is about to start that
loop (`Resetting`). `LoopInv` ties the labels to the call in progress and to the TCB, so that a
blocked task in a call is one that `scheduler_unblock_one` finds. A step then either leaves the
number of messages alone and takes nobody off its way (`QuietServes`), or moves one slot from one
kind to the other, uses up at most one task on its way and wakes a waiter of the other kind if there
is one (`HandOverServes`). A woken task that is suspended before it runs keeps its wake-up to
itself (TLC shows it with three tasks), hence the hypothesis on `task_suspend`.

*Events.* Between the store of `event_set` and the end of its loop a task whose condition holds may
still be on the blocked list; `EventInv` says that the loop has it still before it (`Coming`), or that
it is in `missed`. Only the steps of `MissesWakeUp` add to `missed`. For `EventsAccounted` the
invariant says of every `event_clear` in progress that the value it has loaded differs from the
flags in no bit outside its `stale` (`LoadsKnown`).

*Timers.* Since `Chain` is the least closed set, an inductive argument over the list is the choice of
a closed set, which the provers do find: the list is acyclic (`ChainAcyclic`), and a removal takes
exactly one timer out of it (`RemoveChain`). `TimerInv` adds to `TimerListSound` that the walk's
saved next is on the list unless a callback has moved it, that what the tick has yet to count lies
`Ahead` of the walk (`WalkSound`), that `remaining` is positive and, but for the timers in `slipped`, is
the period less the `age` (`InTime`); the timers that a disturbed walk may count out of turn are the
ones it finds outside `todo`.

Only model-checked:

* liveness (`PeersShareCpu`, `SleepersWake`, `TickEnds`), which is out of the prover's reach;
* the two-task theorems of the mutex with `scheduler_lock` among the calls (TLC finds no violation
  with a nesting of 1). For three tasks or more and boosts that are disturbed there is nothing to
  prove: TLC refutes `PriorityRestored` and `BoostKeepsLists` in the instance of `late_boost`, and
  `OwnerInherits` there too once tasks also suspend and resume each other (a booster that was
  switched out lowers the owner below what a later one raised it to);
* `SomeTaskRuns` without the usage rules (`tasks_any`). Its proof is with `~Racy`.

## 5. Not modelled, and the plan

Not modelled:

* the static TCB and stack pools, task ids, names, stack fill patterns and statistics (tasks bring
  their own TCBs, as `main.c` does);
* what PendSV and SVC do with registers and stacks: r4-r11, lr, psp, the floating-point registers.
  The modules say when each exception may be taken and what it does to the kernel's state;
* the startup code, the HAL and the linker script: straight-line code and pure I/O, no kernel state;
* `critical_enter_basepri` and the statistics build (used nowhere); the hooks, empty weak functions;
* the bytes of a message, and functions that only read (`sem_get_count`, `mutex_get_owner`,
  `queue_get_count`, `queue_get_space`, `event_get`, `timer_is_active`);
* two objects at once: each module has one semaphore, mutex, queue or event group. Waiters of
  different objects and sleepers share the blocked list in `Scheduler`, which tells them apart by
  `block_object` and `block_reason`.

What is left of the plan: a module `TaskPool` for slots and ids, and one for the frames PendSV saves
and restores, would complete the task API and the exceptions.
