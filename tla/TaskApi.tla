------------------------------- MODULE TaskApi -------------------------------
(***************************************************************************)
(* The task API and the kernel's life cycle (kernel/kernel.c) on top of    *)
(* the scheduler, with application tasks that call it in any order.        *)
(*                                                                         *)
(* A task calls the API directly, in thread mode, where SysTick and PendSV *)
(* may come between two critical sections of the same call; or through     *)
(* SVC, whose handler runs at priority 0, above both, so that the whole    *)
(* call is one step.  A caller that masks interrupts around a direct call  *)
(* behaves like the SVC.                                                   *)
(***************************************************************************)
EXTENDS Scheduler

CONSTANTS Calls,       \* the API calls the application makes
          Delays,      \* the arguments of its task_delay calls
          LockMax,     \* bound on the nesting of scheduler_lock
          Racy         \* FALSE: the usage rules below are kept

Call == {"yield", "delay", "suspend", "delete", "resume", "priority",
         "create", "lock", "unblock"}

ASSUME ApiAssumption ==
    /\ Calls \subseteq Call
    /\ Delays \subseteq Tick
    /\ LockMax \in Nat
    /\ Racy \in BOOLEAN

\* STARTING and RUNNING are both KERNEL_STATE_RUNNING, before and after
\* scheduler_start has set current_task; HUNG is the WFI loop inside SVC.
KState == {"UNINIT", "INIT", "STARTING", "RUNNING", "HUNG"}

\* Where a task is: in its own code ("run") or inside a call that has left
\* one critical section and not reached the next.
PC == {"run", "woken", "suspending", "deleting", "dead", "create_add",
       "resume_write", "resume_add",
       "prio_remove", "prio_write", "prio_add", "prio_store"}

VARIABLES kstate, pc, arg
vars == <<sched, scan, kstate, pc, arg>>

Arg == [target : Task, prio : Prio]

(***************************************************************************)
(* Usage rules.  The code checks none of them: with Racy = TRUE any task   *)
(* may call anything on any created task.  With Racy = FALSE               *)
(*  - a task is suspended or deleted only while it is neither blocked nor  *)
(*    deleted (the caller looked at its state with interrupts masked);     *)
(*  - no task deletes itself through SVC;                                  *)
(*  - task_resume, task_set_priority and task_create, which are not atomic *)
(*    when called directly, go through SVC or a critical section;          *)
(*  - a TCB is created again only after it was deleted.                    *)
(* The idle task is never a target.                                        *)
(***************************************************************************)
Created(x) == sched.state[x] # "UNUSED"
MayStop(x) == Created(x) /\ (Racy \/ sched.state[x] \notin {"BLOCKED", "DELETED"})
MayCreate(x) == Racy \/ sched.state[x] \in {"UNUSED", "DELETED"}

At(t, label) == Runs(t) /\ kstate = "RUNNING" /\ pc[t] = label
Calling(t, call) == At(t, "run") /\ call \in Calls

Goto(t, label) == pc' = [pc EXCEPT ![t] = label]
Keep(x, p) == [target |-> x, prio |-> p]
NoArg == Keep(Idle, 0)
Target(t) == arg[t].target
Return(t) == Goto(t, "run") /\ arg' = [arg EXCEPT ![t] = NoArg]
Kernel(s) == sched' = s /\ UNCHANGED <<scan, kstate>>

-----------------------------------------------------------------------------
\* task_create: the fields of the TCB before scheduler_add_task links it.
\* It clears next and prev too, wherever the TCB may still be linked.
tcb_init(s, x, p) ==
    [s EXCEPT !.priority[x] = p, !.state[x] = "READY",
              !.slice[x] = TimeSlice, !.wake[x] = 0, !.reason[x] = "NONE",
              !.object[x] = NULL, !.timeout[x] = 0, !.result[x] = "OK",
              !.broken = IF Linked(s, x) THEN TRUE ELSE @]

task_create(s, x, p) == scheduler_add_task(tcb_init(s, x, p), x)

stop_task(s, x, state) == [scheduler_remove_task(s, x) EXCEPT !.state[x] = state]

kernel_init ==
    /\ kstate = "UNINIT"
    /\ sched' = task_create(scheduler_init, Idle, MaxPriority - 1)
    /\ kstate' = "INIT"
    /\ UNCHANGED <<scan, pc, arg>>

\* main creates tasks before it starts the kernel; interrupts change nothing yet.
main_create(x, p) ==
    /\ kstate = "INIT"
    /\ ~Created(x)
    /\ sched' = task_create(sched, x, p)
    /\ UNCHANGED <<scan, kstate, pc, arg>>

\* SysTick is on from here, while current_task is still NULL.
kernel_start ==
    /\ kstate = "INIT"
    /\ kstate' = "STARTING"
    /\ UNCHANGED <<sched, scan, pc, arg>>

scheduler_start ==
    /\ kstate = "STARTING" /\ Unmasked
    /\ LET first == scheduler_get_next(sched) IN
       /\ first # NULL
       /\ sched' = [sched EXCEPT !.cur = first, !.state[first] = "RUNNING",
                                 !.slice[first] = TimeSlice]
    /\ kstate' = "RUNNING"
    /\ UNCHANGED <<scan, pc, arg>>

-----------------------------------------------------------------------------
task_yield(t) ==
    /\ Calling(t, "yield")
    /\ Kernel(scheduler_yield(sched))
    /\ UNCHANGED <<pc, arg>>

task_delay(t, n) ==
    /\ Calling(t, "delay")
    /\ \/ /\ n = 0
          /\ Kernel(scheduler_yield(sched))
          /\ UNCHANGED <<pc, arg>>
       \/ /\ n # 0
          /\ Kernel(scheduler_block_task(sched, "DELAY", NULL, n))
          /\ Goto(t, "woken")
          /\ UNCHANGED arg

\* The end of scheduler_block_task, once the task runs again.
block_return(t) ==
    /\ At(t, "woken")
    /\ Kernel(scheduler_yield(sched))
    /\ Goto(t, "run")
    /\ UNCHANGED arg

task_suspend(t, x) ==
    /\ Calling(t, "suspend") /\ MayStop(x)
    /\ Kernel(stop_task(sched, x, "SUSPENDED"))
    /\ IF x = t THEN Goto(t, "suspending") ELSE UNCHANGED pc
    /\ UNCHANGED arg

suspend_yield(t) ==
    /\ At(t, "suspending")
    /\ Kernel(scheduler_yield(sched))
    /\ Goto(t, "run")
    /\ UNCHANGED arg

\* Also the end of every task: an entry function that returns comes here
\* through task_exit_trampoline (or scheduler_start, for the first task).
task_delete(t, x) ==
    /\ Calling(t, "delete") /\ MayStop(x)
    /\ Kernel(stop_task(sched, x, "DELETED"))
    /\ IF x = t THEN Goto(t, "deleting") ELSE UNCHANGED pc
    /\ UNCHANGED arg

delete_yield(t) ==
    /\ At(t, "deleting")
    /\ Kernel(scheduler_yield(sched))
    /\ Goto(t, "dead")
    /\ UNCHANGED arg

scheduler_lock_call(t) ==
    /\ Calling(t, "lock") /\ sched.lock < LockMax
    /\ Kernel(scheduler_lock(sched))
    /\ UNCHANGED <<pc, arg>>

scheduler_unlock_call(t) ==
    /\ Calling(t, "lock")
    /\ Kernel(scheduler_unlock(sched))
    /\ UNCHANGED <<pc, arg>>

unblock_task_call(t, x) ==
    /\ Calling(t, "unblock")
    /\ Kernel(scheduler_unblock_task(sched, x, "OK"))
    /\ UNCHANGED <<pc, arg>>

-----------------------------------------------------------------------------
(***************************************************************************)
(* Direct calls of task_resume, task_set_priority and task_create: they    *)
(* read and write the TCB outside critical sections.                       *)
(***************************************************************************)
task_resume(t, x) ==
    /\ Racy /\ Calling(t, "resume")
    /\ sched.state[x] = "SUSPENDED"
    /\ Goto(t, "resume_write")
    /\ arg' = [arg EXCEPT ![t] = Keep(x, 0)]
    /\ UNCHANGED <<sched, scan, kstate>>

resume_write(t) ==
    /\ At(t, "resume_write")
    /\ Kernel([sched EXCEPT !.state[Target(t)] = "READY"])
    /\ Goto(t, "resume_add")
    /\ UNCHANGED arg

resume_add(t) ==
    /\ At(t, "resume_add")
    /\ Kernel(scheduler_add_task(sched, Target(t)))
    /\ Return(t)

task_set_priority(t, x, p) ==
    /\ Racy /\ Calling(t, "priority") /\ Created(x)
    /\ Goto(t, IF sched.state[x] \in {"READY", "RUNNING"}
               THEN "prio_remove" ELSE "prio_store")
    /\ arg' = [arg EXCEPT ![t] = Keep(x, p)]
    /\ UNCHANGED <<sched, scan, kstate>>

prio_remove(t) ==
    /\ At(t, "prio_remove")
    /\ Kernel(scheduler_remove_task(sched, Target(t)))
    /\ Goto(t, "prio_write")
    /\ UNCHANGED arg

prio_write(t) ==
    /\ At(t, "prio_write")
    /\ Kernel([sched EXCEPT !.priority[Target(t)] = arg[t].prio])
    /\ Goto(t, "prio_add")
    /\ UNCHANGED arg

\* The other branch: the task was neither ready nor running when tested.
prio_store(t) ==
    /\ At(t, "prio_store")
    /\ Kernel([sched EXCEPT !.priority[Target(t)] = arg[t].prio])
    /\ Return(t)

prio_add(t) ==
    /\ At(t, "prio_add")
    /\ Kernel(scheduler_add_task(sched, Target(t)))
    /\ Return(t)

\* The new task starts at its entry function whatever its TCB did before.
task_create_call(t, x, p) ==
    /\ Racy /\ Calling(t, "create") /\ MayCreate(x) /\ x # t
    /\ Kernel(tcb_init(sched, x, p))
    /\ pc' = [pc EXCEPT ![t] = "create_add", ![x] = "run"]
    /\ arg' = [arg EXCEPT ![t] = Keep(x, p), ![x] = NoArg]

create_add(t) ==
    /\ At(t, "create_add")
    /\ Kernel(scheduler_add_task(sched, Target(t)))
    /\ Return(t)

-----------------------------------------------------------------------------
(***************************************************************************)
(* svc_dispatch: each service in one step.  Blocking and leaving services  *)
(* call scheduler_yield before they return, with the switch still pending. *)
(***************************************************************************)
svc_delay(t, n) ==
    /\ Calling(t, "delay") /\ n # 0
    /\ Kernel(scheduler_yield(scheduler_block_task(sched, "DELAY", NULL, n)))
    /\ UNCHANGED <<pc, arg>>

svc_suspend(t) ==
    /\ Calling(t, "suspend")
    /\ Kernel(scheduler_yield(stop_task(sched, t, "SUSPENDED")))
    /\ UNCHANGED <<pc, arg>>

\* The WFI loop after scheduler_yield now runs inside the SVC handler.
svc_delete(t) ==
    /\ Racy /\ Calling(t, "delete")
    /\ sched' = scheduler_yield(stop_task(sched, t, "DELETED"))
    /\ kstate' = "HUNG"
    /\ UNCHANGED <<scan, pc, arg>>

svc_resume(t, x) ==
    /\ Calling(t, "resume")
    /\ sched.state[x] = "SUSPENDED"
    /\ Kernel(scheduler_add_task(sched, x))
    /\ UNCHANGED <<pc, arg>>

svc_priority(t, x, p) ==
    /\ Calling(t, "priority") /\ Created(x)
    /\ Kernel(scheduler_set_priority(sched, x, p))
    /\ UNCHANGED <<pc, arg>>

\* SVC_TASK_CREATE has a fixed priority; p is free for a masked direct call.
svc_create(t, x, p) ==
    /\ Calling(t, "create") /\ MayCreate(x) /\ x # t
    /\ Kernel(task_create(sched, x, p))
    /\ Return(x)

-----------------------------------------------------------------------------
\* SysTick and PendSV are not taken inside SVC, nor before kernel_start.
InterruptsOn == kstate \in {"STARTING", "RUNNING"}

SysTick == InterruptsOn /\ scheduler_tick /\ UNCHANGED <<kstate, pc, arg>>
TickScan == tick_scan /\ UNCHANGED <<kstate, pc, arg>>
TickEnd == tick_end /\ UNCHANGED <<kstate, pc, arg>>
PendSV == InterruptsOn /\ PendSV_Handler /\ UNCHANGED <<kstate, pc, arg>>

Init ==
    /\ sched = scheduler_init
    /\ scan = NoScan
    /\ kstate = "UNINIT"
    /\ pc = [t \in Task |-> "run"]
    /\ arg = [t \in Task |-> NoArg]

Boot == \/ kernel_init \/ kernel_start \/ scheduler_start
        \/ \E x \in App, p \in Prio : main_create(x, p)

Exception == SysTick \/ TickScan \/ TickEnd \/ PendSV

Direct(t) ==
    \/ task_yield(t) \/ block_return(t) \/ suspend_yield(t) \/ delete_yield(t)
    \/ scheduler_lock_call(t) \/ scheduler_unlock_call(t)
    \/ resume_write(t) \/ resume_add(t)
    \/ prio_remove(t) \/ prio_write(t) \/ prio_store(t) \/ prio_add(t)
    \/ create_add(t)
    \/ \E n \in Delays : task_delay(t, n)
    \/ \E x \in App : \/ task_suspend(t, x) \/ task_delete(t, x)
                      \/ task_resume(t, x) \/ unblock_task_call(t, x)
    \/ \E x \in App, p \in Prio : task_set_priority(t, x, p) \/ task_create_call(t, x, p)

Svc(t) ==
    \/ svc_suspend(t) \/ svc_delete(t)
    \/ \E n \in Delays : svc_delay(t, n)
    \/ \E x \in App : svc_resume(t, x)
    \/ \E x \in App, p \in Prio : svc_priority(t, x, p) \/ svc_create(t, x, p)

Next == Boot \/ Exception \/ \E t \in App : Direct(t) \/ Svc(t)

Spec == Init /\ [][Next]_vars

\* The timer interrupt keeps coming and its handler ends.  A pending PendSV
\* is taken when the handler is left: the tick period is far longer than the
\* handler, so ticks cannot put it off for ever.
Fairness ==
    /\ WF_vars(SysTick) /\ WF_vars(TickScan \/ TickEnd)
    /\ SF_vars(PendSV) /\ SF_vars(scheduler_start)

LiveSpec == Spec /\ Fairness

-----------------------------------------------------------------------------
(***************************************************************************)
(* Properties                                                              *)
(***************************************************************************)

\* Every variable has its type: TCB fields stay in the range of their C type
\* (priorities below CONFIG_MAX_PRIORITY, ticks within 32 bits).
TypeOK ==
    /\ sched \in SchedState
    /\ scan \in ScanState
    /\ kstate \in KState
    /\ pc \in [Task -> PC]
    /\ arg \in [Task -> Arg]

\* Where the lists are intact, whatever was called: a bit of priority_bitmap
\* is set exactly when its ready list has a task, and no TCB is reachable
\* twice through next, neither in one list nor in two.
ListsSound == Sound(sched)

\* No sequence of calls that keeps the usage rules makes scheduler_remove_task
\* or an insertion corrupt a list.
ListsIntact == ~sched.broken

\* The state field tells which list a task is on: READY and RUNNING tasks are
\* on the ready list of their current priority, BLOCKED ones on the blocked
\* list, all others on none -- also between two iterations of the tick's loop.
StateTellsList == \A t \in Task : StateTells(sched, t)

\* PendSV_Handler always finds a task to restore: scheduler_select_next_task
\* returning NULL would make it return through a clobbered lr.
SomeTaskRuns == kstate = "RUNNING" => sched.cur # NULL

\* A task that has blocked, suspended or deleted itself does not execute its
\* own code again until something made it ready (scheduler_lock held aside).
StoppedTaskIsOff ==
    \A t \in App : At(t, "run") /\ sched.lock = 0
                       => sched.state[t] \in {"READY", "RUNNING"}

\* A scheduler_yield that was put off by scheduler_lock is served: whoever runs,
\* locks, unlocks or is switched meanwhile, the request stays recorded until the
\* lock count is back at zero, and the step that takes it there or drops the
\* record leaves PendSV pending.
DeferredYieldServed ==
    [][sched.resched => sched'.pendsv \/ (sched'.resched /\ sched'.lock > 0)]_vars

\* Interrupts are unmasked, a task of higher priority than the running one is
\* ready, and no switch is pending.
Inverted == /\ scan.job = "none" /\ sched.cur # NULL /\ ~sched.pendsv
            /\ \E p \in sched.bitmap : p < sched.priority[sched.cur]

\* Every path that makes a task ready asks for the switch when that task
\* outranks the running one, and the end of every tick does: the only way to
\* an inversion is lowering the running task's own priority, and the next
\* tick ends it.
PreemptionNotForgotten ==
    [][Inverted' =>
        \/ Inverted
        \/ /\ sched'.cur = sched.cur
           /\ sched'.priority[sched.cur] > sched.priority[sched.cur]]_vars

\* SysTick never revives a task that is suspended or deleted: only a call of
\* a running task ends those states.
TickSparesStopped ==
    [][scan.job = "tick" =>
        \A t \in Task : sched.state[t] \in {"SUSPENDED", "DELETED"}
                            => sched'.state[t] = sched.state[t]]_vars

\* Round robin: a task that stays ready at the highest ready priority runs
\* again and again, however long its peers compute.
TopReady(t) ==
    /\ kstate = "RUNNING" /\ sched.lock = 0
    /\ On(sched, t, sched.priority[t])
    /\ sched.priority[t] = bitmap_find_highest(sched.bitmap)

PeersShareCpu ==
    \A t \in App : <>[]TopReady(t) => []<>(sched.cur = t)

\* Every delay ends: a sleeping task is made ready again.
SleepersWake ==
    \A t \in App : sched.state[t] = "BLOCKED" ~> sched.state[t] # "BLOCKED"
=============================================================================
