---------------------------- MODULE TaskApiProofs ----------------------------
(***************************************************************************)
(* The invariants of TaskApi for every number of tasks and priorities,     *)
(* every tick width and every set of calls.  The first part holds for any  *)
(* use of the API; the second one, for Racy = FALSE, rests on its rules.   *)
(***************************************************************************)
EXTENDS TaskApi, SchedulerProofs

\* What every function of the kernel keeps, whoever calls it and when.
Good(s) == s \in SchedState /\ Sound(s) /\ Deferred(s)

LEMMA FrameDeferred ==
    ASSUME NEW r, NEW s, SameRun(r, s), Deferred(s)
    PROVE  Deferred(r)
  BY DEF SameRun, Deferred

\* The functions of the scheduler.
LEMMA GoodOps ==
    ASSUME NEW s, Good(s), NEW t \in Task
    PROVE  /\ Good(scheduler_yield(s))
           /\ Good(scheduler_add_task(s, t))
           /\ Good(scheduler_remove_task(s, t))
           /\ \A p \in Prio : Good(scheduler_set_priority(s, t, p))
           /\ \A u \in Result : Good(scheduler_unblock_task(s, t, u))
           /\ \A u \in Result : Good(MakeReady(s, t, u))
           /\ Good(charge_slice(s))
           /\ Good(preempt_check(s))
  <1>0. s \in SchedState /\ Sound(s) /\ Deferred(s)
    BY DEF Good
  <1>1. Good(scheduler_yield(s)) /\ Good(charge_slice(s))
    BY <1>0, YieldLemma, ChargeSliceLemma DEF Good
  <1>2. Good(scheduler_add_task(s, t))
    BY <1>0, AddLemma, FrameDeferred DEF Good
  <1>3. Good(scheduler_remove_task(s, t))
    BY <1>0, RemoveTaskLemma, FieldsFrame, FrameDeferred DEF Good
  <1>4. \A p \in Prio : Good(scheduler_set_priority(s, t, p))
    BY <1>0, SetPriorityLemma, FrameDeferred DEF Good
  <1>5. \A u \in Result : Good(scheduler_unblock_task(s, t, u))
    BY <1>0, UnblockTaskLemma, FrameDeferred DEF Good
  <1>6. \A u \in Result : Good(MakeReady(s, t, u))
    BY <1>0, MakeReadyLemma, FrameDeferred DEF Good
  <1>7. Good(preempt_check(s))
    BY <1>0, PreemptCheckLemma, FrameDeferred DEF Good
  <1> QED
    BY <1>1, <1>2, <1>3, <1>4, <1>5, <1>6, <1>7

LEMMA GoodBlock ==
    ASSUME NEW s, Good(s), s.cur # NULL, NEW reason \in BlockReason,
           NEW object \in Object \cup {NULL}, NEW n \in Tick
    PROVE  Good(scheduler_block_task(s, reason, object, n))
  BY BlockLemma, FrameDeferred DEF Good

LEMMA DelayArgs == "DELAY" \in BlockReason /\ NULL \in Object \cup {NULL}
  BY DEF BlockReason

LEMMA GoodUnblockOne ==
    ASSUME NEW s, Good(s), NEW reason, NEW object, NEW result \in Result
    PROVE  Good(scheduler_unblock_one(s, reason, object, result))
  BY UnblockOneLemma, FrameDeferred DEF Good

\* The ways kernel.c writes a TCB outside the scheduler.
LEMMA StateWrite ==
    ASSUME NEW s \in SchedState, NEW x \in Task, NEW st \in TaskState, NEW r,
           r = [s EXCEPT !.state[x] = st]
    PROVE  r \in SchedState /\ SameRun(r, s) /\ SameLists(r, s)
  <1>1. PICK S \in [Task -> TaskState] : S = [s.state EXCEPT ![x] = st]
    BY DEF SchedState
  <1>2. r = [s EXCEPT !.state = S]
    BY <1>1
  <1> QED
    BY <1>1, <1>2 DEF SchedState, SameRun, SameLists

LEMMA PriorityWrite ==
    ASSUME NEW s \in SchedState, NEW x \in Task, NEW p \in Prio, NEW r,
           r = [s EXCEPT !.priority[x] = p]
    PROVE  r \in SchedState /\ SameRun(r, s) /\ SameLists(r, s)
  <1>1. PICK P \in [Task -> Prio] : P = [s.priority EXCEPT ![x] = p]
    BY DEF SchedState
  <1>2. r = [s EXCEPT !.priority = P]
    BY <1>1
  <1> QED
    BY <1>2 DEF SchedState, SameRun, SameLists

LEMMA GoodKept ==
    ASSUME NEW s, Good(s), NEW r \in SchedState, SameRun(r, s), SameLists(r, s)
    PROVE  Good(r)
  BY SameSound, FrameDeferred DEF Good

LEMMA GoodStop ==
    ASSUME NEW s, Good(s), NEW x \in Task, NEW st \in TaskState
    PROVE  Good(stop_task(s, x, st))
  <1>1. PICK a : a = scheduler_remove_task(s, x)
    OBVIOUS
  <1>2. Good(a) /\ a \in SchedState
    BY <1>1, GoodOps DEF Good
  <1>3. PICK r : r = [a EXCEPT !.state[x] = st]
    OBVIOUS
  <1>4. Good(r)
    BY <1>2, <1>3, StateWrite, GoodKept
  <1> QED
    BY <1>1, <1>3, <1>4 DEF stop_task

LEMMA TcbInitLemma ==
    ASSUME NEW s \in SchedState, NEW x \in Task, NEW p \in Prio, NEW r,
           r = tcb_init(s, x, p)
    PROVE  /\ r \in SchedState /\ SameRun(r, s)
           /\ Linked(s, x) => Sound(r)
           /\ ~Linked(s, x) => SameLists(r, s)
           /\ r.state[x] = "READY" /\ r.reason[x] = "NONE"
           /\ \A y \in Task \ {x} : /\ r.state[y] = s.state[y]
                                    /\ r.priority[y] = s.priority[y]
                                    /\ r.reason[y] = s.reason[y]
  <1>1. /\ s.priority \in [Task -> Prio] /\ s.state \in [Task -> TaskState]
        /\ s.slice \in [Task -> 0 .. TimeSlice] /\ s.wake \in [Task -> Tick]
        /\ s.reason \in [Task -> BlockReason]
        /\ s.object \in [Task -> Object \cup {NULL}]
        /\ s.timeout \in [Task -> Tick] /\ s.result \in [Task -> Result]
        /\ s.broken \in BOOLEAN
    BY DEF SchedState
  <1>2. 0 \in Tick /\ TimeSlice \in 0 .. TimeSlice
    BY ConstantsAssumption DEF Tick
  <1>3. PICK P \in [Task -> Prio] : P = [s.priority EXCEPT ![x] = p]
    BY <1>1
  <1>4. PICK S \in [Task -> TaskState] : S = [s.state EXCEPT ![x] = "READY"]
    BY <1>1 DEF TaskState
  <1>5. PICK N \in [Task -> 0 .. TimeSlice] : N = [s.slice EXCEPT ![x] = TimeSlice]
    BY <1>1, <1>2
  <1>6. PICK W \in [Task -> Tick] : W = [s.wake EXCEPT ![x] = 0]
    BY <1>1, <1>2
  <1>7. PICK R \in [Task -> BlockReason] : R = [s.reason EXCEPT ![x] = "NONE"]
    BY <1>1 DEF BlockReason
  <1>8. PICK O \in [Task -> Object \cup {NULL}] : O = [s.object EXCEPT ![x] = NULL]
    BY <1>1
  <1>9. PICK T \in [Task -> Tick] : T = [s.timeout EXCEPT ![x] = 0]
    BY <1>1, <1>2
  <1>10. PICK U \in [Task -> Result] : U = [s.result EXCEPT ![x] = "OK"]
    BY <1>1 DEF Result
  <1>11. PICK a : a = [s EXCEPT !.priority = P, !.state = S, !.slice = N, !.wake = W,
                                !.reason = R, !.object = O, !.timeout = T,
                                !.result = U]
    OBVIOUS
  <1>12. /\ a \in SchedState /\ SameRun(a, s) /\ SameLists(a, s)
         /\ a.state = S /\ a.priority = P /\ a.reason = R
    BY <1>11 DEF SchedState, SameRun, SameLists
  <1>13. CASE Linked(s, x)
    <2>1. r = [a EXCEPT !.broken = TRUE]
      BY <1>3, <1>4, <1>5, <1>6, <1>7, <1>8, <1>9, <1>10, <1>11, <1>13
      DEF tcb_init, SchedState
    <2>2. /\ r \in SchedState /\ SameRun(r, a) /\ r.list = a.list
          /\ r.bitmap = a.bitmap /\ r.broken /\ r.state = a.state
          /\ r.priority = a.priority /\ r.reason = a.reason
      BY <1>12, <2>1 DEF SchedState, SameRun
    <2> QED
      BY <1>3, <1>4, <1>7, <1>12, <1>13, <2>2, FrameTrans DEF Sound
  <1>14. CASE ~Linked(s, x)
    <2>2. r = [a EXCEPT !.broken = s.broken]
      BY <1>3, <1>4, <1>5, <1>6, <1>7, <1>8, <1>9, <1>10, <1>11, <1>14
      DEF tcb_init, SchedState
    <2>3. s.broken = a.broken
      BY <1>11 DEF SchedState
    <2>4. [a EXCEPT !.broken = a.broken] = a
      BY <1>12 DEF SchedState
    <2>1. r = a
      BY <2>2, <2>3, <2>4
    <2> QED
      BY <1>3, <1>4, <1>7, <1>12, <1>14, <2>1
  <1> QED
    BY <1>13, <1>14

LEMMA TcbInitWaits ==
    ASSUME NEW s \in SchedState, NEW x \in Task, NEW p \in Prio, NEW r,
           r = tcb_init(s, x, p)
    PROVE  /\ r.tick = s.tick
           /\ \A y \in Task \ {x} : /\ r.object[y] = s.object[y]
                                    /\ r.timeout[y] = s.timeout[y]
                                    /\ r.result[y] = s.result[y]
                                    /\ r.wake[y] = s.wake[y]
  BY DEF tcb_init, SchedState

LEMMA GoodTcbInit ==
    ASSUME NEW s, Good(s), NEW x \in Task, NEW p \in Prio
    PROVE  Good(tcb_init(s, x, p))
  <1>1. PICK r : r = tcb_init(s, x, p)
    OBVIOUS
  <1>2. s \in SchedState /\ Sound(s) /\ Deferred(s)
    BY DEF Good
  <1>3. /\ r \in SchedState /\ SameRun(r, s)
        /\ Linked(s, x) => Sound(r)
        /\ ~Linked(s, x) => SameLists(r, s)
    BY <1>1, <1>2, TcbInitLemma
  <1>4. Sound(r)
    BY <1>2, <1>3, SameSound
  <1> QED
    BY <1>1, <1>2, <1>3, <1>4, FrameDeferred DEF Good

LEMMA GoodCreate ==
    ASSUME NEW s, Good(s), NEW x \in Task, NEW p \in Prio
    PROVE  Good(task_create(s, x, p))
  BY GoodTcbInit, GoodOps DEF task_create

LEMMA LockLemma ==
    ASSUME NEW s \in SchedState, NEW r,
           r = scheduler_lock(s) \/ r = scheduler_unlock(s)
    PROVE  /\ r \in SchedState /\ (Deferred(s) => Deferred(r))
           /\ SameLists(r, s) /\ r.state = s.state /\ r.priority = s.priority
           /\ r.cur = s.cur /\ (s.pendsv => r.pendsv)
  <1>1. s.lock \in Nat /\ s.resched \in BOOLEAN
    BY DEF SchedState
  <1>2. PICK n \in Nat, m \in Nat : n = s.lock + 1 /\ m = IF s.lock > 0 THEN s.lock - 1 ELSE 0
    BY <1>1
  <1>3. CASE r = scheduler_lock(s)
    <2>1. r = [s EXCEPT !.lock = n] /\ n # 0
      BY <1>1, <1>2, <1>3 DEF scheduler_lock
    <2> QED
      BY <2>1 DEF SchedState, SameLists, Deferred
  <1>4. CASE r = scheduler_unlock(s) /\ m = 0 /\ s.resched
    <2>1. r = [s EXCEPT !.lock = m, !.resched = FALSE, !.pendsv = TRUE]
      BY <1>2, <1>4 DEF scheduler_unlock
    <2> QED
      BY <2>1 DEF SchedState, SameLists, Deferred
  <1>5. CASE r = scheduler_unlock(s) /\ ~(m = 0 /\ s.resched)
    <2>1. r = [s EXCEPT !.lock = m]
      BY <1>2, <1>5 DEF scheduler_unlock
    <2> QED
      BY <1>5, <2>1 DEF SchedState, SameLists, Deferred
  <1> QED
    BY <1>3, <1>4, <1>5
-----------------------------------------------------------------------------
(***************************************************************************)
(* Part 1: any use of the API.                                             *)
(***************************************************************************)
\* Nothing is put off while nobody holds the scheduler lock.
DeferredYieldKept == sched.lock = 0 => ~sched.resched

\* Every step of the model leaves the scheduler's record well-typed, its lists
\* sound and nothing put off without the lock; so the conjunction is inductive.
Base == TypeOK /\ ListsSound /\ DeferredYieldKept

LEMMA BaseGood ==
    ASSUME Base
    PROVE  Good(sched) /\ \A t \in App : t \in Task /\ t # NULL
  BY ConstantsAssumption
  DEF Base, TypeOK, ListsSound, DeferredYieldKept, Good, Deferred, Task

LEMMA InitGood == Good(scheduler_init)
  <1> DEFINE s == scheduler_init
  <1>1. 0 \in Prio /\ 0 \in Tick /\ 0 \in 0 .. TimeSlice /\ 0 \in Nat
    BY ConstantsAssumption DEF Prio, Tick
  <1>2. /\ "UNUSED" \in TaskState /\ "NONE" \in BlockReason /\ "OK" \in Result
        /\ <<>> \in Seq(Task) /\ Idle \in Task
    BY DEF TaskState, BlockReason, Result, Task
  <1>3. s \in SchedState
    BY <1>1, <1>2 DEF scheduler_init, SchedState
  <1>4. s.bitmap = {} /\ \A l \in List : s.list[l] = <<>>
    BY DEF scheduler_init
  <1>5. Sound(s)
    BY <1>4, PrioInList DEF Sound, BitmapAgrees, LinkedOnce
  <1>6. Deferred(s)
    BY DEF scheduler_init, Deferred
  <1> QED
    BY <1>3, <1>5, <1>6 DEF Good

LEMMA InitBase == Init => Base
  <1> SUFFICES ASSUME Init PROVE Base
    OBVIOUS
  <1>1. 0 \in Prio /\ Idle \in Task
    BY ConstantsAssumption DEF Prio, Task
  <1>2. Good(sched)
    BY InitGood DEF Init
  <1>3. scan \in ScanState
    BY DEF Init, NoScan, ScanState, BlockReason, Result
  <1>4. kstate \in KState /\ pc \in [Task -> PC] /\ arg \in [Task -> Arg]
    BY <1>1 DEF Init, KState, PC, Arg, NoArg, Keep
  <1> QED
    BY <1>2, <1>3, <1>4
    DEF Base, TypeOK, ListsSound, DeferredYieldKept, Good, Deferred

\* The variables beside sched, for a step of a task.
LEMMA ControlStep ==
    ASSUME Base, NEW t \in App, Direct(t) \/ Svc(t)
    PROVE  /\ scan' = scan /\ kstate' \in KState
           /\ pc' \in [Task -> PC] /\ arg' \in [Task -> Arg]
  <1>1. /\ t \in Task /\ App \subseteq Task /\ Idle \in Task /\ 0 \in Prio
        /\ kstate \in KState
        /\ pc \in [Task -> PC] /\ arg \in [Task -> Arg]
    BY ConstantsAssumption DEF Base, TypeOK, Task, Prio
  <1>2. \A x \in Task, p \in Prio : Keep(x, p) \in Arg
    BY DEF Keep, Arg
  <1>3. NoArg \in Arg
    BY <1>1, <1>2 DEF NoArg
  <1>4. CASE \/ task_yield(t) \/ block_return(t) \/ suspend_yield(t)
             \/ delete_yield(t) \/ scheduler_lock_call(t) \/ scheduler_unlock_call(t)
    BY <1>1, <1>4 DEF task_yield, block_return, suspend_yield, delete_yield,
       scheduler_lock_call, scheduler_unlock_call, Kernel, Goto, PC
  <1>5. CASE \/ resume_write(t) \/ resume_add(t) \/ prio_remove(t) \/ prio_write(t)
             \/ prio_store(t) \/ prio_add(t) \/ create_add(t)
    BY <1>1, <1>3, <1>5 DEF resume_write, resume_add, prio_remove, prio_write,
       prio_store, prio_add, create_add, Kernel, Goto, Return, PC
  <1>6. CASE \E n \in Delays : task_delay(t, n) \/ svc_delay(t, n)
    BY <1>1, <1>6 DEF task_delay, svc_delay, Kernel, Goto, PC
  <1>7. CASE \E x \in App : \/ task_suspend(t, x) \/ task_delete(t, x)
                            \/ unblock_task_call(t, x) \/ svc_resume(t, x)
    BY <1>1, <1>7 DEF task_suspend, task_delete, unblock_task_call, svc_resume,
       Kernel, Goto, PC
  <1>8. CASE \E x \in App : task_resume(t, x)
    BY <1>1, <1>2, <1>8 DEF task_resume, Goto, PC
  <1>9. CASE \E x \in App, p \in Prio : task_set_priority(t, x, p)
    BY <1>1, <1>2, <1>9 DEF task_set_priority, Goto, PC
  <1>10. CASE \E x \in App, p \in Prio : task_create_call(t, x, p)
    <2>1. PICK x \in App, p \in Prio : task_create_call(t, x, p)
      BY <1>10
    <2>2. /\ pc' = [pc EXCEPT ![t] = "create_add", ![x] = "run"]
          /\ arg' = [arg EXCEPT ![t] = Keep(x, p), ![x] = NoArg]
          /\ scan' = scan /\ kstate' = kstate
      BY <2>1 DEF task_create_call, Kernel
    <2>3. Keep(x, p) \in Arg /\ "create_add" \in PC /\ "run" \in PC
      BY <1>1, <1>2 DEF PC
    <2> QED
      BY <1>1, <1>3, <2>2, <2>3
  <1>11. CASE \/ svc_suspend(t) \/ svc_delete(t)
              \/ \E x \in App, p \in Prio : svc_priority(t, x, p) \/ svc_create(t, x, p)
    BY <1>1, <1>3, <1>11 DEF svc_suspend, svc_delete, svc_priority, svc_create,
       Kernel, Goto, Return, PC, KState
  <1> QED
    BY <1>4, <1>5, <1>6, <1>7, <1>8, <1>9, <1>10, <1>11 DEF Direct, Svc

\* A call made directly, in thread mode.
LEMMA DirectGood ==
    ASSUME Base, NEW t \in App, Direct(t)
    PROVE  Good(sched')
  <1>1. /\ Good(sched) /\ sched \in SchedState /\ t \in Task /\ t # NULL
        /\ App \subseteq Task
        /\ Target(t) \in Task /\ arg[t].prio \in Prio
        /\ "READY" \in TaskState /\ "SUSPENDED" \in TaskState
        /\ "DELETED" \in TaskState /\ "OK" \in Result
    BY BaseGood DEF Base, TypeOK, Arg, Target, TaskState, Result, Task
  <1>2. CASE task_yield(t) \/ block_return(t) \/ suspend_yield(t) \/ delete_yield(t)
    BY <1>1, <1>2, GoodOps DEF task_yield, block_return, suspend_yield, delete_yield, Kernel
  <1>3. CASE scheduler_lock_call(t) \/ scheduler_unlock_call(t)
    BY <1>1, <1>3, LockLemma, SameSound
    DEF scheduler_lock_call, scheduler_unlock_call, Kernel, Good
  <1>4. CASE resume_write(t)
    BY <1>1, <1>4, StateWrite, GoodKept DEF resume_write, Kernel
  <1>5. CASE resume_add(t) \/ prio_add(t) \/ create_add(t)
    BY <1>1, <1>5, GoodOps DEF resume_add, prio_add, create_add, Kernel
  <1>6. CASE prio_remove(t)
    BY <1>1, <1>6, GoodOps DEF prio_remove, Kernel
  <1>7. CASE prio_write(t) \/ prio_store(t)
    BY <1>1, <1>7, PriorityWrite, GoodKept DEF prio_write, prio_store, Kernel
  <1>8. CASE \E n \in Delays : task_delay(t, n)
    <2>1. PICK n \in Tick : task_delay(t, n)
      BY <1>8, ApiAssumption
    <2>2. sched.cur # NULL
      BY <1>1, <2>1 DEF task_delay, Calling, At, Runs
    <2>3. \/ sched' = scheduler_yield(sched)
          \/ sched' = scheduler_block_task(sched, "DELAY", NULL, n)
      BY <2>1 DEF task_delay, Kernel
    <2> QED
      BY <1>1, <2>2, <2>3, GoodOps, GoodBlock, DelayArgs
  <1>9. CASE \E x \in App : \/ task_suspend(t, x) \/ task_delete(t, x)
                            \/ unblock_task_call(t, x)
    BY <1>1, <1>9, GoodStop, GoodOps
    DEF task_suspend, task_delete, unblock_task_call, Kernel
  <1>10. CASE \/ \E x \in App : task_resume(t, x)
              \/ \E x \in App, p \in Prio : task_set_priority(t, x, p)
    BY <1>1, <1>10 DEF task_resume, task_set_priority
  <1>11. CASE \E x \in App, p \in Prio : task_create_call(t, x, p)
    BY <1>1, <1>11, GoodTcbInit DEF task_create_call, Kernel
  <1> QED
    BY <1>2, <1>3, <1>4, <1>5, <1>6, <1>7, <1>8, <1>9, <1>10, <1>11, Direct(t) DEF Direct

\* A call made through SVC.
LEMMA SvcGood ==
    ASSUME Base, NEW t \in App, Svc(t)
    PROVE  Good(sched')
  <1>1. /\ Good(sched) /\ t \in Task /\ t # NULL /\ App \subseteq Task
        /\ "SUSPENDED" \in TaskState /\ "DELETED" \in TaskState
    BY BaseGood DEF TaskState, Task
  <1>2. CASE svc_suspend(t) \/ svc_delete(t)
    BY <1>1, <1>2, GoodStop, GoodOps DEF svc_suspend, svc_delete, Kernel
  <1>3. CASE \E n \in Delays : svc_delay(t, n)
    <2>1. PICK n \in Tick : svc_delay(t, n)
      BY <1>3, ApiAssumption
    <2>2. sched.cur # NULL
      BY <1>1, <2>1 DEF svc_delay, Calling, At, Runs
    <2>3. Good(scheduler_block_task(sched, "DELAY", NULL, n))
      BY <1>1, <2>2, GoodBlock, DelayArgs
    <2> QED
      BY <1>1, <2>1, <2>3, GoodOps DEF svc_delay, Kernel
  <1>4. CASE \E x \in App : svc_resume(t, x)
    BY <1>1, <1>4, GoodOps DEF svc_resume, Kernel
  <1>5. CASE \E x \in App, p \in Prio : svc_priority(t, x, p)
    BY <1>1, <1>5, GoodOps DEF svc_priority, Kernel
  <1>6. CASE \E x \in App, p \in Prio : svc_create(t, x, p)
    BY <1>1, <1>6, GoodCreate DEF svc_create, Kernel
  <1> QED
    BY <1>2, <1>3, <1>4, <1>5, <1>6, Svc(t) DEF Svc
\* The boot sequence.
LEMMA BootBase ==
    ASSUME Base, Boot
    PROVE  Base'
  <1>1. /\ Good(sched) /\ sched \in SchedState /\ App \subseteq Task /\ Idle \in Task
    BY BaseGood DEF Base, TypeOK, Task
  <1>2. ASSUME Good(sched'), UNCHANGED <<scan, pc, arg>>, kstate' \in KState
        PROVE  Base'
    BY <1>2 DEF Base, TypeOK, ListsSound, DeferredYieldKept, Good, Deferred
  <1>3. CASE kernel_init
    <2>1. Good(scheduler_init)
      BY InitGood
    <2>2. MaxPriority - 1 \in Prio
      BY ConstantsAssumption DEF Prio
    <2>3. Good(sched')
      BY <1>1, <1>3, <2>1, <2>2, GoodCreate DEF kernel_init
    <2> QED
      BY <1>2, <1>3, <2>3 DEF kernel_init, KState
  <1>4. CASE \E x \in App, p \in Prio : main_create(x, p)
    <2>1. Good(sched')
      BY <1>1, <1>4, GoodCreate DEF main_create
    <2> QED
      BY <1>2, <1>4, <2>1 DEF main_create, Base, TypeOK
  <1>5. CASE kernel_start
    BY <1>1, <1>2, <1>5 DEF kernel_start, KState
  <1>6. CASE scheduler_start
    <2>1. PICK first \in Task : /\ first = scheduler_get_next(sched)
                                /\ sched' = [sched EXCEPT !.cur = first,
                                             !.state[first] = "RUNNING",
                                             !.slice[first] = TimeSlice]
      BY <1>1, <1>6, GetNextLemma DEF scheduler_start
    <2>2. /\ sched.state \in [Task -> TaskState] /\ "RUNNING" \in TaskState
          /\ sched.slice \in [Task -> 0 .. TimeSlice]
      BY <1>1 DEF SchedState, TaskState
    <2>3. TimeSlice \in 0 .. TimeSlice
      BY ConstantsAssumption
    <2>4. PICK S \in [Task -> TaskState] : S = [sched.state EXCEPT ![first] = "RUNNING"]
      BY <2>2
    <2>5. PICK N \in [Task -> 0 .. TimeSlice] : N = [sched.slice EXCEPT ![first] = TimeSlice]
      BY <2>2, <2>3
    <2>6. sched' = [sched EXCEPT !.cur = first, !.state = S, !.slice = N]
      BY <2>1, <2>4, <2>5
    <2>7. /\ sched' \in SchedState /\ SameLists(sched', sched)
          /\ sched'.lock = sched.lock /\ sched'.resched = sched.resched
      BY <1>1, <2>6 DEF SchedState, SameLists
    <2>8. Good(sched')
      BY <1>1, <2>7, SameSound DEF Good, Deferred
    <2> QED
      BY <1>2, <1>6, <2>8 DEF scheduler_start, KState
  <1> QED
    BY <1>3, <1>4, <1>5, <1>6, Boot DEF Boot

\* The exceptions.
LEMMA ExceptionBase ==
    ASSUME Base, Exception
    PROVE  Base'
  <1>1. /\ Good(sched) /\ sched \in SchedState /\ scan \in ScanState
    BY BaseGood DEF Base, TypeOK
  <1>2. ASSUME Good(sched'), scan' \in ScanState, UNCHANGED <<kstate, pc, arg>>
        PROVE  Base'
    BY <1>2 DEF Base, TypeOK, ListsSound, DeferredYieldKept, Good, Deferred
  <1>3. /\ NoScan \in ScanState
        /\ \A q \in Seq(Task) : [NoScan EXCEPT !.job = "tick", !.rest = q] \in ScanState
    <2>1. NoScan \in ScanState
      BY DEF NoScan, ScanState, BlockReason, Result
    <2>2. ASSUME NEW s \in ScanState, NEW q \in Seq(Task)
          PROVE  [s EXCEPT !.job = "tick", !.rest = q] \in ScanState
      BY DEF ScanState
    <2> QED
      BY <2>1, <2>2
  <1>4. CASE SysTick
    <2>1. PICK n \in Tick : n = (sched.tick + 1) % (TickMax + 1)
      <3>1. 0 \in Tick
        BY ConstantsAssumption DEF Tick
      <3> QED
        BY <1>1, <3>1, TickTypes
    <2>2. sched' = [sched EXCEPT !.tick = n]
      BY <1>4, <2>1 DEF SysTick, scheduler_tick
    <2>3. /\ sched' \in SchedState /\ SameRun(sched', sched) /\ SameLists(sched', sched)
      BY <1>1, <2>2 DEF SchedState, SameRun, SameLists
    <2>4. sched.list[BlockedList] \in Seq(Task)
      BY <1>1, PrioInList DEF SchedState
    <2>5. scan' \in ScanState
      BY <1>3, <1>4, <2>4 DEF SysTick, scheduler_tick
    <2>6. Good(sched')
      BY <1>1, <2>3, GoodKept
    <2> QED
      BY <1>2, <1>4, <2>5, <2>6 DEF SysTick
  <1>5. CASE TickScan
    <2>1. PICK q \in Seq(Task) : q = scan.rest /\ q # <<>>
      BY <1>1, <1>5 DEF TickScan, tick_scan, ScanState
    <2>2. Head(q) \in Task /\ Tail(q) \in Seq(Task)
      BY <2>1, HeadTailProperties
    <2>3. PICK u : u = IF sched.reason[Head(q)] = "DELAY"
                       THEN sched.result[Head(q)] ELSE "TIMEOUT"
      OBVIOUS
    <2>4. u \in Result
      BY <1>1, <2>2, <2>3 DEF SchedState, Result
    <2>5. sched' = sched \/ sched' = MakeReady(sched, Head(q), u)
      BY <1>5, <2>1, <2>3 DEF TickScan, tick_scan
    <2>6. Good(sched')
      BY <1>1, <2>2, <2>4, <2>5, GoodOps
    <2>7. scan' = [scan EXCEPT !.rest = Tail(q)]
      BY <1>5, <2>1 DEF TickScan, tick_scan
    <2>8. scan' \in ScanState
      BY <1>1, <2>2, <2>7 DEF ScanState
    <2> QED
      BY <1>2, <1>5, <2>6, <2>8 DEF TickScan
  <1>6. CASE TickEnd
    <2>1. Good(charge_slice(sched))
      BY <1>1, GoodOps DEF Task
    <2>2. Good(preempt_check(charge_slice(sched)))
      BY <2>1, GoodOps DEF Task
    <2> QED
      BY <1>2, <1>3, <1>6, <2>2 DEF TickEnd, tick_end
  <1>7. CASE PendSV
    <2>1. PICK next \in Task \cup {NULL} : next = scheduler_get_next(sched)
      BY <1>1, GetNextLemma
    <2>2. sched' = [sched EXCEPT !.cur = next, !.pendsv = FALSE] /\ scan' = scan
      BY <1>7, <2>1 DEF PendSV, PendSV_Handler
    <2>3. /\ sched' \in SchedState /\ SameLists(sched', sched)
          /\ sched'.lock = sched.lock /\ sched'.resched = sched.resched
      BY <1>1, <2>2 DEF SchedState, SameLists
    <2>4. Good(sched')
      BY <1>1, <2>3, SameSound DEF Good, Deferred
    <2> QED
      BY <1>1, <1>2, <1>7, <2>2, <2>4 DEF PendSV
  <1> QED
    BY <1>4, <1>5, <1>6, <1>7, Exception DEF Exception

LEMMA NextBase == Base /\ [Next]_vars => Base'
  <1> SUFFICES ASSUME Base, [Next]_vars PROVE Base'
    OBVIOUS
  <1>1. CASE Boot
    BY <1>1, BootBase
  <1>2. CASE Exception
    BY <1>2, ExceptionBase
  <1>3. ASSUME NEW t \in App, Direct(t) \/ Svc(t)
        PROVE  Base'
    <2>1. Good(sched')
      BY <1>3, DirectGood, SvcGood
    <2>2. /\ scan' = scan /\ kstate' \in KState
          /\ pc' \in [Task -> PC] /\ arg' \in [Task -> Arg]
      BY <1>3, ControlStep
    <2> QED
      BY <2>1, <2>2 DEF Base, TypeOK, ListsSound, DeferredYieldKept, Good, Deferred
  <1>4. CASE UNCHANGED vars
    BY <1>4 DEF vars, Base, TypeOK, ListsSound, DeferredYieldKept
  <1> QED
    BY <1>1, <1>2, <1>3, <1>4 DEF Next

THEOREM BaseInvariant == Spec => []Base
  BY InitBase, NextBase, PTL DEF Spec

\* Type correctness: no call, in any order and at any interleaving with the
\* tick, takes a field of a TCB or of g_sched out of its range.
THEOREM TypeCorrectness == Spec => []TypeOK
  <1>1. Base => TypeOK
    BY DEF Base
  <1> QED
    BY <1>1, BaseInvariant, PTL

\* priority_bitmap agrees with the ready lists and no TCB is linked twice, up
\* to the point where a call corrupts a list, for any use of the API.
THEOREM SoundLists == Spec => []ListsSound
  <1>1. Base => ListsSound
    BY DEF Base
  <1> QED
    BY <1>1, BaseInvariant, PTL

\* A deferred request outlives a step of the scheduler or becomes a pending
\* switch in it.
Serves(r, s) == s.resched => r.pendsv \/ r.resched

LEMMA ServesKept ==
    ASSUME NEW s, NEW r, SameRun(r, s)
    PROVE  Serves(r, s)
  BY DEF SameRun, Serves

LEMMA ServesYield ==
    ASSUME NEW s \in SchedState
    PROVE  Serves(scheduler_yield(s), s)
  <1>1. PICK r : r = scheduler_yield(s)
    OBVIOUS
  <1>2. CASE s.cur = NULL
    BY <1>1, <1>2 DEF scheduler_yield, Serves
  <1>3. CASE s.cur # NULL /\ s.lock > 0
    <2>1. r = [s EXCEPT !.resched = TRUE]
      BY <1>1, <1>3 DEF scheduler_yield
    <2>2. r.resched
      BY <2>1 DEF SchedState
    <2> QED
      BY <1>1, <2>2 DEF Serves
  <1>4. CASE s.cur # NULL /\ ~(s.lock > 0)
    <2>1. PICK a : a = Rotate(s)
      OBVIOUS
    <2>2. a \in SchedState
      BY <1>4, <2>1, RotateLemma
    <2>3. r.pendsv
      BY <1>1, <1>4, <2>1, <2>2, TriggerLemma DEF scheduler_yield
    <2> QED
      BY <1>1, <2>3 DEF Serves
  <1> QED
    BY <1>2, <1>3, <1>4

LEMMA ServesCharge ==
    ASSUME NEW s \in SchedState
    PROVE  Serves(charge_slice(s), s)
  <1>1. CASE s.cur = NULL
    BY <1>1 DEF charge_slice, Serves
  <1>2. CASE s.cur # NULL
    <2>1. PICK N : N = [s.slice EXCEPT ![s.cur] = TimeSlice]
      OBVIOUS
    <2>2. PICK a : a = [s EXCEPT !.slice = N]
      OBVIOUS
    <2>3. s.slice \in [Task -> 0 .. TimeSlice] /\ TimeSlice \in 0 .. TimeSlice
      BY ConstantsAssumption DEF SchedState
    <2>4. N \in [Task -> 0 .. TimeSlice]
      BY <2>1, <2>3
    <2>5. a \in SchedState /\ a.resched = s.resched
      BY <2>2, <2>4 DEF SchedState
    <2>6. \/ charge_slice(s) = scheduler_yield(a)
          \/ \E n : charge_slice(s) = [s EXCEPT !.slice = [@ EXCEPT ![s.cur] = n]]
      BY <1>2, <2>1, <2>2 DEF charge_slice
    <2>7. \A n : [s EXCEPT !.slice = [@ EXCEPT ![s.cur] = n]].resched = s.resched
      BY DEF SchedState
    <2>8. CASE charge_slice(s) = scheduler_yield(a)
      BY <2>5, <2>8, ServesYield DEF Serves
    <2> QED
      BY <2>6, <2>7, <2>8 DEF Serves
  <1> QED
    BY <1>1, <1>2

LEMMA ServesLock ==
    ASSUME NEW s \in SchedState, NEW r,
           r = scheduler_lock(s) \/ r = scheduler_unlock(s)
    PROVE  Serves(r, s)
  <1>1. CASE r = scheduler_lock(s)
    <2>1. r.resched = s.resched
      BY <1>1 DEF scheduler_lock, SchedState
    <2> QED BY <2>1 DEF Serves
  <1>2. CASE r = scheduler_unlock(s)
    <2>1. r.pendsv \/ r.resched = s.resched
      BY <1>2 DEF scheduler_unlock, SchedState
    <2> QED BY <2>1 DEF Serves
  <1> QED BY <1>1, <1>2

\* Every other function leaves the request as it is.
LEMMA SameRunOps ==
    ASSUME NEW s, Good(s), NEW t \in Task
    PROVE  /\ SameRun(scheduler_add_task(s, t), s)
           /\ SameRun(scheduler_remove_task(s, t), s)
           /\ \A p \in Prio : SameRun(scheduler_set_priority(s, t, p), s)
           /\ \A u \in Result : SameRun(scheduler_unblock_task(s, t, u), s)
           /\ \A u \in Result : SameRun(MakeReady(s, t, u), s)
           /\ \A st \in TaskState : SameRun(stop_task(s, t, st), s)
           /\ \A p \in Prio : /\ SameRun(tcb_init(s, t, p), s)
                              /\ SameRun(task_create(s, t, p), s)
  <1>0. s \in SchedState
    BY DEF Good
  <1>1. /\ SameRun(scheduler_add_task(s, t), s)
        /\ \A p \in Prio : SameRun(scheduler_set_priority(s, t, p), s)
        /\ \A u \in Result : SameRun(scheduler_unblock_task(s, t, u), s)
        /\ \A u \in Result : SameRun(MakeReady(s, t, u), s)
    BY <1>0, AddLemma, SetPriorityLemma, UnblockTaskLemma, MakeReadyLemma
  <1>2. PICK a : a = scheduler_remove_task(s, t)
    OBVIOUS
  <1>3. a \in SchedState /\ SameRun(a, s)
    BY <1>0, <1>2, RemoveTaskLemma, FieldsFrame
  <1>4. ASSUME NEW st \in TaskState PROVE SameRun(stop_task(s, t, st), s)
    <2>1. PICK r : r = [a EXCEPT !.state[t] = st]
      OBVIOUS
    <2>2. SameRun(r, s)
      BY <1>3, <2>1, StateWrite, FrameTrans
    <2> QED
      BY <1>2, <2>1, <2>2 DEF stop_task
  <1>5. ASSUME NEW p \in Prio
        PROVE  SameRun(tcb_init(s, t, p), s) /\ SameRun(task_create(s, t, p), s)
    <2>1. PICK r : r = tcb_init(s, t, p)
      OBVIOUS
    <2>2. r \in SchedState /\ SameRun(r, s)
      BY <1>0, <2>1, TcbInitLemma
    <2>3. PICK c : c = scheduler_add_task(r, t)
      OBVIOUS
    <2>4. SameRun(c, r)
      BY <2>2, <2>3, AddLemma
    <2>5. SameRun(c, s)
      BY <2>2, <2>4, FrameTrans
    <2> QED
      BY <2>1, <2>2, <2>3, <2>5 DEF task_create
  <1> QED
    BY <1>1, <1>2, <1>3, <1>4, <1>5

LEMMA DirectServes ==
    ASSUME Base, NEW t \in App, Direct(t)
    PROVE  Serves(sched', sched)
  <1>1. /\ Good(sched) /\ sched \in SchedState /\ t \in Task /\ t # NULL
        /\ App \subseteq Task
        /\ Target(t) \in Task /\ arg[t].prio \in Prio
        /\ "READY" \in TaskState /\ "SUSPENDED" \in TaskState
        /\ "DELETED" \in TaskState /\ "OK" \in Result
    BY BaseGood DEF Base, TypeOK, Arg, Target, TaskState, Result, Task
  <1>2. CASE task_yield(t) \/ block_return(t) \/ suspend_yield(t) \/ delete_yield(t)
    BY <1>1, <1>2, ServesYield
    DEF task_yield, block_return, suspend_yield, delete_yield, Kernel
  <1>3. CASE scheduler_lock_call(t) \/ scheduler_unlock_call(t)
    BY <1>1, <1>3, ServesLock DEF scheduler_lock_call, scheduler_unlock_call, Kernel
  <1>4. CASE resume_write(t)
    BY <1>1, <1>4, StateWrite, ServesKept DEF resume_write, Kernel
  <1>5. CASE resume_add(t) \/ prio_add(t) \/ create_add(t)
    BY <1>1, <1>5, SameRunOps, ServesKept DEF resume_add, prio_add, create_add, Kernel
  <1>6. CASE prio_remove(t)
    BY <1>1, <1>6, SameRunOps, ServesKept DEF prio_remove, Kernel
  <1>7. CASE prio_write(t) \/ prio_store(t)
    BY <1>1, <1>7, PriorityWrite, ServesKept DEF prio_write, prio_store, Kernel
  <1>8. CASE \E n \in Delays : task_delay(t, n)
    <2>1. PICK n \in Tick : task_delay(t, n)
      BY <1>8, ApiAssumption
    <2>2. sched.cur # NULL
      BY <1>1, <2>1 DEF task_delay, Calling, At, Runs
    <2>3. \/ sched' = scheduler_yield(sched)
          \/ sched' = scheduler_block_task(sched, "DELAY", NULL, n)
      BY <2>1 DEF task_delay, Kernel
    <2> QED
      BY <1>1, <2>2, <2>3, ServesYield, ServesKept, BlockLemma, DelayArgs
  <1>9. CASE \E x \in App : \/ task_suspend(t, x) \/ task_delete(t, x)
                            \/ unblock_task_call(t, x)
    BY <1>1, <1>9, SameRunOps, ServesKept
    DEF task_suspend, task_delete, unblock_task_call, Kernel
  <1>10. CASE \/ \E x \in App : task_resume(t, x)
              \/ \E x \in App, p \in Prio : task_set_priority(t, x, p)
    BY <1>1, <1>10 DEF task_resume, task_set_priority, Serves
  <1>11. CASE \E x \in App, p \in Prio : task_create_call(t, x, p)
    BY <1>1, <1>11, SameRunOps, ServesKept DEF task_create_call, Kernel
  <1> QED
    BY <1>2, <1>3, <1>4, <1>5, <1>6, <1>7, <1>8, <1>9, <1>10, <1>11, Direct(t) DEF Direct

LEMMA SvcServes ==
    ASSUME Base, NEW t \in App, Svc(t)
    PROVE  Serves(sched', sched)
  <1>1. /\ Good(sched) /\ t \in Task /\ t # NULL /\ App \subseteq Task
        /\ sched \in SchedState
        /\ "SUSPENDED" \in TaskState /\ "DELETED" \in TaskState
    BY BaseGood DEF TaskState, Task, Good
  <1>2. ASSUME NEW r, Good(r), SameRun(r, sched), sched' = scheduler_yield(r) \/ sched' = r
        PROVE  Serves(sched', sched)
    BY <1>2, ServesYield, ServesKept DEF Good, Serves, SameRun
  <1>3. CASE svc_suspend(t) \/ svc_delete(t)
    <2>1. PICK st \in TaskState : \/ sched' = scheduler_yield(stop_task(sched, t, st))
                                 \/ sched' = stop_task(sched, t, st)
      BY <1>1, <1>3 DEF svc_suspend, svc_delete, Kernel
    <2> QED
      BY <1>1, <1>2, <2>1, GoodStop, SameRunOps
  <1>4. CASE \E n \in Delays : svc_delay(t, n)
    <2>1. PICK n \in Tick : svc_delay(t, n)
      BY <1>4, ApiAssumption
    <2>2. sched.cur # NULL
      BY <1>1, <2>1 DEF svc_delay, Calling, At, Runs
    <2>3. PICK r : r = scheduler_block_task(sched, "DELAY", NULL, n)
      OBVIOUS
    <2>4. Good(r) /\ SameRun(r, sched)
      BY <1>1, <2>2, <2>3, GoodBlock, BlockLemma, DelayArgs
    <2>5. sched' = scheduler_yield(r) \/ sched' = r \/ sched' = scheduler_yield(sched)
      BY <2>1, <2>3 DEF svc_delay, Kernel
    <2> QED
      BY <1>1, <1>2, <2>4, <2>5, ServesYield
  <1>5. CASE \E x \in App : svc_resume(t, x)
    BY <1>1, <1>5, SameRunOps, ServesKept DEF svc_resume, Kernel
  <1>6. CASE \E x \in App, p \in Prio : svc_priority(t, x, p)
    BY <1>1, <1>6, SameRunOps, ServesKept DEF svc_priority, Kernel
  <1>7. CASE \E x \in App, p \in Prio : svc_create(t, x, p)
    BY <1>1, <1>7, SameRunOps, ServesKept DEF svc_create, Kernel
  <1> QED
    BY <1>3, <1>4, <1>5, <1>6, <1>7, Svc(t) DEF Svc

\* kernel_init, which sets reschedule_pending to zero, comes first.
NothingYet == kstate = "UNINIT" => ~sched.resched /\ scan.job = "none"

LEMMA BootServes ==
    ASSUME Base, NothingYet, Boot
    PROVE  Serves(sched', sched) /\ NothingYet'
  <1>1. Good(sched) /\ sched \in SchedState /\ App \subseteq Task
    BY BaseGood DEF Base, TypeOK, Task
  <1>2. NothingYet'
    BY DEF Boot, kernel_init, main_create, kernel_start, scheduler_start, NothingYet
  <1>3. CASE kernel_init
    BY <1>2, <1>3 DEF kernel_init, NothingYet, Serves
  <1>4. CASE \E x \in App, p \in Prio : main_create(x, p)
    BY <1>1, <1>2, <1>4, SameRunOps, ServesKept DEF main_create
  <1>5. CASE kernel_start
    BY <1>2, <1>5 DEF kernel_start, Serves
  <1>6. CASE scheduler_start
    <2>1. sched'.resched = sched.resched
      BY <1>1, <1>6 DEF scheduler_start, SchedState
    <2> QED BY <1>2, <2>1 DEF Serves
  <1> QED
    BY <1>3, <1>4, <1>5, <1>6, Boot DEF Boot

LEMMA ExceptionServes ==
    ASSUME Base, Exception
    PROVE  Serves(sched', sched)
  <1>1. Good(sched) /\ sched \in SchedState /\ scan \in ScanState
    BY BaseGood DEF Base, TypeOK
  <1>2. CASE SysTick \/ PendSV
    <2>1. sched'.resched = sched.resched
      BY <1>1, <1>2 DEF SysTick, scheduler_tick, PendSV, PendSV_Handler, SchedState
    <2> QED BY <2>1 DEF Serves
  <1>3. CASE TickScan
    <2>1. PICK q \in Seq(Task) : q = scan.rest /\ q # <<>>
      BY <1>1, <1>3 DEF TickScan, tick_scan, ScanState
    <2>2. Head(q) \in Task
      BY <2>1, HeadTailProperties
    <2>3. PICK u : u = IF sched.reason[Head(q)] = "DELAY"
                       THEN sched.result[Head(q)] ELSE "TIMEOUT"
      OBVIOUS
    <2>4. u \in Result
      BY <1>1, <2>2, <2>3 DEF SchedState, Result
    <2>5. sched' = sched \/ sched' = MakeReady(sched, Head(q), u)
      BY <1>3, <2>1, <2>3 DEF TickScan, tick_scan
    <2> QED
      BY <1>1, <2>2, <2>4, <2>5, SameRunOps, ServesKept DEF Serves
  <1>4. CASE TickEnd
    <2>1. PICK a : a = charge_slice(sched)
      OBVIOUS
    <2>2. a \in SchedState /\ Serves(a, sched)
      BY <1>1, <2>1, ChargeSliceLemma, ServesCharge
    <2>3. SameRun(sched', a)
      BY <1>4, <2>1, <2>2, PreemptCheckLemma DEF TickEnd, tick_end
    <2> QED
      BY <2>2, <2>3 DEF Serves, SameRun
  <1> QED
    BY <1>2, <1>3, <1>4, Exception DEF Exception

\* kernel/scheduler.c, scheduler_yield and scheduler_unlock: a yield put off by
\* the scheduler lock stays recorded while the lock is held and has become a
\* pending PendSV when the record goes or the lock count reaches zero, for any
\* calls, in any order and nesting, at any interleaving with the tick.
THEOREM NoYieldForgotten == Spec => DeferredYieldServed
  <1> DEFINE Kept == sched.resched => sched'.pendsv \/ (sched'.resched /\ sched'.lock > 0)
  <1>1. Init => NothingYet
    BY DEF Init, scheduler_init, NoScan, NothingYet
  <1>2. Base /\ NothingYet /\ [Next]_vars => NothingYet' /\ [Kept]_vars
    <2> SUFFICES ASSUME Base, NothingYet, [Next]_vars PROVE NothingYet' /\ [Kept]_vars
      OBVIOUS
    <2>1. CASE UNCHANGED vars
      BY <2>1 DEF vars, NothingYet
    <2>2. CASE Next
      <3>1. Serves(sched', sched)
        BY <2>2, BootServes, ExceptionServes, DirectServes, SvcServes DEF Next
      <3>2. NothingYet'
        <4>1. CASE Boot
          BY <4>1, BootServes
        <4>3. CASE Exception
          BY <4>3 DEF Exception, SysTick, TickScan, TickEnd, PendSV, InterruptsOn,
                      tick_scan, tick_end, NothingYet
        <4>4. ASSUME NEW t \in App, Direct(t) \/ Svc(t) PROVE NothingYet'
          <5>1. kstate = "RUNNING"
            BY <4>4 DEF Direct, Svc, Calling, At, task_yield, block_return, suspend_yield,
               delete_yield, scheduler_lock_call, scheduler_unlock_call, resume_write,
               resume_add, prio_remove, prio_write, prio_store, prio_add, create_add,
               task_delay, task_suspend, task_delete, unblock_task_call, task_resume,
               task_set_priority, task_create_call, svc_suspend, svc_delete, svc_delay,
               svc_resume, svc_priority, svc_create
          <5>2. kstate' # "UNINIT"
            BY <4>4, <5>1 DEF Direct, Svc, Kernel, task_yield, block_return, suspend_yield,
               delete_yield, scheduler_lock_call, scheduler_unlock_call, resume_write,
               resume_add, prio_remove, prio_write, prio_store, prio_add, create_add,
               task_delay, task_suspend, task_delete, unblock_task_call, task_resume,
               task_set_priority, task_create_call, svc_suspend, svc_delete, svc_delay,
               svc_resume, svc_priority, svc_create
          <5> QED
            BY <5>2 DEF NothingYet
        <4> QED
          BY <2>2, <4>1, <4>3, <4>4 DEF Next
      <3>3. Base'
        BY NextBase
      <3>4. sched'.lock \in Nat /\ (sched'.lock = 0 => ~sched'.resched)
        BY <3>3 DEF Base, TypeOK, SchedState, DeferredYieldKept
      <3> QED
        BY <3>1, <3>2, <3>4 DEF Serves
    <2> QED
      BY <2>1, <2>2
  <1> QED
    BY <1>1, <1>2, BaseInvariant, PTL DEF Spec, DeferredYieldServed
-----------------------------------------------------------------------------
(***************************************************************************)
(* Part 2: calls that keep the usage rules (Racy = FALSE).                 *)
(*                                                                         *)
(* StateTellsList is not inductive alone: scheduler_block_task assumes     *)
(* that its caller is on a ready list, and the loop of the tick that the   *)
(* tasks it has still to visit are blocked.                                *)
(***************************************************************************)
Runnable == {"READY", "RUNNING"}

\* A task that has blocked itself runs no further than its pending switch.
LeavesWhenBlocked(s) == s.cur # NULL /\ s.state[s.cur] = "BLOCKED" => s.pendsv

\* Only a blocked task has a block_reason.
WaitersBlocked(s) == \A y \in Task : s.reason[y] # "NONE" => s.state[y] = "BLOCKED"

Ruled(s) == /\ s \in SchedState
            /\ Placed(s)
            /\ s.state[Idle] \in Runnable
            /\ LeavesWhenBlocked(s)
            /\ WaitersBlocked(s)

\* q is what a loop over the blocked list has still before it.
Visits(s, q) ==
    /\ q \in Seq(Task)
    /\ \A i \in DOMAIN q : q[i] \in Task /\ s.state[q[i]] = "BLOCKED"
    /\ \A i, j \in DOMAIN q : q[i] = q[j] => i = j

LoopVisitsBlocked == scan.job # "none" => Visits(sched, scan.rest)

AtomicPC == {"run", "woken", "suspending", "deleting", "dead"}

RuleInv ==
    /\ Base
    /\ kstate = "UNINIT" => sched = scheduler_init
    /\ kstate \in {"UNINIT", "INIT"} => scan = NoScan
    /\ kstate # "UNINIT" => Ruled(sched)
    /\ kstate = "RUNNING" => sched.cur # NULL
    /\ pc \in [Task -> AtomicPC]
    /\ LoopVisitsBlocked
\* A change that keeps the current task, keeps a pending switch pending, and
\* blocks no task.
LEMMA RuledChange ==
    ASSUME NEW s, Ruled(s), NEW r \in SchedState, Placed(r), r.cur = s.cur,
           s.pendsv => r.pendsv,
           \A y \in Task : r.state[y] = "BLOCKED" => s.state[y] = "BLOCKED",
           r.state[Idle] \in Runnable, WaitersBlocked(r)
    PROVE  Ruled(r)
  <1>1. r.cur # NULL => r.cur \in Task
    BY DEF SchedState
  <1> QED
    BY <1>1 DEF Ruled, LeavesWhenBlocked

\* A change that neither begins nor ends a wait.
LEMMA WaitersKept ==
    ASSUME NEW s, WaitersBlocked(s), NEW r, SameWaits(r, s),
           \A y \in Task : s.state[y] = "BLOCKED" => r.state[y] = "BLOCKED"
    PROVE  WaitersBlocked(r)
  BY DEF WaitersBlocked, SameWaits

\* The end of one task's wait.
LEMMA WaiterLeft ==
    ASSUME NEW s \in SchedState, WaitersBlocked(s), NEW r, NEW t \in Task, NEW result,
           WaitOver(r, s, t, result),
           \A y \in Task \ {t} : r.state[y] = s.state[y]
    PROVE  WaitersBlocked(r)
  BY DEF WaitersBlocked, WaitOver, SchedState

LEMMA AppTask ==
    /\ Idle \in Task /\ NULL \notin Task
    /\ \A x \in App : x \in Task /\ x # Idle
  BY ConstantsAssumption DEF Task

\* The functions that move no task of the application off or onto a list.
LEMMA RuledOps ==
    ASSUME NEW s, Ruled(s), NEW x \in App, NEW r,
           \/ r = scheduler_yield(s) \/ r = charge_slice(s) \/ r = preempt_check(s)
           \/ r = scheduler_lock(s) \/ r = scheduler_unlock(s)
           \/ \E u \in Result : r = scheduler_unblock_task(s, x, u)
           \/ \E p \in Prio : r = scheduler_set_priority(s, x, p)
    PROVE  Ruled(r) /\ r.cur = s.cur
  <1>0. /\ s \in SchedState /\ Placed(s) /\ s.state[Idle] \in Runnable
        /\ x \in Task /\ x # Idle /\ Idle \in Task /\ WaitersBlocked(s)
    BY AppTask DEF Ruled
  <1>1. CASE r = scheduler_yield(s) \/ r = charge_slice(s)
    <2>1. /\ r \in SchedState /\ r.state = s.state /\ r.cur = s.cur
          /\ s.pendsv => r.pendsv
          /\ Placed(r)
      BY <1>0, <1>1, YieldLemma, ChargeSliceLemma
    <2>2. WaitersBlocked(r)
      BY <1>0, <1>1, <2>1, KeepsWaits, WaitersKept
    <2> QED
      BY <1>0, <2>1, <2>2, RuledChange
  <1>2. CASE r = preempt_check(s)
    <2>1. /\ r \in SchedState /\ r.state = s.state /\ SameRun(r, s) /\ Placed(r)
      BY <1>0, <1>2, PreemptCheckLemma
    <2>2. WaitersBlocked(r)
      BY <1>0, <1>2, <2>1, TriggerWaits, WaitersKept
    <2> QED
      BY <1>0, <2>1, <2>2, RuledChange DEF SameRun
  <1>3. CASE r = scheduler_lock(s) \/ r = scheduler_unlock(s)
    <2>1. /\ r \in SchedState /\ r.state = s.state /\ r.cur = s.cur
          /\ r.priority = s.priority /\ SameLists(r, s)
          /\ s.pendsv => r.pendsv
      BY <1>0, <1>3, LockLemma
    <2>2. Placed(r)
      BY <1>0, <2>1, PlacedKept
    <2>3. WaitersBlocked(r)
      BY <1>0, <1>3, <2>1, KeepsWaits, WaitersKept
    <2> QED
      BY <1>0, <2>1, <2>2, <2>3, RuledChange
  <1>4. CASE \E u \in Result : r = scheduler_unblock_task(s, x, u)
    <2>1. /\ r \in SchedState /\ SameRun(r, s) /\ Placed(r)
          /\ \A y \in Task : \/ r.state[y] = s.state[y]
                             \/ r.state[y] = "READY" /\ s.state[y] = "BLOCKED"
      BY <1>0, <1>4, UnblockTaskLemma
    <2>2. r.state[Idle] \in Runnable
      BY <1>0, <2>1 DEF Runnable
    <2>3. WaitersBlocked(r)
      BY <1>0, <1>4, UnblockTaskWaits, WaiterLeft
    <2> QED
      BY <1>0, <2>1, <2>2, <2>3, RuledChange DEF SameRun
  <1>5. CASE \E p \in Prio : r = scheduler_set_priority(s, x, p)
    <2>1. /\ r \in SchedState /\ SameRun(r, s) /\ Placed(r)
          /\ \A y \in Task : \/ r.state[y] = s.state[y]
                             \/ r.state[y] = "READY" /\ s.state[y] = "RUNNING"
      BY <1>0, <1>5, SetPriorityLemma
    <2>2. r.state[Idle] \in Runnable
      BY <1>0, <2>1 DEF Runnable
    <2>3. WaitersBlocked(r)
      BY <1>0, <1>5, <2>1, KeepsWaits, WaitersKept
    <2> QED
      BY <1>0, <2>1, <2>2, <2>3, RuledChange DEF SameRun
  <1> QED
    BY <1>1, <1>2, <1>3, <1>4, <1>5

LEMMA RuledYield ==
    ASSUME NEW s, Ruled(s), NEW r, r = scheduler_yield(s)
    PROVE  Ruled(r) /\ r.cur = s.cur
  <1>1. s \in SchedState /\ Placed(s) /\ WaitersBlocked(s) /\ Idle \in Task
    BY AppTask DEF Ruled
  <1>2. /\ r \in SchedState /\ r.state = s.state /\ r.cur = s.cur
        /\ s.pendsv => r.pendsv
        /\ Placed(r)
    BY <1>1, YieldLemma
  <1>3. WaitersBlocked(r)
    BY <1>1, <1>2, KeepsWaits, WaitersKept
  <1> QED
    BY <1>2, <1>3, RuledChange DEF Ruled

\* Resuming a suspended task.
LEMMA RuledAdd ==
    ASSUME NEW s, Ruled(s), NEW x \in App, s.state[x] = "SUSPENDED", NEW r,
           r = scheduler_add_task(s, x)
    PROVE  Ruled(r) /\ r.cur = s.cur
  <1>0. /\ s \in SchedState /\ Placed(s) /\ s.state[Idle] \in Runnable
        /\ x \in Task /\ x # Idle /\ Idle \in Task /\ s.state \in [Task -> TaskState]
        /\ WaitersBlocked(s)
    BY AppTask DEF Ruled, SchedState
  <1>1. OffList(s, x)
    BY <1>0, PlacedOff
  <1>2. /\ r \in SchedState /\ SameRun(r, s) /\ Placed(r)
        /\ r.state = [s.state EXCEPT ![x] = "READY"]
    BY <1>0, <1>1, AddLemma
  <1>3. \A y \in Task : s.state[y] = "BLOCKED" <=> r.state[y] = "BLOCKED"
    BY <1>0, <1>2
  <1>4. WaitersBlocked(r)
    BY <1>0, <1>3, KeepsWaits, WaitersKept
  <1> QED
    BY <1>0, <1>2, <1>3, <1>4, RuledChange DEF SameRun

\* Suspending or deleting a task that is not blocked.
LEMMA RuledStop ==
    ASSUME NEW s, Ruled(s), NEW x \in App, s.state[x] # "BLOCKED",
           NEW st \in {"SUSPENDED", "DELETED"}, NEW r, r = stop_task(s, x, st)
    PROVE  Ruled(r) /\ r.cur = s.cur
  <1>0. /\ s \in SchedState /\ Placed(s) /\ s.state[Idle] \in Runnable
        /\ x \in Task /\ x # Idle /\ Idle \in Task /\ s.state \in [Task -> TaskState]
        /\ st \in TaskState /\ WaitersBlocked(s)
    BY AppTask DEF Ruled, SchedState, TaskState
  <1>1. PICK a : a = scheduler_remove_task(s, x)
    OBVIOUS
  <1>2. a \in SchedState /\ SameFields(a, s) /\ OffList(a, x)
    BY <1>0, <1>1, RemoveTaskLemma, RemoveTaskOff
  <1>3. r = [a EXCEPT !.state[x] = st]
    BY <1>1 DEF stop_task
  <1>4. /\ r \in SchedState /\ SameRun(r, a) /\ SameLists(r, a)
        /\ r.priority = a.priority /\ r.state[x] = st /\ SameWaits(r, a)
        /\ \A y \in Task \ {x} : r.state[y] = a.state[y]
    <2>1. PICK S \in [Task -> TaskState] : S = [a.state EXCEPT ![x] = st]
      BY <1>0, <1>2 DEF SchedState
    <2>2. r = [a EXCEPT !.state = S]
      BY <1>3, <2>1
    <2>3. S[x] = st /\ \A y \in Task \ {x} : S[y] = a.state[y]
      BY <1>0, <1>2, <2>1 DEF SchedState
    <2>4. /\ r \in SchedState /\ SameRun(r, a) /\ SameLists(r, a)
          /\ r.priority = a.priority /\ r.state = S /\ SameWaits(r, a)
      BY <1>2, <2>2 DEF SchedState, SameRun, SameLists, SameWaits
    <2> QED
      BY <2>3, <2>4
  <1>5. a.state = s.state /\ SameRun(a, s)
    BY <1>2, FieldsFrame
  <1>6. r.state[x] = st /\ \A y \in Task \ {x} : r.state[y] = s.state[y]
    BY <1>0, <1>4, <1>5
  <1>7. OffList(r, x)
    BY <1>2, <1>4, <1>5, <1>6, OffListKept
  <1>8. Placed(r)
    BY <1>0, <1>4, <1>6, <1>7, OffListPlaced
  <1>9. r.cur = s.cur /\ (s.pendsv => r.pendsv)
    BY <1>4, <1>5 DEF SameRun
  <1>10. \A y \in Task : r.state[y] = "BLOCKED" <=> s.state[y] = "BLOCKED"
    BY <1>6
  <1>11. WaitersBlocked(r)
    BY <1>0, <1>2, <1>4, <1>10, FieldsWaits, WaitsTrans, WaitersKept
  <1> QED
    BY <1>0, <1>4, <1>6, <1>8, <1>9, <1>10, <1>11, RuledChange

LEMMA StopStates ==
    ASSUME NEW s \in SchedState, NEW x \in Task, NEW st \in TaskState
    PROVE  /\ stop_task(s, x, st).state[x] = st
           /\ \A y \in Task \ {x} : stop_task(s, x, st).state[y] = s.state[y]
  <1>1. PICK a : a = scheduler_remove_task(s, x)
    OBVIOUS
  <1>2. a \in SchedState /\ a.state = s.state
    BY <1>1, RemoveTaskLemma, FieldsFrame DEF SameFields
  <1> QED
    BY <1>1, <1>2 DEF stop_task, SchedState

\* Creating a task in a TCB that is on no list.
LEMMA CreatePlaced ==
    ASSUME NEW s \in SchedState, Placed(s), NEW x \in Task, NEW p \in Prio,
           s.state[x] \in {"UNUSED", "DELETED"}, NEW r, r = task_create(s, x, p)
    PROVE  /\ r \in SchedState /\ SameRun(r, s) /\ Placed(r)
           /\ r.state[x] = "READY"
           /\ \A y \in Task \ {x} : r.state[y] = s.state[y]
           /\ WaitersBlocked(s) => WaitersBlocked(r)
  <1>1. OffList(s, x)
    BY PlacedOff
  <1>2. ~Linked(s, x)
    BY <1>1 DEF OffList
  <1>3. PICK a : a = tcb_init(s, x, p)
    OBVIOUS
  <1>4. /\ a \in SchedState /\ SameRun(a, s) /\ SameLists(a, s)
        /\ \A y \in Task \ {x} : a.state[y] = s.state[y] /\ a.priority[y] = s.priority[y]
        /\ a.reason[x] = "NONE" /\ \A y \in Task \ {x} : a.reason[y] = s.reason[y]
    BY <1>2, <1>3, TcbInitLemma
  <1>5. OffList(a, x)
    BY <1>1, <1>4, OffListKept
  <1>6. r = scheduler_add_task(a, x)
    BY <1>3 DEF task_create
  <1>7. /\ r \in SchedState /\ SameRun(r, a) /\ Placed(r)
        /\ r.state = [a.state EXCEPT ![x] = "READY"]
    BY <1>4, <1>5, <1>6, AddLemma
  <1>8. a.state \in [Task -> TaskState]
    BY <1>4 DEF SchedState
  <1>9. r.state[x] = "READY" /\ \A y \in Task \ {x} : r.state[y] = s.state[y]
    BY <1>4, <1>7, <1>8
  <1>10. r.reason = a.reason
    BY <1>4, <1>6, KeepsWaits DEF SameWaits
  <1>11. WaitersBlocked(s) => WaitersBlocked(r)
    BY <1>4, <1>9, <1>10 DEF WaitersBlocked
  <1> QED
    BY <1>4, <1>7, <1>9, <1>11, FrameTrans

LEMMA RuledCreate ==
    ASSUME NEW s, Ruled(s), NEW x \in App, NEW p \in Prio,
           s.state[x] \in {"UNUSED", "DELETED"}, NEW r, r = task_create(s, x, p)
    PROVE  Ruled(r) /\ r.cur = s.cur
  <1>0. /\ s \in SchedState /\ Placed(s) /\ s.state[Idle] \in Runnable
        /\ x \in Task /\ x # Idle /\ Idle \in Task /\ WaitersBlocked(s)
    BY AppTask DEF Ruled
  <1>1. /\ r \in SchedState /\ SameRun(r, s) /\ Placed(r) /\ WaitersBlocked(r)
        /\ r.state[x] = "READY"
        /\ \A y \in Task \ {x} : r.state[y] = s.state[y]
    BY <1>0, CreatePlaced
  <1>2. \A y \in Task : r.state[y] = "BLOCKED" => s.state[y] = "BLOCKED"
    BY <1>1
  <1> QED
    BY <1>0, <1>1, <1>2, RuledChange DEF SameRun

\* The running task goes to sleep, or to wait for an object.
LEMMA RuledBlock ==
    ASSUME NEW s, Ruled(s), s.cur \in App, s.state[s.cur] # "BLOCKED",
           NEW reason \in BlockReason, NEW object \in Object \cup {NULL},
           NEW n \in Tick, NEW r, r = scheduler_block_task(s, reason, object, n)
    PROVE  Ruled(r) /\ r.cur = s.cur
  <1>0. /\ s \in SchedState /\ Placed(s) /\ s.state[Idle] \in Runnable
        /\ s.cur \in Task /\ s.cur # NULL /\ s.cur # Idle /\ Idle \in Task
        /\ s.state \in [Task -> TaskState] /\ WaitersBlocked(s)
    BY AppTask DEF Ruled, SchedState
  <1>1. /\ r \in SchedState /\ SameRun(r, s) /\ r.pendsv /\ Placed(r)
        /\ r.state[s.cur] = "BLOCKED"
        /\ \A y \in Task \ {s.cur} : r.state[y] = s.state[y]
    BY <1>0, BlockLemma
  <1>2. r.state[Idle] \in Runnable
    BY <1>0, <1>1
  <1>3. WaitBegun(r, s, s.cur, reason, object, n)
    BY <1>0, BlockWaits
  <1>4. WaitersBlocked(r)
    BY <1>0, <1>1, <1>3 DEF WaitersBlocked, WaitBegun, SchedState
  <1> QED
    BY <1>1, <1>2, <1>4 DEF Ruled, LeavesWhenBlocked, SameRun

\* A give or a send wakes the task that waits.
LEMMA RuledUnblockOne ==
    ASSUME NEW s, Ruled(s), NEW reason, NEW object, NEW result \in Result, NEW r,
           r = scheduler_unblock_one(s, reason, object, result)
    PROVE  /\ Ruled(r) /\ r.cur = s.cur
           /\ \A y \in Task : r.state[y] # s.state[y] => r.reason[y] = "NONE"
  <1>0. /\ s \in SchedState /\ Placed(s) /\ s.state[Idle] \in Runnable /\ Idle \in Task
        /\ WaitersBlocked(s) /\ s.state \in [Task -> TaskState]
        /\ s.reason \in [Task -> BlockReason]
    BY AppTask DEF Ruled, SchedState
  <1>1. CASE r = s
    BY <1>1
  <1>2. ASSUME NEW t \in Task, On(s, t, BlockedList),
               r \in SchedState, SameRun(r, s), Placed(r),
               r.state = [s.state EXCEPT ![t] = "READY"], WaitOver(r, s, t, result)
        PROVE  /\ Ruled(r) /\ r.cur = s.cur
               /\ \A y \in Task : r.state[y] # s.state[y] => r.reason[y] = "NONE"
    <2>1. s.state[t] = "BLOCKED"
      BY <1>0, <1>2 DEF Placed, StateTells
    <2>2. \A y \in Task \ {t} : r.state[y] = s.state[y]
      BY <1>0, <1>2
    <2>3. t # Idle
      BY <1>0, <2>1 DEF Runnable
    <2>4. WaitersBlocked(r)
      BY <1>0, <1>2, <2>2, WaiterLeft
    <2>5. r.reason[t] = "NONE"
      BY <1>0, <1>2 DEF WaitOver
    <2>6. Ruled(r)
      BY <1>0, <1>2, <2>1, <2>2, <2>3, <2>4, RuledChange DEF SameRun
    <2> QED
      BY <1>2, <2>2, <2>5, <2>6 DEF SameRun
  <1> QED
    BY <1>0, <1>1, <1>2, UnblockOneLemma
-----------------------------------------------------------------------------
LEMMA InitRule == Init => RuleInv
  <1> SUFFICES ASSUME Init PROVE RuleInv
    OBVIOUS
  <1>1. Base
    BY InitBase
  <1>2. pc \in [Task -> AtomicPC]
    BY DEF Init, AtomicPC
  <1>3. LoopVisitsBlocked
    BY DEF Init, NoScan, LoopVisitsBlocked
  <1> QED
    BY <1>1, <1>2, <1>3 DEF Init, RuleInv

\* A task that takes a step is the running one, and it is not blocked.
LEMMA Stepping ==
    ASSUME RuleInv, NEW t \in App, Direct(t) \/ Svc(t)
    PROVE  /\ kstate = "RUNNING" /\ scan.job = "none" /\ Ruled(sched)
           /\ sched.cur = t /\ sched.state[t] # "BLOCKED"
  <1>1. \E label : At(t, label)
    BY DEF Direct, Svc, Calling, task_yield, block_return, suspend_yield,
       delete_yield, scheduler_lock_call, scheduler_unlock_call, resume_write,
       resume_add, prio_remove, prio_write, prio_store, prio_add, create_add,
       task_delay, task_suspend, task_delete, task_resume, unblock_task_call,
       task_set_priority, task_create_call, svc_suspend, svc_delete, svc_delay,
       svc_resume, svc_priority, svc_create
  <1>2. /\ kstate = "RUNNING" /\ scan.job = "none" /\ sched.cur = t
        /\ ~sched.pendsv
    BY <1>1 DEF At, Runs, Unmasked
  <1>3. Ruled(sched)
    BY <1>2 DEF RuleInv
  <1>4. t # NULL
    BY AppTask
  <1> QED
    BY <1>2, <1>3, <1>4 DEF Ruled, LeavesWhenBlocked

\* What a step of a task has to keep, beside Base.
LEMMA TaskKeepsRule ==
    ASSUME RuleInv, NEW t \in App, Direct(t) \/ Svc(t),
           Ruled(sched'), sched'.cur = sched.cur, kstate' = kstate,
           pc' \in [Task -> AtomicPC]
    PROVE  RuleInv'
  <1>1. kstate = "RUNNING" /\ scan.job = "none" /\ sched.cur = t /\ t # NULL
    BY Stepping, AppTask
  <1>2. scan' = scan
    BY ControlStep DEF RuleInv
  <1>3. Base'
    BY NextBase DEF RuleInv, Next
  <1>4. LoopVisitsBlocked'
    BY <1>1, <1>2 DEF LoopVisitsBlocked
  <1> QED
    BY <1>1, <1>3, <1>4 DEF RuleInv

LEMMA DirectRule ==
    ASSUME ~Racy, RuleInv, NEW t \in App, Direct(t)
    PROVE  RuleInv'
  <1>1. /\ kstate = "RUNNING" /\ scan.job = "none" /\ Ruled(sched)
        /\ sched.cur = t /\ sched.state[t] # "BLOCKED"
    BY Stepping
  <1>2. /\ pc \in [Task -> AtomicPC] /\ t \in Task
        /\ \A x \in {"run", "woken", "suspending", "deleting", "dead"} : x \in AtomicPC
        /\ pc[t] \in AtomicPC
    BY AppTask DEF RuleInv, AtomicPC
  <1>3. CASE task_yield(t) \/ block_return(t) \/ suspend_yield(t) \/ delete_yield(t)
    <2>1. /\ sched' = scheduler_yield(sched) /\ kstate' = kstate
          /\ pc' \in [Task -> AtomicPC]
      BY <1>2, <1>3 DEF task_yield, block_return, suspend_yield, delete_yield, Kernel, Goto
    <2> QED
      BY <1>1, <2>1, RuledOps, TaskKeepsRule
  <1>4. CASE scheduler_lock_call(t) \/ scheduler_unlock_call(t)
    <2>1. /\ sched' = scheduler_lock(sched) \/ sched' = scheduler_unlock(sched)
          /\ kstate' = kstate /\ pc' \in [Task -> AtomicPC]
      BY <1>2, <1>4 DEF scheduler_lock_call, scheduler_unlock_call, Kernel
    <2> QED
      BY <1>1, <2>1, RuledOps, TaskKeepsRule
  <1>5. CASE \/ resume_write(t) \/ resume_add(t) \/ prio_remove(t) \/ prio_write(t)
             \/ prio_store(t) \/ prio_add(t) \/ create_add(t)
    BY <1>2, <1>5 DEF resume_write, resume_add, prio_remove, prio_write,
       prio_store, prio_add, create_add, At, AtomicPC
  <1>6. CASE \E n \in Delays : task_delay(t, n)
    <2>1. PICK n \in Tick : task_delay(t, n)
      BY <1>6, ApiAssumption
    <2>2. /\ \/ sched' = scheduler_yield(sched)
             \/ sched' = scheduler_block_task(sched, "DELAY", NULL, n)
          /\ kstate' = kstate /\ pc' \in [Task -> AtomicPC]
      BY <1>2, <2>1 DEF task_delay, Kernel, Goto
    <2>3. Ruled(sched') /\ sched'.cur = sched.cur
      BY <1>1, <2>2, RuledOps, RuledBlock, DelayArgs
    <2> QED
      BY <2>2, <2>3, TaskKeepsRule
  <1>7. CASE \E x \in App : task_suspend(t, x) \/ task_delete(t, x)
    <2>1. PICK x \in App : task_suspend(t, x) \/ task_delete(t, x)
      BY <1>7
    <2>2. sched.state[x] # "BLOCKED"
      BY <2>1 DEF task_suspend, task_delete, MayStop
    <2>3. /\ \/ sched' = stop_task(sched, x, "SUSPENDED")
             \/ sched' = stop_task(sched, x, "DELETED")
          /\ kstate' = kstate /\ pc' \in [Task -> AtomicPC]
      BY <1>2, <2>1 DEF task_suspend, task_delete, Kernel, Goto
    <2>4. Ruled(sched') /\ sched'.cur = sched.cur
      BY <1>1, <2>2, <2>3, RuledStop
    <2> QED
      BY <2>3, <2>4, TaskKeepsRule
  <1>8. CASE \E x \in App : unblock_task_call(t, x)
    <2>1. PICK x \in App : unblock_task_call(t, x)
      BY <1>8
    <2>2. /\ sched' = scheduler_unblock_task(sched, x, "OK") /\ kstate' = kstate
          /\ pc' \in [Task -> AtomicPC] /\ "OK" \in Result
      BY <1>2, <2>1 DEF unblock_task_call, Kernel, Result
    <2>3. Ruled(sched') /\ sched'.cur = sched.cur
      BY <1>1, <2>2, RuledOps
    <2> QED
      BY <2>2, <2>3, TaskKeepsRule
  <1>9. CASE \/ \E x \in App : task_resume(t, x)
             \/ \E x \in App, p \in Prio : task_set_priority(t, x, p) \/ task_create_call(t, x, p)
    BY <1>9 DEF task_resume, task_set_priority, task_create_call
  <1> QED
    BY <1>3, <1>4, <1>5, <1>6, <1>7, <1>8, <1>9, Direct(t) DEF Direct

LEMMA SvcRule ==
    ASSUME ~Racy, RuleInv, NEW t \in App, Svc(t)
    PROVE  RuleInv'
  <1>1. /\ kstate = "RUNNING" /\ scan.job = "none" /\ Ruled(sched)
        /\ sched.cur = t /\ sched.state[t] # "BLOCKED"
    BY Stepping
  <1>2. /\ pc \in [Task -> AtomicPC] /\ t \in Task /\ "run" \in AtomicPC
        /\ App \subseteq Task
    BY AppTask DEF RuleInv, AtomicPC
  <1>3. CASE svc_suspend(t)
    <2>1. /\ sched' = scheduler_yield(stop_task(sched, t, "SUSPENDED"))
          /\ kstate' = kstate /\ pc' = pc
      BY <1>3 DEF svc_suspend, Kernel
    <2>2. PICK a : a = stop_task(sched, t, "SUSPENDED")
      OBVIOUS
    <2>3. Ruled(a) /\ a.cur = sched.cur
      BY <1>1, <2>2, RuledStop
    <2>4. Ruled(sched') /\ sched'.cur = a.cur
      BY <2>1, <2>2, <2>3, RuledOps
    <2> QED
      BY <1>2, <2>1, <2>3, <2>4, TaskKeepsRule
  <1>4. CASE svc_delete(t)
    BY <1>4 DEF svc_delete
  <1>5. CASE \E n \in Delays : svc_delay(t, n)
    <2>1. PICK n \in Tick : svc_delay(t, n)
      BY <1>5, ApiAssumption
    <2>2. PICK a : a = scheduler_block_task(sched, "DELAY", NULL, n)
      OBVIOUS
    <2>3. sched' = scheduler_yield(a) /\ kstate' = kstate /\ pc' = pc
      BY <2>1, <2>2 DEF svc_delay, Kernel
    <2>4. Ruled(a) /\ a.cur = sched.cur
      BY <1>1, <2>2, RuledBlock, DelayArgs
    <2>5. Ruled(sched') /\ sched'.cur = a.cur
      BY <2>3, <2>4, RuledOps
    <2> QED
      BY <1>2, <2>3, <2>4, <2>5, TaskKeepsRule
  <1>6. CASE \E x \in App : svc_resume(t, x)
    <2>1. PICK x \in App : svc_resume(t, x)
      BY <1>6
    <2>2. /\ sched' = scheduler_add_task(sched, x) /\ kstate' = kstate /\ pc' = pc
          /\ sched.state[x] = "SUSPENDED"
      BY <2>1 DEF svc_resume, Kernel
    <2>3. Ruled(sched') /\ sched'.cur = sched.cur
      BY <1>1, <2>2, RuledAdd
    <2> QED
      BY <1>2, <2>2, <2>3, TaskKeepsRule
  <1>7. CASE \E x \in App, p \in Prio : svc_priority(t, x, p)
    <2>1. PICK x \in App, p \in Prio : svc_priority(t, x, p)
      BY <1>7
    <2>2. sched' = scheduler_set_priority(sched, x, p) /\ kstate' = kstate /\ pc' = pc
      BY <2>1 DEF svc_priority, Kernel
    <2>3. Ruled(sched') /\ sched'.cur = sched.cur
      BY <1>1, <2>2, RuledOps
    <2> QED
      BY <1>2, <2>2, <2>3, TaskKeepsRule
  <1>8. CASE \E x \in App, p \in Prio : svc_create(t, x, p)
    <2>1. PICK x \in App, p \in Prio : svc_create(t, x, p)
      BY <1>8
    <2>2. /\ sched' = task_create(sched, x, p) /\ kstate' = kstate
          /\ pc' = [pc EXCEPT ![x] = "run"]
          /\ sched.state[x] \in {"UNUSED", "DELETED"}
      BY <2>1 DEF svc_create, Kernel, Return, Goto, MayCreate
    <2>3. pc' \in [Task -> AtomicPC]
      BY <1>2, <2>2
    <2>4. Ruled(sched') /\ sched'.cur = sched.cur
      BY <1>1, <2>2, RuledCreate
    <2> QED
      BY <2>2, <2>3, <2>4, TaskKeepsRule
  <1> QED
    BY <1>3, <1>4, <1>5, <1>6, <1>7, <1>8, Svc(t) DEF Svc
LEMMA BootRule ==
    ASSUME RuleInv, Boot
    PROVE  RuleInv'
  <1>0. Base' /\ Base
    BY NextBase DEF RuleInv, Next
  <1>1. CASE kernel_init
    <2>1. /\ sched = scheduler_init /\ scan = NoScan
          /\ sched' = task_create(sched, Idle, MaxPriority - 1)
          /\ kstate' = "INIT" /\ scan' = scan /\ pc' = pc
      BY <1>1 DEF kernel_init, RuleInv
    <2>2. /\ sched \in SchedState /\ sched.state[Idle] = "UNUSED" /\ Idle \in Task
          /\ MaxPriority - 1 \in Prio /\ sched.cur = NULL
      BY <1>0, <2>1, ConstantsAssumption, AppTask
      DEF scheduler_init, Base, TypeOK, Prio
    <2>3. Placed(sched)
      <3>1. /\ \A l \in List : sched.list[l] = <<>>
            /\ \A x \in Task : sched.state[x] = "UNUSED"
            /\ ~sched.broken
        BY <2>1 DEF scheduler_init
      <3>2. \A x \in Task, l \in List : ~On(sched, x, l)
        BY <3>1 DEF On
      <3>3. \A x \in Task : sched.priority[x] \in List
        BY <2>2, PrioInList DEF SchedState
      <3>4. \A x \in Task : StateTells(sched, x)
        BY <3>1, <3>2, <3>3, PrioInList DEF StateTells
      <3>5. Intact(sched)
        BY <1>0, <3>1 DEF Base, ListsSound, Sound, Intact
      <3> QED
        BY <3>4, <3>5 DEF Placed
    <2>4. /\ sched' \in SchedState /\ SameRun(sched', sched) /\ Placed(sched')
          /\ sched'.state[Idle] = "READY" /\ WaitersBlocked(sched')
      <3>1. WaitersBlocked(sched)
        BY <2>1 DEF WaitersBlocked, scheduler_init
      <3> QED
        BY <2>1, <2>2, <2>3, <3>1, CreatePlaced
    <2>5. Ruled(sched')
      BY <2>2, <2>4 DEF Ruled, Runnable, LeavesWhenBlocked, SameRun
    <2> QED
      BY <1>0, <2>1, <2>5 DEF RuleInv, LoopVisitsBlocked, NoScan
  <1>2. CASE \E x \in App, p \in Prio : main_create(x, p)
    <2>1. PICK x \in App, p \in Prio : main_create(x, p)
      BY <1>2
    <2>2. /\ sched.state[x] = "UNUSED" /\ sched' = task_create(sched, x, p)
          /\ Ruled(sched) /\ kstate = "INIT" /\ kstate' = kstate
          /\ scan' = scan /\ pc' = pc /\ scan = NoScan
      BY <2>1 DEF main_create, Created, RuleInv
    <2>3. Ruled(sched')
      BY <2>2, RuledCreate
    <2> QED
      BY <1>0, <2>2, <2>3 DEF RuleInv, LoopVisitsBlocked, NoScan
  <1>3. CASE kernel_start
    BY <1>0, <1>3 DEF kernel_start, RuleInv, LoopVisitsBlocked
  <1>4. CASE scheduler_start
    <2>1. /\ Ruled(sched) /\ sched \in SchedState /\ Placed(sched)
          /\ scan.job = "none" /\ scan' = scan /\ pc' = pc /\ kstate' = "RUNNING"
      BY <1>4 DEF scheduler_start, Unmasked, RuleInv, Ruled
    <2>2. PICK first \in Task : /\ first = scheduler_get_next(sched) /\ first # NULL
                                /\ sched' = [sched EXCEPT !.cur = first,
                                             !.state[first] = "RUNNING",
                                             !.slice[first] = TimeSlice]
      BY <1>4, <2>1, GetNextLemma DEF scheduler_start
    <2>3. sched.state[first] \in {"READY", "RUNNING"}
      BY <2>1, <2>2, GetNextLemma
    <2>4. PICK S : S = [sched.state EXCEPT ![first] = "RUNNING"]
      OBVIOUS
    <2>5. PICK N : N = [sched.slice EXCEPT ![first] = TimeSlice]
      OBVIOUS
    <2>6. sched' = [sched EXCEPT !.cur = first, !.state = S, !.slice = N]
      BY <2>2, <2>4, <2>5
    <2>7. /\ SameLists(sched', sched) /\ sched'.priority = sched.priority
          /\ sched'.state = S /\ sched'.cur = first /\ SameWaits(sched', sched)
      BY <2>1, <2>6 DEF SchedState, SameLists, SameWaits
    <2>8. \A x \in Task : S[x] = IF x = first THEN "RUNNING" ELSE sched.state[x]
      BY <2>1, <2>4 DEF SchedState
    <2>9. Placed(sched')
      <3>1. \A x \in Task : \/ S[x] = sched.state[x]
                            \/ {S[x], sched.state[x]} = {"READY", "RUNNING"}
        BY <2>3, <2>8
      <3> QED
        BY <2>1, <2>7, <3>1, PlacedKept
    <2>10. S[Idle] \in Runnable /\ S[first] = "RUNNING"
      BY <2>1, <2>8, AppTask DEF Ruled, Runnable
    <2>11. WaitersBlocked(sched')
      BY <2>1, <2>3, <2>7, <2>8, WaitersKept DEF Ruled
    <2>12. Ruled(sched')
      BY <1>0, <2>7, <2>9, <2>10, <2>11 DEF Ruled, LeavesWhenBlocked, Base, TypeOK
    <2> QED
      BY <1>0, <2>1, <2>2, <2>7, <2>12 DEF RuleInv, LoopVisitsBlocked
  <1> QED
    BY <1>1, <1>2, <1>3, <1>4, Boot DEF Boot

(***************************************************************************)
(* The loops over the blocked list, of the tick and of                     *)
(* scheduler_unblock_all.                                                  *)
(***************************************************************************)
LEMMA LoopBegins ==
    ASSUME NEW s, Ruled(s), NEW q, q = s.list[BlockedList]
    PROVE  /\ Visits(s, q)
           /\ \A x \in Task : s.state[x] = "BLOCKED" => \E i \in DOMAIN q : q[i] = x
  <1>1. s \in SchedState /\ Placed(s)
    BY DEF Ruled
  <1>2. q \in Seq(Task)
    BY <1>1, PrioInList DEF SchedState
  <1>3. \A i \in DOMAIN q : q[i] \in Task
    BY <1>2, ElementOfSeq, LenProperties
  <1>4. \A x \in Task : s.state[x] = "BLOCKED" <=> \E i \in DOMAIN q : q[i] = x
    BY <1>1 DEF Placed, StateTells, On
  <1>5. \A i, j \in DOMAIN q : q[i] = q[j] => i = j
    BY <1>1, PrioInList DEF Placed, Intact, LinkedOnce
  <1> QED
    BY <1>2, <1>3, <1>4, <1>5 DEF Visits

LEMMA TailProps ==
    ASSUME NEW q \in Seq(Task), q # <<>>
    PROVE  /\ Head(q) \in Task /\ Head(q) = q[1] /\ 1 \in DOMAIN q
           /\ Tail(q) \in Seq(Task)
           /\ \A i \in DOMAIN Tail(q) :
                 /\ i \in Int /\ i + 1 \in DOMAIN q /\ i + 1 # 1
                 /\ Tail(q)[i] = q[i + 1]
           /\ \A i \in DOMAIN q : i # 1 => i \in Int /\ i - 1 \in DOMAIN Tail(q)
  <1>1. Tail(q) = Without(q, 1) /\ 1 \in DOMAIN q
    BY TailIsWithout
  <1>2. DOMAIN q = 1 .. Len(q) /\ Len(q) \in Nat
    BY LenProperties
  <1>3. /\ Without(q, 1) \in Seq(Task) /\ DOMAIN Without(q, 1) = 1 .. Len(q) - 1
        /\ \A k \in 1 .. Len(q) - 1 :
              Without(q, 1)[k] = IF k < 1 THEN q[k] ELSE q[k + 1]
    BY <1>1, WithoutProps
  <1>4. /\ DOMAIN Tail(q) = 1 .. Len(q) - 1
        /\ \A k \in 1 .. Len(q) - 1 : Tail(q)[k] = q[k + 1]
    BY <1>1, <1>2, <1>3
  <1>5. Head(q) \in Task /\ Head(q) = q[1]
    BY HeadTailProperties
  <1> QED
    BY <1>1, <1>2, <1>3, <1>4, <1>5

\* One iteration, whether it wakes its task or passes on.
LEMMA LoopStep ==
    ASSUME NEW s, Ruled(s), NEW q, q # <<>>, Visits(s, q), NEW t, t = Head(q),
           NEW u \in Result, NEW r, r = s \/ r = MakeReady(s, t, u)
    PROVE  /\ Ruled(r) /\ SameRun(r, s) /\ Visits(r, Tail(q))
           /\ t \in Task /\ s.state[t] = "BLOCKED"
           /\ \A x \in Task \ {t} : r.state[x] = s.state[x]
           /\ \A i \in DOMAIN q : q[i] # t => \E j \in DOMAIN Tail(q) : Tail(q)[j] = q[i]
  <1>0. q \in Seq(Task) /\ s \in SchedState /\ Placed(s) /\ WaitersBlocked(s)
    BY DEF Visits, Ruled
  <1>1. /\ t \in Task /\ t = q[1] /\ 1 \in DOMAIN q /\ Tail(q) \in Seq(Task)
        /\ \A i \in DOMAIN Tail(q) : /\ i \in Int /\ i + 1 \in DOMAIN q /\ i + 1 # 1
                                     /\ Tail(q)[i] = q[i + 1]
        /\ \A i \in DOMAIN q : i # 1 => i \in Int /\ i - 1 \in DOMAIN Tail(q)
    BY <1>0, TailProps
  <1>2. t \in Task /\ s.state[t] = "BLOCKED" /\ t # Idle
    BY <1>1 DEF Visits, Ruled, Runnable
  <1>3. /\ r \in SchedState /\ Placed(r) /\ SameRun(r, s)
        /\ \A x \in Task \ {t} : r.state[x] = s.state[x]
        /\ WaitersBlocked(r)
    <2>1. CASE r = s
      BY <1>0, <2>1 DEF SameRun
    <2>2. CASE r = MakeReady(s, t, u)
      <3>1. /\ r \in SchedState /\ Placed(r) /\ SameRun(r, s)
            /\ r.state = [s.state EXCEPT ![t] = "READY"] /\ WaitOver(r, s, t, u)
        BY <1>0, <1>2, <2>2, MakeReadyLemma, MakeReadyWaits
      <3>2. \A x \in Task \ {t} : r.state[x] = s.state[x]
        BY <1>0, <3>1 DEF SchedState
      <3>3. WaitersBlocked(r)
        BY <1>0, <1>2, <3>1, <3>2, WaiterLeft
      <3> QED
        BY <3>1, <3>2, <3>3
    <2> QED
      BY <2>1, <2>2
  <1>4. Ruled(r)
    <2>1. r.state[Idle] \in Runnable
      BY <1>2, <1>3, AppTask DEF Ruled
    <2>2. \A y \in Task : r.state[y] = "BLOCKED" => s.state[y] = "BLOCKED"
      BY <1>2, <1>3
    <2> QED
      BY <1>3, <2>1, <2>2, RuledChange DEF SameRun
  <1>5. Visits(r, Tail(q))
    <2>1. \A i \in DOMAIN Tail(q) : q[i + 1] \in Task \ {t} /\ s.state[q[i + 1]] = "BLOCKED"
      BY <1>1 DEF Visits
    <2>2. \A i \in DOMAIN Tail(q) : Tail(q)[i] \in Task /\ r.state[Tail(q)[i]] = "BLOCKED"
      BY <1>1, <1>3, <2>1
    <2>3. ASSUME NEW i \in DOMAIN Tail(q), NEW j \in DOMAIN Tail(q), Tail(q)[i] = Tail(q)[j]
          PROVE  i = j
      <3>1. i + 1 = j + 1 /\ i \in Int /\ j \in Int
        BY <1>1, <2>3 DEF Visits
      <3> QED
        BY <3>1
    <2> QED
      BY <1>1, <2>2, <2>3 DEF Visits
  <1>6. ASSUME NEW i \in DOMAIN q, q[i] # t
        PROVE  \E j \in DOMAIN Tail(q) : Tail(q)[j] = q[i]
    <2>1. i \in Int /\ i - 1 \in DOMAIN Tail(q)
      BY <1>1, <1>6
    <2>2. Tail(q)[i - 1] = q[(i - 1) + 1] /\ (i - 1) + 1 = i
      BY <1>1, <2>1
    <2> QED
      BY <2>1, <2>2
  <1> QED
    BY <1>1, <1>2, <1>3, <1>4, <1>5, <1>6

LEMMA ExceptionRule ==
    ASSUME RuleInv, Exception
    PROVE  RuleInv'
  <1>0. /\ Base' /\ sched \in SchedState /\ sched' \in SchedState /\ scan \in ScanState
    BY NextBase DEF RuleInv, Next, Base, TypeOK
  <1>1. /\ kstate \notin {"UNINIT", "INIT"} /\ Ruled(sched)
        /\ kstate' = kstate /\ pc' = pc
    BY Exception DEF Exception, SysTick, TickScan, TickEnd, PendSV, InterruptsOn,
       tick_scan, tick_end, RuleInv, NoScan
  <1>2. ASSUME Ruled(sched'), LoopVisitsBlocked', sched'.cur = sched.cur \/ sched'.cur # NULL
        PROVE  RuleInv'
    BY <1>0, <1>1, <1>2 DEF RuleInv
  <1>3. CASE SysTick
    <2>1. /\ sched'.state = sched.state /\ sched'.list = sched.list
          /\ sched'.cur = sched.cur /\ sched'.pendsv = sched.pendsv
          /\ sched'.priority = sched.priority /\ SameLists(sched', sched)
          /\ sched'.reason = sched.reason
      BY <1>0, <1>3 DEF SysTick, scheduler_tick, SchedState, SameLists
    <2>2. Placed(sched')
      BY <1>1, <2>1, PlacedKept DEF Ruled
    <2>3. Ruled(sched')
      BY <1>0, <1>1, <2>1, <2>2, RuledChange DEF Ruled, WaitersBlocked
    <2>4. Visits(sched', sched.list[BlockedList])
      <3>1. Visits(sched, sched.list[BlockedList])
        BY <1>1, LoopBegins
      <3> QED
        BY <2>1, <3>1 DEF Visits
    <2>5. scan'.rest = sched.list[BlockedList]
      BY <1>3 DEF SysTick, scheduler_tick, NoScan
    <2> QED
      BY <1>2, <2>1, <2>3, <2>4, <2>5 DEF LoopVisitsBlocked
  <1>4. CASE TickScan
    <2>1. scan.job # "none" /\ scan.rest # <<>> /\ Visits(sched, scan.rest)
      BY <1>4 DEF TickScan, tick_scan, RuleInv, LoopVisitsBlocked
    <2>2. PICK t : t = Head(scan.rest)
      OBVIOUS
    <2>3. t \in Task
      BY <2>1, <2>2, TailProps DEF Visits
    <2>4. PICK u : u = IF sched.reason[t] = "DELAY" THEN sched.result[t] ELSE "TIMEOUT"
      OBVIOUS
    <2>5. u \in Result
      BY <1>0, <2>3, <2>4 DEF SchedState, Result
    <2>6. sched' = sched \/ sched' = MakeReady(sched, t, u)
      BY <1>4, <2>2, <2>4 DEF TickScan, tick_scan
    <2>7. Ruled(sched') /\ SameRun(sched', sched) /\ Visits(sched', Tail(scan.rest))
      BY <1>1, <2>1, <2>2, <2>5, <2>6, LoopStep
    <2>8. scan'.rest = Tail(scan.rest)
      BY <1>0, <1>4 DEF TickScan, tick_scan, ScanState
    <2> QED
      BY <1>2, <2>7, <2>8 DEF LoopVisitsBlocked, SameRun
  <1>5. CASE TickEnd
    <2>1. PICK a : a = charge_slice(sched)
      OBVIOUS
    <2>2. /\ a \in SchedState /\ a.state = sched.state /\ a.cur = sched.cur
          /\ sched.pendsv => a.pendsv
          /\ Placed(a) /\ SameWaits(a, sched)
      BY <1>0, <1>1, <2>1, ChargeSliceLemma, KeepsWaits, AppTask DEF Ruled
    <2>3. sched' = preempt_check(a) /\ scan' = NoScan
      BY <1>5, <2>1 DEF TickEnd, tick_end
    <2>4. /\ SameRun(sched', a) /\ sched'.state = a.state /\ Placed(sched')
          /\ SameWaits(sched', a)
      BY <2>2, <2>3, PreemptCheckLemma, TriggerWaits
    <2>5. Ruled(sched') /\ sched'.cur = sched.cur
      <3>1. WaitersBlocked(sched')
        BY <1>1, <2>2, <2>4, WaitsTrans, WaitersKept DEF Ruled
      <3> QED
        BY <1>0, <1>1, <2>2, <2>4, <3>1, RuledChange DEF SameRun, Ruled
    <2> QED
      BY <1>2, <2>3, <2>5 DEF LoopVisitsBlocked, NoScan
  <1>6. CASE PendSV
    <2>1. PICK next : next = scheduler_get_next(sched)
      OBVIOUS
    <2>2. /\ sched'.cur = next /\ sched'.state = sched.state
          /\ sched'.priority = sched.priority /\ SameLists(sched', sched)
          /\ scan' = scan /\ scan.job = "none" /\ sched'.reason = sched.reason
      BY <1>0, <1>6, <2>1
      DEF PendSV, PendSV_Handler, Unmasked, SchedState, SameLists
    <2>3. Placed(sched')
      BY <1>1, <2>2, PlacedKept DEF Ruled
    <2>4. next # NULL /\ sched.state[next] \in {"READY", "RUNNING"}
      BY <1>0, <1>1, <2>1, GetNextLemma, AppTask DEF Ruled, Runnable
    <2>5. Ruled(sched')
      BY <1>0, <1>1, <2>2, <2>3, <2>4 
      DEF Ruled, LeavesWhenBlocked, WaitersBlocked
    <2> QED
      BY <1>2, <2>2, <2>4, <2>5 DEF LoopVisitsBlocked
  <1> QED
    BY <1>3, <1>4, <1>5, <1>6, Exception DEF Exception

LEMMA NextRule ==
    ASSUME ~Racy
    PROVE  RuleInv /\ [Next]_vars => RuleInv'
  <1> SUFFICES ASSUME RuleInv, [Next]_vars PROVE RuleInv'
    OBVIOUS
  <1>1. CASE Boot
    BY <1>1, BootRule
  <1>2. CASE Exception
    BY <1>2, ExceptionRule
  <1>3. ASSUME NEW t \in App, Direct(t) \/ Svc(t)
        PROVE  RuleInv'
    BY <1>3, DirectRule, SvcRule
  <1>4. CASE UNCHANGED vars
    <2>1. Base'
      BY NextBase DEF RuleInv
    <2> QED
      BY <1>4, <2>1 DEF vars, RuleInv, LoopVisitsBlocked
  <1> QED
    BY <1>1, <1>2, <1>3, <1>4 DEF Next

THEOREM RuleInvariant ==
    ASSUME ~Racy
    PROVE  Spec => []RuleInv
  BY InitRule, NextRule, PTL DEF Spec

\* What the invariant says of the lists and of the running task; the modules
\* that build on the task API cite it too.
LEMMA RuleKeepsLists == RuleInv => ListsIntact /\ StateTellsList /\ SomeTaskRuns
  <1>1. kstate = "UNINIT" /\ RuleInv => StateTellsList
    <2> SUFFICES ASSUME RuleInv, kstate = "UNINIT", NEW x \in Task
                 PROVE  StateTells(sched, x)
      BY DEF StateTellsList
    <2>1. /\ \A l \in List : sched.list[l] = <<>>
          /\ sched.state[x] = "UNUSED" /\ sched.priority[x] = 0
      BY DEF RuleInv, scheduler_init
    <2>2. 0 \in List
      BY ConstantsAssumption DEF List
    <2>3. \A l \in List : ~On(sched, x, l)
      BY <2>1 DEF On
    <2> QED
      BY <2>1, <2>2, <2>3, PrioInList DEF StateTells
  <1>2. kstate # "UNINIT" /\ RuleInv => StateTellsList
    BY DEF RuleInv, Ruled, Placed, StateTellsList
  <1>3. RuleInv => ListsIntact
    BY DEF RuleInv, Ruled, Placed, Intact, ListsIntact, scheduler_init
  <1>4. RuleInv => SomeTaskRuns
    BY DEF RuleInv, SomeTaskRuns
  <1> QED
    BY <1>1, <1>2, <1>3, <1>4

\* Under the usage rules no call ever corrupts a list.
THEOREM ListsStayIntact ==
    ASSUME ~Racy
    PROVE  Spec => []ListsIntact
  BY RuleKeepsLists, RuleInvariant, PTL

\* Under the usage rules the state field of a TCB always tells on which list
\* the task is, also between two iterations of the tick's loop.
THEOREM StateAlwaysTellsList ==
    ASSUME ~Racy
    PROVE  Spec => []StateTellsList
  BY RuleKeepsLists, RuleInvariant, PTL

\* Under the usage rules PendSV_Handler never finds the ready lists empty: a
\* task is always running.
THEOREM SomeTaskAlwaysRuns ==
    ASSUME ~Racy
    PROVE  Spec => []SomeTaskRuns
  BY RuleKeepsLists, RuleInvariant, PTL

\* An iteration of the tick's loop changes the state of blocked tasks only.
LEMMA TickScanTouches ==
    ASSUME RuleInv, TickScan
    PROVE  \A x \in Task : sched.state[x] # "BLOCKED" => sched'.state[x] = sched.state[x]
  <1>0. sched \in SchedState /\ Ruled(sched)
    BY DEF RuleInv, Base, TypeOK, TickScan, tick_scan, NoScan
  <1>1. scan.rest # <<>> /\ Visits(sched, scan.rest)
    BY DEF TickScan, tick_scan, RuleInv, LoopVisitsBlocked
  <1>2. PICK t \in Task : t = Head(scan.rest)
    BY <1>1, TailProps DEF Visits
  <1>3. PICK u : u = IF sched.reason[t] = "DELAY" THEN sched.result[t] ELSE "TIMEOUT"
    OBVIOUS
  <1>4. u \in Result
    BY <1>0, <1>3 DEF SchedState, Result
  <1>5. sched' = sched \/ sched' = MakeReady(sched, t, u)
    BY <1>2, <1>3 DEF TickScan, tick_scan
  <1> QED
    BY <1>0, <1>1, <1>2, <1>4, <1>5, LoopStep

\* Under the usage rules no tick revives a suspended or deleted task, however
\* its suspension interleaves with the expiry of its delay.
THEOREM TickNeverRevives ==
    ASSUME ~Racy
    PROVE  Spec => TickSparesStopped
  <1> DEFINE Spares == scan.job = "tick" =>
                 \A t \in Task : sched.state[t] \in {"SUSPENDED", "DELETED"}
                                     => sched'.state[t] = sched.state[t]
  <1>1. RuleInv /\ [Next]_vars => [Spares]_vars
    <2> SUFFICES ASSUME RuleInv, Next, scan.job = "tick", NEW t \in Task,
                        sched.state[t] \in {"SUSPENDED", "DELETED"}
                 PROVE  sched'.state[t] = sched.state[t]
      OBVIOUS
    <2>1. kstate \notin {"UNINIT", "INIT"}
      BY DEF RuleInv, NoScan
    <2>2. ASSUME NEW x \in App, Direct(x) \/ Svc(x) PROVE FALSE
      BY <2>2, Stepping
    <2>3. CASE Boot
      BY <2>1, <2>3 DEF Boot, kernel_init, kernel_start, main_create, scheduler_start,
         Unmasked
    <2>4. CASE SysTick \/ PendSV
      BY <2>4 DEF SysTick, scheduler_tick, PendSV, PendSV_Handler, Unmasked
    <2>5. CASE TickScan
      BY <2>5, TickScanTouches
    <2>6. CASE TickEnd
      <3>1. sched \in SchedState
        BY DEF RuleInv, Base, TypeOK
      <3>2. PICK a : a = charge_slice(sched)
        OBVIOUS
      <3>3. a \in SchedState /\ a.state = sched.state
        BY <3>1, <3>2, ChargeSliceLemma
      <3>4. sched' = preempt_check(a)
        BY <2>6, <3>2 DEF TickEnd, tick_end
      <3>5. sched'.state = a.state
        BY <3>3, <3>4, PreemptCheckLemma
      <3> QED
        BY <3>3, <3>5
    <2> QED
      BY <2>2, <2>3, <2>4, <2>5, <2>6 DEF Next, Exception
  <1> QED
    BY <1>1, RuleInvariant, PTL DEF TickSparesStopped, Spec
-----------------------------------------------------------------------------
(***************************************************************************)
(* A task that has stopped itself does not go on.  The running task may be *)
(* off the ready lists only while a switch is pending, or put off by       *)
(* scheduler_lock, or about to be asked for by the call the task is in.    *)
(***************************************************************************)
Leaving(s) == s.state[s.cur] \in Runnable \/ s.pendsv \/ s.resched

StoppedLeaves ==
    kstate = "RUNNING" => Leaving(sched) \/ pc[sched.cur] \in {"suspending", "deleting"}

StopInv == RuleInv /\ StoppedLeaves

LEMMA LeavingKept ==
    ASSUME NEW s, Leaving(s), NEW r, SameRun(r, s),
           r.state[s.cur] = s.state[s.cur] \/ r.state[s.cur] \in Runnable
    PROVE  Leaving(r)
  BY DEF Leaving, SameRun

\* scheduler_yield asks for the switch, now or when the lock is released.
LEMMA YieldLeaves ==
    ASSUME NEW s \in SchedState, s.cur # NULL
    PROVE  Leaving(scheduler_yield(s)) /\ scheduler_yield(s).cur = s.cur
  <1>1. CASE s.lock > 0
    <2>1. scheduler_yield(s) = [s EXCEPT !.resched = TRUE]
      BY <1>1 DEF scheduler_yield
    <2> QED
      BY <2>1 DEF Leaving, SchedState
  <1>2. CASE ~(s.lock > 0)
    <2>1. PICK a : a = Rotate(s)
      OBVIOUS
    <2>2. a \in SchedState /\ a.cur = s.cur
      BY <2>1, RotateLemma DEF SameFields
    <2>3. scheduler_yield(s) = scheduler_trigger_switch(a)
      BY <1>2, <2>1 DEF scheduler_yield
    <2> QED
      BY <2>2, <2>3, TriggerLemma DEF Leaving, SameRun
  <1> QED
    BY <1>1, <1>2

\* Every other operation of a call, but stopping the caller, leaves it to go.
LEMMA CallsLeave ==
    ASSUME NEW s, Ruled(s), NEW t \in App, s.cur = t, Leaving(s), NEW x \in App, NEW r,
           \/ r = scheduler_lock(s) \/ r = scheduler_unlock(s)
           \/ r = scheduler_unblock_task(s, x, "OK")
           \/ r = scheduler_add_task(s, x)
           \/ \E st \in {"SUSPENDED", "DELETED"} :
                 x # t /\ s.state[x] # "BLOCKED" /\ r = stop_task(s, x, st)
           \/ \E p \in Prio : r = scheduler_set_priority(s, x, p)
           \/ \E p \in Prio : s.state[x] \in {"UNUSED", "DELETED"} /\ x # t
                                  /\ r = task_create(s, x, p)
    PROVE  Leaving(r) /\ r.cur = t
  <1>0. /\ s \in SchedState /\ Placed(s) /\ x \in Task /\ t \in Task /\ "OK" \in Result
        /\ {"SUSPENDED", "DELETED"} \subseteq TaskState
    BY AppTask DEF Ruled, Result, TaskState
  <1>1. CASE r = scheduler_lock(s) \/ r = scheduler_unlock(s)
    <2>1. CASE r.resched = s.resched
      <3>1. r.cur = s.cur /\ r.state = s.state /\ r.pendsv = s.pendsv
        BY <1>0, <1>1, <2>1 DEF scheduler_lock, scheduler_unlock, SchedState
      <3> QED
        BY <2>1, <3>1 DEF Leaving
    <2>2. CASE r.resched # s.resched
      <3>1. r.cur = s.cur /\ r.pendsv
        BY <1>0, <1>1, <2>2 DEF scheduler_lock, scheduler_unlock, SchedState
      <3> QED
        BY <3>1 DEF Leaving
    <2> QED
      BY <2>1, <2>2
  <1>2. CASE r = scheduler_unblock_task(s, x, "OK")
    <2>1. /\ SameRun(r, s)
          /\ \A y \in Task : r.state[y] = s.state[y] \/ r.state[y] = "READY"
      BY <1>0, <1>2, UnblockTaskLemma
    <2> QED
      BY <1>0, <2>1, LeavingKept DEF SameRun, Runnable
  <1>3. CASE r = scheduler_add_task(s, x)
    <2>1. SameRun(r, s) /\ r.state = [s.state EXCEPT ![x] = "READY"]
      BY <1>0, <1>3, AddLemma
    <2>2. r.state[t] = s.state[t] \/ r.state[t] = "READY"
      BY <1>0, <2>1 DEF SchedState
    <2> QED
      BY <2>1, <2>2, LeavingKept DEF SameRun, Runnable
  <1>4. ASSUME NEW st \in {"SUSPENDED", "DELETED"}, x # t, s.state[x] # "BLOCKED",
               r = stop_task(s, x, st)
        PROVE  Leaving(r) /\ r.cur = t
    <2>1. PICK a : a = scheduler_remove_task(s, x)
      OBVIOUS
    <2>2. a \in SchedState /\ SameRun(a, s) /\ a.state = s.state
      BY <1>0, <2>1, RemoveTaskLemma, FieldsFrame
    <2>3. SameRun(r, a) /\ r.state[t] = a.state[t]
      BY <1>0, <1>4, <2>1, <2>2 DEF stop_task, SchedState, SameRun
    <2> QED
      BY <2>2, <2>3, LeavingKept, FrameTrans DEF SameRun
  <1>5. ASSUME NEW p \in Prio, r = scheduler_set_priority(s, x, p)
        PROVE  Leaving(r) /\ r.cur = t
    <2>1. /\ SameRun(r, s)
          /\ \A y \in Task : r.state[y] = s.state[y] \/ r.state[y] = "READY"
      BY <1>0, <1>5, SetPriorityLemma
    <2> QED
      BY <1>0, <2>1, LeavingKept DEF SameRun, Runnable
  <1>6. ASSUME NEW p \in Prio, s.state[x] \in {"UNUSED", "DELETED"}, x # t,
               r = task_create(s, x, p)
        PROVE  Leaving(r) /\ r.cur = t
    <2>1. SameRun(r, s) /\ r.state[t] = s.state[t]
      BY <1>0, <1>6, CreatePlaced
    <2> QED
      BY <2>1, LeavingKept DEF SameRun
  <1> QED
    BY <1>1, <1>2, <1>3, <1>4, <1>5, <1>6

LEMMA DirectLeaves ==
    ASSUME ~Racy, StopInv, NEW t \in App, Direct(t)
    PROVE  StoppedLeaves'
  <1>1. /\ kstate = "RUNNING" /\ Ruled(sched) /\ sched \in SchedState
        /\ sched.cur = t /\ t # NULL /\ t \in Task /\ pc \in [Task -> PC]
        /\ pc[t] \in AtomicPC
    BY Stepping, AppTask DEF StopInv, RuleInv, Base, TypeOK
  <1>2. ASSUME Leaving(sched') PROVE StoppedLeaves'
    BY <1>2 DEF StoppedLeaves
  <1>3. ASSUME At(t, "run") PROVE Leaving(sched)
    BY <1>1, <1>3 DEF StopInv, StoppedLeaves, At
  <1>4. CASE \/ task_yield(t) \/ block_return(t) \/ suspend_yield(t) \/ delete_yield(t)
             \/ \E n \in Delays : task_delay(t, n) /\ n = 0
    <2>1. sched' = scheduler_yield(sched)
      BY <1>4 DEF task_yield, block_return, suspend_yield, delete_yield, task_delay, Kernel
    <2> QED
      BY <1>1, <1>2, <2>1, YieldLeaves
  <1>5. CASE \E n \in Delays : task_delay(t, n) /\ n # 0
    <2>1. PICK n \in Tick : sched' = scheduler_block_task(sched, "DELAY", NULL, n)
      BY <1>5, ApiAssumption DEF task_delay, Kernel
    <2>2. sched'.pendsv
      BY <1>1, <2>1, BlockLemma, DelayArgs
    <2> QED
      BY <1>2, <2>2 DEF Leaving
  <1>6. CASE scheduler_lock_call(t) \/ scheduler_unlock_call(t)
    BY <1>1, <1>2, <1>3, <1>6, CallsLeave
    DEF scheduler_lock_call, scheduler_unlock_call, Calling, Kernel
  <1>7. CASE \/ resume_write(t) \/ resume_add(t) \/ prio_remove(t) \/ prio_write(t)
             \/ prio_store(t) \/ prio_add(t) \/ create_add(t)
    BY <1>1, <1>7 DEF resume_write, resume_add, prio_remove, prio_write,
       prio_store, prio_add, create_add, At, AtomicPC
  <1>8. ASSUME NEW x \in App, task_suspend(t, x) \/ task_delete(t, x)
        PROVE  StoppedLeaves'
    <2>1. CASE x # t
      <3>1. /\ At(t, "run") /\ sched.state[x] # "BLOCKED"
            /\ \/ sched' = stop_task(sched, x, "SUSPENDED")
               \/ sched' = stop_task(sched, x, "DELETED")
        BY <1>8 DEF task_suspend, task_delete, Calling, MayStop, Kernel
      <3> QED
        BY <1>1, <1>2, <1>3, <2>1, <3>1, CallsLeave
    <2>2. CASE x = t
      <3>1. /\ sched.state[x] # "BLOCKED"
            /\ \/ sched' = stop_task(sched, x, "SUSPENDED")
               \/ sched' = stop_task(sched, x, "DELETED")
            /\ pc'[t] \in {"suspending", "deleting"}
        BY <1>1, <1>8, <2>2 DEF task_suspend, task_delete, MayStop, Kernel, Goto
      <3>2. sched'.cur = t
        BY <1>1, <3>1, RuledStop
      <3> QED
        BY <3>1, <3>2 DEF StoppedLeaves
    <2> QED
      BY <2>1, <2>2
  <1>9. ASSUME NEW x \in App, unblock_task_call(t, x)
        PROVE  StoppedLeaves'
    BY <1>1, <1>2, <1>3, <1>9, CallsLeave DEF unblock_task_call, Calling, Kernel
  <1>10. CASE \/ \E x \in App : task_resume(t, x)
              \/ \E x \in App, p \in Prio : task_set_priority(t, x, p) \/ task_create_call(t, x, p)
    BY <1>10 DEF task_resume, task_set_priority, task_create_call
  <1> QED
    BY <1>4, <1>5, <1>6, <1>7, <1>8, <1>9, <1>10, Direct(t) DEF Direct

LEMMA SvcLeaves ==
    ASSUME ~Racy, StopInv, NEW t \in App, Svc(t)
    PROVE  StoppedLeaves'
  <1>1. /\ kstate = "RUNNING" /\ Ruled(sched) /\ sched \in SchedState
        /\ sched.cur = t /\ sched.state[t] # "BLOCKED" /\ t # NULL /\ t \in Task
    BY Stepping, AppTask DEF StopInv, RuleInv, Base, TypeOK
  <1>2. ASSUME Leaving(sched') PROVE StoppedLeaves'
    BY <1>2 DEF StoppedLeaves
  <1>3. ASSUME At(t, "run") PROVE Leaving(sched)
    BY <1>1, <1>3 DEF StopInv, StoppedLeaves, At
  <1>4. CASE svc_suspend(t)
    <2>1. PICK a : a = stop_task(sched, t, "SUSPENDED")
      OBVIOUS
    <2>2. a \in SchedState /\ a.cur = t
      BY <1>1, <2>1, RuledStop DEF Ruled
    <2>3. sched' = scheduler_yield(a)
      BY <1>4, <2>1 DEF svc_suspend, Kernel
    <2> QED
      BY <1>1, <1>2, <2>2, <2>3, YieldLeaves
  <1>5. CASE svc_delete(t)
    BY <1>5 DEF svc_delete
  <1>6. CASE \E n \in Delays : svc_delay(t, n)
    <2>1. PICK n \in Tick : svc_delay(t, n)
      BY <1>6, ApiAssumption
    <2>2. PICK a : a = scheduler_block_task(sched, "DELAY", NULL, n)
      OBVIOUS
    <2>3. a \in SchedState /\ a.cur = t
      BY <1>1, <2>2, BlockLemma, DelayArgs DEF SameRun
    <2>4. sched' = scheduler_yield(a)
      BY <2>1, <2>2 DEF svc_delay, Kernel
    <2> QED
      BY <1>1, <1>2, <2>3, <2>4, YieldLeaves
  <1>7. ASSUME NEW x \in App, svc_resume(t, x)
        PROVE  StoppedLeaves'
    BY <1>1, <1>2, <1>3, <1>7, CallsLeave DEF svc_resume, Calling, Kernel
  <1>8. ASSUME NEW x \in App, NEW p \in Prio, svc_priority(t, x, p)
        PROVE  StoppedLeaves'
    BY <1>1, <1>2, <1>3, <1>8, CallsLeave DEF svc_priority, Calling, Kernel
  <1>9. ASSUME NEW x \in App, NEW p \in Prio, svc_create(t, x, p)
        PROVE  StoppedLeaves'
    BY <1>1, <1>2, <1>3, <1>9, CallsLeave DEF svc_create, Calling, MayCreate, Kernel
  <1> QED
    BY <1>4, <1>5, <1>6, <1>7, <1>8, <1>9, Svc(t) DEF Svc

LEMMA ChargeLeaves ==
    ASSUME NEW s \in SchedState, s.cur # NULL, Leaving(s)
    PROVE  Leaving(charge_slice(s)) /\ charge_slice(s).cur = s.cur
  <1>1. PICK n : n = IF s.slice[s.cur] > 0 THEN s.slice[s.cur] - 1 ELSE 0
    OBVIOUS
  <1>2. \A m \in 0 .. TimeSlice :
           /\ [s EXCEPT !.slice[s.cur] = m] \in SchedState
           /\ [s EXCEPT !.slice[s.cur] = m].cur = s.cur
           /\ Leaving([s EXCEPT !.slice[s.cur] = m])
    BY DEF SchedState, Leaving
  <1>3. n \in 0 .. TimeSlice /\ TimeSlice \in 0 .. TimeSlice
    <2>1. s.cur \in Task
      BY DEF SchedState
    <2>2. s.slice[s.cur] \in 0 .. TimeSlice
      BY <2>1 DEF SchedState
    <2> QED
      BY <1>1, <2>2, ConstantsAssumption
  <1>4. \/ charge_slice(s) = scheduler_yield([s EXCEPT !.slice[s.cur] = TimeSlice])
        \/ charge_slice(s) = [s EXCEPT !.slice[s.cur] = n]
    BY <1>1 DEF charge_slice
  <1> QED
    BY <1>2, <1>3, <1>4, YieldLeaves

LEMMA ExceptionLeaves ==
    ASSUME StopInv, Exception, kstate' = "RUNNING"
    PROVE  StoppedLeaves'
  <1>0. /\ sched \in SchedState /\ scan \in ScanState /\ pc' = pc /\ kstate = "RUNNING"
        /\ Ruled(sched) /\ sched.cur # NULL /\ sched.cur \in Task
    BY DEF StopInv, RuleInv, Base, TypeOK, SchedState, Exception, SysTick, TickScan, TickEnd,
       PendSV
  <1>1. ASSUME Leaving(sched) => Leaving(sched'), sched'.cur = sched.cur
        PROVE  StoppedLeaves'
    BY <1>0, <1>1 DEF StopInv, StoppedLeaves
  <1>2. CASE SysTick
    <2>1. sched'.cur = sched.cur /\ SameRun(sched', sched) /\ sched'.state = sched.state
      BY <1>0, <1>2 DEF SysTick, scheduler_tick, SchedState, SameRun
    <2> QED
      BY <1>1, <2>1, LeavingKept
  <1>3. CASE TickScan
    <2>1. scan.rest # <<>> /\ Visits(sched, scan.rest)
      BY <1>3 DEF TickScan, tick_scan, StopInv, RuleInv, LoopVisitsBlocked
    <2>2. PICK x \in Task : x = Head(scan.rest)
      BY <2>1, TailProps DEF Visits
    <2>3. PICK u \in Result : u = IF sched.reason[x] = "DELAY" THEN sched.result[x] ELSE "TIMEOUT"
      BY <1>0, <2>2 DEF SchedState, Result
    <2>4. sched' = sched \/ sched' = MakeReady(sched, x, u)
      BY <1>3, <2>2, <2>3 DEF TickScan, tick_scan
    <2>5. /\ SameRun(sched', sched)
          /\ sched'.state = sched.state \/ sched'.state = [sched.state EXCEPT ![x] = "READY"]
      BY <1>0, <2>4, MakeReadyLemma DEF SameRun
    <2>6. sched'.state[sched.cur] = sched.state[sched.cur] \/ sched'.state[sched.cur] = "READY"
      BY <1>0, <2>5 DEF SchedState
    <2> QED
      BY <1>1, <2>5, <2>6, LeavingKept DEF SameRun, Runnable
  <1>4. CASE TickEnd
    <2>1. PICK a : a = charge_slice(sched)
      OBVIOUS
    <2>2. a \in SchedState /\ a.cur = sched.cur
      BY <1>0, <2>1, ChargeSliceLemma
    <2>3. SameRun(sched', a) /\ sched'.state = a.state
      BY <1>4, <2>1, <2>2, PreemptCheckLemma DEF TickEnd, tick_end
    <2>4. Leaving(sched) => Leaving(a)
      BY <1>0, <2>1, ChargeLeaves
    <2> QED
      BY <1>1, <2>2, <2>3, <2>4, LeavingKept DEF SameRun
  <1>5. CASE PendSV
    <2>1. PICK next : next = scheduler_get_next(sched)
      OBVIOUS
    <2>2. sched'.cur = next /\ sched'.state = sched.state
      BY <1>0, <1>5, <2>1 DEF PendSV, PendSV_Handler, SchedState
    <2>3. sched.state[next] \in Runnable
      BY <1>0, <2>1, GetNextLemma, AppTask DEF Ruled, Runnable
    <2> QED
      BY <2>2, <2>3 DEF StoppedLeaves, Leaving
  <1> QED
    BY <1>2, <1>3, <1>4, <1>5, Exception DEF Exception

LEMMA StopStep ==
    ASSUME ~Racy
    PROVE  StopInv /\ [Next]_vars => StopInv'
  <1> SUFFICES ASSUME StopInv, [Next]_vars PROVE StopInv'
    OBVIOUS
  <1>0. RuleInv /\ RuleInv'
    BY NextRule DEF StopInv
  <1>1. CASE Boot
    <2>1. CASE kernel_init \/ kernel_start \/ \E x \in App, p \in Prio : main_create(x, p)
      <3>1. kstate' # "RUNNING"
        BY <2>1 DEF kernel_init, kernel_start, main_create
      <3> QED
        BY <1>0, <3>1 DEF StopInv, StoppedLeaves
    <2>2. CASE scheduler_start
      <3>1. PICK first : first = scheduler_get_next(sched)
        OBVIOUS
      <3>2. sched \in SchedState /\ first \in Task
        BY <1>0, <2>2, <3>1, GetNextLemma DEF scheduler_start, RuleInv, Base, TypeOK
      <3>3. sched'.cur = first /\ sched'.state[first] = "RUNNING"
        BY <2>2, <3>1, <3>2 DEF scheduler_start, SchedState
      <3> QED
        BY <1>0, <3>3 DEF StopInv, StoppedLeaves, Leaving, Runnable
    <2> QED
      BY <1>1, <2>1, <2>2 DEF Boot
  <1>2. CASE Exception
    <2>1. ASSUME kstate' # "RUNNING" PROVE StoppedLeaves'
      BY <2>1 DEF StoppedLeaves
    <2> QED
      BY <1>0, <1>2, <2>1, ExceptionLeaves DEF StopInv
  <1>3. ASSUME NEW t \in App, Direct(t) \/ Svc(t)
        PROVE  StopInv'
    BY <1>0, <1>3, DirectLeaves, SvcLeaves DEF StopInv
  <1>4. CASE UNCHANGED vars
    BY <1>0, <1>4 DEF vars, StopInv, StoppedLeaves, Leaving
  <1> QED
    BY <1>1, <1>2, <1>3, <1>4 DEF Next

\* kernel/kernel.c and scheduler.c: with the scheduler unlocked, a task whose
\* state says that it is blocked, suspended or deleted does not execute its own
\* code, for every number of tasks; a switch that a lock had put off is pending
\* by the time the lock is released.
THEOREM StoppedTaskStaysOff ==
    ASSUME ~Racy
    PROVE  Spec => []StoppedTaskIsOff
  <1>1. Init => StopInv
    BY InitRule DEF Init, StopInv, StoppedLeaves
  <1>2. StopInv => StoppedTaskIsOff
    <2> SUFFICES ASSUME StopInv, NEW t \in App, At(t, "run"), sched.lock = 0
                 PROVE  sched.state[t] \in {"READY", "RUNNING"}
      BY DEF StoppedTaskIsOff
    <2>1. kstate = "RUNNING" /\ sched.cur = t /\ ~sched.pendsv /\ pc[t] = "run"
      BY DEF At, Runs
    <2>2. ~sched.resched
      BY DEF StopInv, RuleInv, Base, DeferredYieldKept
    <2> QED
      BY <2>1, <2>2 DEF StopInv, StoppedLeaves, Leaving, Runnable
  <1> QED
    BY <1>1, <1>2, StopStep, PTL DEF Spec

-----------------------------------------------------------------------------
(***************************************************************************)
(* What a call of task t does to the waits of all tasks, under the rules.  *)
(***************************************************************************)
CallEffect(r, s, t) ==
    \/ r = scheduler_yield(s)
    \/ "lock" \in Calls /\ (r = scheduler_lock(s) \/ r = scheduler_unlock(s))
    \/ \E n \in Delays \ {0} :
          \/ r = scheduler_block_task(s, "DELAY", NULL, n)
          \/ r = scheduler_yield(scheduler_block_task(s, "DELAY", NULL, n))
    \/ \E x \in App : "unblock" \in Calls /\ r = scheduler_unblock_task(s, x, "OK")
    \/ \E x \in App : s.state[x] = "SUSPENDED" /\ r = scheduler_add_task(s, x)
    \/ \E x \in App, st \in {"SUSPENDED", "DELETED"} :
          /\ Calls \cap {"suspend", "delete"} # {}
          /\ s.state[x] # "BLOCKED" /\ r = stop_task(s, x, st)
    \/ "suspend" \in Calls /\ r = scheduler_yield(stop_task(s, t, "SUSPENDED"))
    \/ \E x \in App, p \in Prio :
          "priority" \in Calls /\ r = scheduler_set_priority(s, x, p)
    \/ \E x \in App, p \in Prio :
          /\ "create" \in Calls
          /\ s.state[x] \in {"UNUSED", "DELETED"} /\ x # t /\ r = task_create(s, x, p)

LEMMA CallEffects ==
    ASSUME ~Racy, RuleInv, NEW t \in App, Direct(t) \/ Svc(t)
    PROVE  CallEffect(sched', sched, t) /\ scan' = scan
  <1>0. scan' = scan
    BY ControlStep DEF RuleInv
  <1>1. CASE Direct(t)
    <2>1. pc[t] \in AtomicPC
      BY AppTask DEF RuleInv
    <2>2. CASE \/ task_yield(t) \/ block_return(t) \/ suspend_yield(t) \/ delete_yield(t)
               \/ scheduler_lock_call(t) \/ scheduler_unlock_call(t)
      BY <2>2 DEF task_yield, block_return, suspend_yield, delete_yield,
         scheduler_lock_call, scheduler_unlock_call, Calling, Kernel, CallEffect
    <2>3. CASE \/ resume_write(t) \/ resume_add(t) \/ prio_remove(t) \/ prio_write(t)
               \/ prio_store(t) \/ prio_add(t) \/ create_add(t)
      BY <2>1, <2>3 DEF resume_write, resume_add, prio_remove, prio_write,
         prio_store, prio_add, create_add, At, AtomicPC
    <2>4. CASE \E n \in Delays : task_delay(t, n)
      BY <2>4 DEF task_delay, Kernel, CallEffect
    <2>5. CASE \E x \in App : \/ task_suspend(t, x) \/ task_delete(t, x)
                              \/ unblock_task_call(t, x)
      BY <2>5 DEF task_suspend, task_delete, unblock_task_call, Calling, MayStop,
         Kernel, CallEffect
    <2>6. CASE \/ \E x \in App : task_resume(t, x)
               \/ \E x \in App, p \in Prio : \/ task_set_priority(t, x, p)
                                             \/ task_create_call(t, x, p)
      BY <2>6 DEF task_resume, task_set_priority, task_create_call
    <2> QED
      BY <1>0, <1>1, <2>2, <2>3, <2>4, <2>5, <2>6 DEF Direct
  <1>2. CASE Svc(t)
    <2>1. CASE svc_suspend(t) \/ svc_delete(t)
      BY <2>1 DEF svc_suspend, svc_delete, Calling, Kernel, CallEffect
    <2>2. CASE \E n \in Delays : svc_delay(t, n)
      BY <2>2 DEF svc_delay, Kernel, CallEffect
    <2>3. CASE \E x \in App : svc_resume(t, x)
      BY <2>3 DEF svc_resume, Kernel, CallEffect
    <2>4. CASE \E x \in App, p \in Prio : svc_priority(t, x, p) \/ svc_create(t, x, p)
      BY <2>4 DEF svc_priority, svc_create, MayCreate, Calling, Kernel, CallEffect
    <2> QED
      BY <1>0, <1>2, <2>1, <2>2, <2>3, <2>4 DEF Svc
  <1> QED
    BY <1>1, <1>2

SameWait(r, s, y) ==
    /\ r.reason[y] = s.reason[y] /\ r.object[y] = s.object[y]
    /\ r.timeout[y] = s.timeout[y] /\ r.result[y] = s.result[y] /\ r.wake[y] = s.wake[y]
    /\ r.state[y] = "BLOCKED" <=> s.state[y] = "BLOCKED"

\* t goes to sleep; the fields that say until when.
FallsAsleepAt(r, s, t) ==
    /\ s.state[t] # "BLOCKED" /\ r.state[t] = "BLOCKED" /\ r.reason[t] = "DELAY"
    /\ r.object[t] = NULL
    /\ \E n \in Delays \ {0} : r.timeout[t] = n /\ r.wake[t] = wake_tick(s, n)

\* y is ready and waits no more.
Freed(r, y) == r.state[y] = "READY" /\ r.reason[y] = "NONE"

LEMMA CreateWaits ==
    ASSUME NEW s \in SchedState, NEW x \in Task, NEW p \in Prio, NEW r,
           r = task_create(s, x, p)
    PROVE  /\ r.tick = s.tick /\ Freed(r, x)
           /\ \A y \in Task \ {x} : SameWait(r, s, y)
  <1>1. PICK a : a = tcb_init(s, x, p)
    OBVIOUS
  <1>2. /\ a \in SchedState /\ a.reason[x] = "NONE" /\ a.tick = s.tick
        /\ \A y \in Task \ {x} : SameWait(a, s, y)
    BY <1>1, TcbInitLemma, TcbInitWaits DEF SameWait
  <1>3. SameWaits(r, a) /\ r.state = [a.state EXCEPT ![x] = "READY"]
    BY <1>1, <1>2, KeepsWaits, AddLemma DEF task_create
  <1>4. r.tick = s.tick /\ Freed(r, x)
    BY <1>2, <1>3 DEF SameWaits, SchedState, Freed
  <1>5. ASSUME NEW y \in Task \ {x} PROVE SameWait(r, s, y)
    <2>1. r.state[y] = a.state[y]
      BY <1>2, <1>3 DEF SchedState
    <2> QED
      BY <1>2, <1>3, <2>1 DEF SameWaits, SameWait
  <1> QED
    BY <1>4, <1>5

LEMMA EffectOnWaits ==
    ASSUME NEW s, Ruled(s), NEW t \in App, s.cur = t, s.state[t] # "BLOCKED",
           NEW r, CallEffect(r, s, t)
    PROVE  /\ r.tick = s.tick
           /\ \A y \in Task :
                \/ SameWait(r, s, y)
                \/ y = t /\ FallsAsleepAt(r, s, t)
                \/ Freed(r, y) /\ s.state[y] = "BLOCKED" /\ "unblock" \in Calls
                \/ Freed(r, y) /\ s.state[y] \in {"UNUSED", "DELETED"}
  <1> DEFINE P(a) == /\ a.tick = s.tick
                     /\ \A y \in Task :
                          \/ SameWait(a, s, y)
                          \/ y = t /\ FallsAsleepAt(a, s, t)
                          \/ Freed(a, y) /\ s.state[y] = "BLOCKED" /\ "unblock" \in Calls
                          \/ Freed(a, y) /\ s.state[y] \in {"UNUSED", "DELETED"}
  <1>0. /\ s \in SchedState /\ Placed(s) /\ WaitersBlocked(s)
        /\ t \in Task /\ t # NULL /\ App \subseteq Task
        /\ s.state \in [Task -> TaskState] /\ Delays \subseteq Tick
    BY AppTask, ApiAssumption DEF Ruled, SchedState
  <1>1. ASSUME NEW a, SameWaits(a, s),
               \A y \in Task : a.state[y] = "BLOCKED" <=> s.state[y] = "BLOCKED"
        PROVE  P(a)
    BY <1>1 DEF SameWaits, SameWait
  <1>2. ASSUME NEW a \in SchedState, P(a)
        PROVE  P(scheduler_yield(a))
    <2>1. SameWaits(scheduler_yield(a), a) /\ scheduler_yield(a).state = a.state
      BY <1>0, <1>2, KeepsWaits, YieldLemma
    <2> QED
      BY <1>2, <2>1 DEF SameWaits, SameWait, FallsAsleepAt, Freed
  <1>3. P(s) /\ P(scheduler_yield(s))
    BY <1>0, <1>1, <1>2 DEF SameWaits
  <1>4. ASSUME r = scheduler_lock(s) \/ r = scheduler_unlock(s) PROVE P(r)
    BY <1>0, <1>1, <1>4, KeepsWaits, LockLemma
  <1>5. ASSUME NEW n \in Delays \ {0}, NEW b, b = scheduler_block_task(s, "DELAY", NULL, n)
        PROVE  P(b) /\ P(scheduler_yield(b))
    <2>1. /\ WaitBegun(b, s, t, "DELAY", NULL, n) /\ b \in SchedState
          /\ b.state[t] = "BLOCKED" /\ \A y \in Task \ {t} : b.state[y] = s.state[y]
      BY <1>0, <1>5, BlockWaits, BlockLemma, DelayArgs
    <2>2. /\ b.reason[t] = "DELAY" /\ b.object[t] = NULL /\ b.timeout[t] = n
          /\ b.wake[t] = wake_tick(s, n) /\ b.tick = s.tick
      BY <1>0, <2>1 DEF WaitBegun, SchedState
    <2>3. \A y \in Task \ {t} : SameWait(b, s, y)
      BY <1>0, <2>1 DEF WaitBegun, SchedState, SameWait
    <2>4. FallsAsleepAt(b, s, t)
      BY <1>0, <2>1, <2>2 DEF FallsAsleepAt
    <2> QED
      BY <1>2, <2>1, <2>2, <2>3, <2>4
  <1>6. ASSUME NEW x \in App, "unblock" \in Calls, r = scheduler_unblock_task(s, x, "OK")
        PROVE  P(r)
    <2>1. CASE r = s
      BY <1>3, <2>1
    <2>2. CASE r # s
      <3>1. /\ WaitOver(r, s, x, "OK") /\ \A y \in Task \ {x} : r.state[y] = s.state[y]
        <4>1. "OK" \in Result /\ x \in Task
          BY <1>0 DEF Result
        <4> QED
          BY <1>0, <1>6, <2>2, <4>1, UnblockTaskWaits
      <3>2. s.state[x] = "BLOCKED"
        BY <1>6, <2>2 DEF scheduler_unblock_task
      <3>3. r.state[x] = "READY"
        <4>1. PICK a : a = MakeReady(s, x, "OK")
          OBVIOUS
        <4>2. a.state = [s.state EXCEPT ![x] = "READY"] /\ a \in SchedState
          BY <1>0, <4>1, MakeReadyLemma DEF Result
        <4>3. r = TriggerIfOutranks(a, x)
          BY <1>6, <3>2, <4>1 DEF scheduler_unblock_task
        <4>4. r.state = a.state
          BY <1>0, <4>2, <4>3, TriggerIfLemma
        <4> QED
          BY <1>0, <4>2, <4>4
      <3>4. r.reason[x] = "NONE"
        BY <1>0, <3>1 DEF WaitOver, SchedState
      <3>5. \A y \in Task \ {x} : SameWait(r, s, y)
        BY <1>0, <3>1 DEF WaitOver, SchedState, SameWait
      <3>6. r.tick = s.tick
        BY <3>1 DEF WaitOver
      <3> QED
        BY <1>6, <3>2, <3>3, <3>4, <3>5, <3>6 DEF Freed
    <2> QED
      BY <2>1, <2>2
  <1>7. ASSUME NEW x \in App, s.state[x] = "SUSPENDED", r = scheduler_add_task(s, x)
        PROVE  P(r)
    <2>1. SameWaits(r, s) /\ r.state = [s.state EXCEPT ![x] = "READY"]
      BY <1>0, <1>7, KeepsWaits, AddLemma
    <2>2. \A y \in Task : r.state[y] = "BLOCKED" <=> s.state[y] = "BLOCKED"
      BY <1>0, <1>7, <2>1
    <2> QED
      BY <1>1, <2>1, <2>2
  <1>8. ASSUME NEW x \in App, NEW st \in {"SUSPENDED", "DELETED"}, s.state[x] # "BLOCKED",
               NEW b, b = stop_task(s, x, st)
        PROVE  P(b) /\ b \in SchedState
    <2>1. SameWaits(b, s) /\ b \in SchedState
      <3>1. PICK a : a = scheduler_remove_task(s, x)
        OBVIOUS
      <3>2. a \in SchedState /\ SameWaits(a, s)
        BY <1>0, <3>1, RemoveTaskLemma, FieldsWaits
      <3>3. PICK S \in [Task -> TaskState] : S = [a.state EXCEPT ![x] = st]
        BY <1>0, <3>2 DEF SchedState, TaskState
      <3>4. b = [a EXCEPT !.state = S]
        BY <1>8, <3>1, <3>3 DEF stop_task
      <3>5. SameWaits(b, a) /\ b \in SchedState
        BY <3>2, <3>4 DEF SchedState, SameWaits
      <3> QED
        BY <3>2, <3>5, WaitsTrans
    <2>2. \A y \in Task : b.state[y] = "BLOCKED" <=> s.state[y] = "BLOCKED"
      <3>1. x \in Task /\ st \in TaskState /\ st # "BLOCKED"
        BY <1>0 DEF TaskState
      <3> QED
        BY <1>0, <1>8, <3>1, StopStates
    <2> QED
      BY <1>1, <2>1, <2>2
  <1>9. ASSUME r = scheduler_yield(stop_task(s, t, "SUSPENDED")) PROVE P(r)
    BY <1>2, <1>8, <1>9
  <1>10. ASSUME NEW x \in App, NEW p \in Prio, r = scheduler_set_priority(s, x, p)
         PROVE  P(r)
    <2>1. SameWaits(r, s)
      BY <1>0, <1>10, KeepsWaits
    <2>2. \A y \in Task : r.state[y] = "BLOCKED" <=> s.state[y] = "BLOCKED"
      BY <1>0, <1>10, SetPriorityLemma
    <2> QED
      BY <1>1, <2>1, <2>2
  <1>11. ASSUME NEW x \in App, NEW p \in Prio, s.state[x] \in {"UNUSED", "DELETED"},
                r = task_create(s, x, p)
         PROVE  P(r)
    BY <1>0, <1>11, CreateWaits
  <1> HIDE DEF P
  <1>12. P(r)
    <2>1. ASSUME NEW n \in Delays \ {0},
                 \/ r = scheduler_block_task(s, "DELAY", NULL, n)
                 \/ r = scheduler_yield(scheduler_block_task(s, "DELAY", NULL, n))
          PROVE  P(r)
      BY <1>5, <2>1
    <2>2. CASE r = scheduler_yield(s)
      BY <1>3, <2>2
    <2>3. ASSUME NEW x \in App, NEW st \in {"SUSPENDED", "DELETED"},
                 s.state[x] # "BLOCKED", r = stop_task(s, x, st)
          PROVE  P(r)
      BY <1>8, <2>3
    <2> QED
      BY <1>4, <1>6, <1>7, <1>9, <1>10, <1>11, <2>1, <2>2, <2>3, CallEffect(r, s, t)
      DEF CallEffect
  <1> QED
    BY <1>12 DEF P

\* The kernel's own steps begin no wait but a delay.
LEMMA NoNewWait ==
    ASSUME ~Racy, RuleInv, Next, NEW y \in Task, sched'.reason[y] \notin {"NONE", "DELAY"}
    PROVE  sched'.reason[y] = sched.reason[y] /\ sched'.object[y] = sched.object[y]
  <1>0. sched \in SchedState /\ scan \in ScanState
    BY DEF RuleInv, Base, TypeOK
  <1>1. ASSUME SameWaits(sched', sched)
        PROVE  sched'.reason[y] = sched.reason[y] /\ sched'.object[y] = sched.object[y]
    BY <1>1 DEF SameWaits
  <1>2. ASSUME NEW x \in Task, NEW p \in Prio, sched' = task_create(sched, x, p)
        PROVE  sched'.reason[y] = sched.reason[y] /\ sched'.object[y] = sched.object[y]
    BY <1>0, <1>2, CreateWaits DEF SameWait, Freed
  <1>3. CASE Boot
    <2>1. CASE kernel_init
      <3>1. MaxPriority - 1 \in Prio
        BY ConstantsAssumption DEF Prio
      <3> QED
        BY <1>2, <2>1, <3>1, AppTask DEF kernel_init, RuleInv
    <2>2. CASE \E x \in App, p \in Prio : main_create(x, p)
      BY <1>2, <2>2, AppTask DEF main_create
    <2>3. CASE kernel_start
      BY <2>3 DEF kernel_start
    <2>4. CASE scheduler_start
      BY <1>0, <2>4 DEF scheduler_start, SchedState
    <2> QED
      BY <1>3, <2>1, <2>2, <2>3, <2>4 DEF Boot
  <1>4. CASE SysTick \/ PendSV
    BY <1>0, <1>4 DEF SysTick, scheduler_tick, PendSV, PendSV_Handler, SchedState
  <1>5. CASE TickScan
    <2>1. scan.rest \in Seq(Task) /\ scan.rest # <<>>
      BY <1>0, <1>5 DEF TickScan, tick_scan, ScanState
    <2>2. PICK t \in Task : t = Head(scan.rest)
      BY <2>1, TailProps
    <2>3. PICK u : u = IF sched.reason[t] = "DELAY" THEN sched.result[t] ELSE "TIMEOUT"
      OBVIOUS
    <2>4. u \in Result
      BY <1>0, <2>3 DEF SchedState, Result
    <2>5. sched' = sched \/ sched' = MakeReady(sched, t, u)
      BY <1>5, <2>2, <2>3 DEF TickScan, tick_scan
    <2>6. sched' = sched \/ WaitOver(sched', sched, t, u)
      BY <1>0, <2>4, <2>5, MakeReadyWaits
    <2> QED
      BY <1>0, <2>6 DEF WaitOver, SchedState
  <1>6. CASE TickEnd
    <2>1. SameWaits(charge_slice(sched), sched) /\ charge_slice(sched) \in SchedState
      BY <1>0, KeepsWaits, ChargeSliceLemma
    <2>2. sched' = preempt_check(charge_slice(sched))
      BY <1>6 DEF TickEnd, tick_end
    <2> QED
      BY <1>1, <2>1, <2>2, TriggerWaits, WaitsTrans
  <1>7. ASSUME NEW t \in App, Direct(t) \/ Svc(t)
        PROVE  sched'.reason[y] = sched.reason[y] /\ sched'.object[y] = sched.object[y]
    <2>1. Ruled(sched) /\ sched.cur = t /\ sched.state[t] # "BLOCKED"
      BY <1>7, Stepping
    <2>2. \/ SameWait(sched', sched, y) \/ FallsAsleepAt(sched', sched, y)
          \/ Freed(sched', y)
      BY <1>7, <2>1, CallEffects, EffectOnWaits
    <2> QED
      BY <2>2 DEF SameWait, FallsAsleepAt, Freed
  <1> QED
    BY <1>3, <1>4, <1>5, <1>6, <1>7 DEF Next, Exception

\* Outside the loops over the blocked list only scheduler_unblock_task wakes.
LEMMA StaysBlocked ==
    ASSUME ~Racy, "unblock" \notin Calls, RuleInv, Next, scan.job = "none",
           NEW y \in Task, sched.state[y] = "BLOCKED"
    PROVE  sched'.state[y] = "BLOCKED"
  <1>0. /\ sched \in SchedState /\ scan \in ScanState
        /\ kstate \in {"UNINIT"} => sched = scheduler_init
        /\ kstate # "UNINIT" => Ruled(sched)
    BY DEF RuleInv, Base, TypeOK
  <1>1. CASE Boot
    <2>1. CASE kernel_init
      BY <1>0, <2>1 DEF kernel_init, scheduler_init
    <2>2. CASE \E x \in App, p \in Prio : main_create(x, p)
      <3>1. PICK x \in App, p \in Prio : main_create(x, p)
        BY <2>2
      <3>2. sched' = task_create(sched, x, p) /\ sched.state[x] = "UNUSED" /\ x \in Task
        BY <3>1, AppTask DEF main_create, Created
      <3> QED
        BY <1>0, <3>2, CreateWaits DEF SameWait
    <2>3. CASE kernel_start
      BY <2>3 DEF kernel_start
    <2>4. CASE scheduler_start
      <3>1. PICK first \in Task : /\ first = scheduler_get_next(sched)
                                  /\ sched' = [sched EXCEPT !.cur = first,
                                               !.state[first] = "RUNNING",
                                               !.slice[first] = TimeSlice]
                                  /\ first # NULL
        BY <1>0, <2>4, GetNextLemma DEF scheduler_start
      <3>2. sched.state[first] \in {"READY", "RUNNING"}
        BY <1>0, <2>4, <3>1, GetNextLemma DEF scheduler_start, Ruled
      <3> QED
        BY <1>0, <3>1, <3>2 DEF SchedState
    <2> QED
      BY <1>1, <2>1, <2>2, <2>3, <2>4 DEF Boot
  <1>2. CASE Exception
    BY <1>0, <1>2 DEF Exception, SysTick, scheduler_tick, PendSV, PendSV_Handler,
       TickScan, tick_scan, TickEnd, tick_end, SchedState
  <1>3. ASSUME NEW t \in App, Direct(t) \/ Svc(t)
        PROVE  sched'.state[y] = "BLOCKED"
    <2>1. Ruled(sched) /\ sched.cur = t /\ sched.state[t] # "BLOCKED"
      BY <1>3, Stepping
    <2>2. SameWait(sched', sched, y)
      BY <1>3, <2>1, CallEffects, EffectOnWaits
    <2> QED
      BY <2>2 DEF SameWait
  <1> QED
    BY <1>1, <1>2, <1>3 DEF Next

(***************************************************************************)
(* What a step leaves of a task y that takes no part in it, when nobody is *)
(* suspended or deleted: ready, y stays so and keeps the result of its     *)
(* last wait; blocked, it waits on for the same or is ready.               *)
(***************************************************************************)
Spared(r, s, y) ==
    /\ s.state[y] = "READY" => r.state[y] = "READY" /\ r.result[y] = s.result[y]
    /\ r.state[y] = "BLOCKED" =>
          s.state[y] = "BLOCKED" /\ r.reason[y] = s.reason[y] /\ r.object[y] = s.object[y]

LEMMA ReadyStays ==
    ASSUME NEW s, Ruled(s), NEW t \in App, s.cur = t, NEW r, CallEffect(r, s, t),
           Calls \cap {"suspend", "delete"} = {},
           NEW y \in Task \ {t}, s.state[y] = "READY"
    PROVE  r.state[y] = "READY"
  <1>0. s \in SchedState /\ t # NULL /\ App \subseteq Task /\ Delays \subseteq Tick
    BY AppTask, ApiAssumption DEF Ruled
  <1>1. CASE r = scheduler_yield(s) \/ r = scheduler_lock(s) \/ r = scheduler_unlock(s)
    BY <1>0, <1>1, YieldLemma, LockLemma
  <1>2. ASSUME NEW n \in Delays \ {0},
               \/ r = scheduler_block_task(s, "DELAY", NULL, n)
               \/ r = scheduler_yield(scheduler_block_task(s, "DELAY", NULL, n))
        PROVE  r.state[y] = "READY"
    <2>1. PICK b : b = scheduler_block_task(s, "DELAY", NULL, n)
      OBVIOUS
    <2>2. b \in SchedState /\ b.state[y] = "READY"
      BY <1>0, <2>1, BlockLemma, DelayArgs
    <2> QED
      BY <1>2, <2>1, <2>2, YieldLemma
  <1>3. ASSUME NEW x \in App, r = scheduler_unblock_task(s, x, "OK")
        PROVE  r.state[y] = "READY"
    <2>1. "OK" \in Result /\ x \in Task
      BY <1>0 DEF Result
    <2> QED
      BY <1>0, <1>3, <2>1, UnblockTaskLemma
  <1>4. ASSUME NEW x \in App, r = scheduler_add_task(s, x)
        PROVE  r.state[y] = "READY"
    <2>1. r.state = [s.state EXCEPT ![x] = "READY"] /\ s.state \in [Task -> TaskState]
      BY <1>0, <1>4, AddLemma DEF SchedState
    <2> QED
      BY <1>0, <2>1
  <1>5. ASSUME NEW x \in App, NEW p \in Prio, r = scheduler_set_priority(s, x, p)
        PROVE  r.state[y] = "READY"
    BY <1>0, <1>5, SetPriorityLemma
  <1>6. ASSUME NEW x \in App, NEW p \in Prio, r = task_create(s, x, p)
        PROVE  r.state[y] = "READY"
    <2>1. PICK a : a = tcb_init(s, x, p)
      OBVIOUS
    <2>2. a \in SchedState /\ a.state[y] = "READY"
      BY <1>0, <2>1, TcbInitLemma
    <2>3. r.state = [a.state EXCEPT ![x] = "READY"] /\ a.state \in [Task -> TaskState]
      BY <1>0, <1>6, <2>1, <2>2, AddLemma DEF task_create, SchedState
    <2> QED
      BY <1>0, <2>2, <2>3
  <1> QED
    BY <1>1, <1>2, <1>3, <1>4, <1>5, <1>6 DEF CallEffect

LEMMA CallSpares ==
    ASSUME ~Racy, RuleInv, Calls \cap {"suspend", "delete"} = {},
           NEW t \in App, Direct(t) \/ Svc(t), NEW y \in Task \ {t}
    PROVE  /\ Spared(sched', sched, y) /\ kstate' = kstate
           /\ pc[y] = "run" => pc'[y] = "run"
  <1>1. Ruled(sched) /\ sched.cur = t /\ sched.state[t] # "BLOCKED"
    BY Stepping
  <1>2. CallEffect(sched', sched, t)
    BY CallEffects
  <1>3. Spared(sched', sched, y)
    <2>1. sched.state[y] = "READY" => sched'.state[y] = "READY"
      BY <1>1, <1>2, ReadyStays
    <2>2. \A x \in Task :
             \/ SameWait(sched', sched, x)
             \/ x = t /\ FallsAsleepAt(sched', sched, t)
             \/ Freed(sched', x) /\ sched.state[x] = "BLOCKED" /\ "unblock" \in Calls
             \/ Freed(sched', x) /\ sched.state[x] \in {"UNUSED", "DELETED"}
      BY <1>1, <1>2, EffectOnWaits
    <2> QED
      BY <2>1, <2>2 DEF Spared, SameWait, Freed
  <1>4. kstate' = kstate /\ (pc[y] = "run" => pc'[y] = "run")
    <2>1. pc \in [Task -> AtomicPC] /\ t \in Task /\ App \subseteq Task
      BY AppTask DEF RuleInv
    <2>2. CASE Direct(t)
      BY <2>1, <2>2 DEF Direct, Kernel, Goto, Return, task_yield, block_return,
         suspend_yield, delete_yield, scheduler_lock_call, scheduler_unlock_call,
         resume_write, resume_add, prio_remove, prio_write, prio_store, prio_add,
         create_add, task_delay, task_suspend, task_delete, task_resume,
         unblock_task_call, task_set_priority, task_create_call
    <2>3. CASE Svc(t)
      BY <2>1, <2>3 DEF Svc, Kernel, Goto, Return, svc_suspend, svc_delete, svc_delay,
         svc_resume, svc_priority, svc_create
    <2> QED
      BY <2>2, <2>3
  <1> QED
    BY <1>3, <1>4

LEMMA ExceptionSpares ==
    ASSUME RuleInv, Exception, NEW y \in Task
    PROVE  Spared(sched', sched, y) /\ UNCHANGED <<kstate, pc>>
  <1>0. sched \in SchedState /\ scan \in ScanState
    BY DEF RuleInv, Base, TypeOK
  <1>1. UNCHANGED <<kstate, pc>>
    BY DEF Exception, SysTick, TickScan, TickEnd, PendSV
  <1>2. CASE SysTick \/ PendSV
    BY <1>0, <1>1, <1>2
    DEF SysTick, scheduler_tick, PendSV, PendSV_Handler, SchedState, Spared
  <1>3. CASE TickScan
    <2>1. /\ scan.rest \in Seq(Task) /\ scan.rest # <<>> /\ Visits(sched, scan.rest)
      BY <1>0, <1>3 DEF TickScan, tick_scan, ScanState, RuleInv, LoopVisitsBlocked
    <2>2. PICK t \in Task : t = Head(scan.rest)
      BY <2>1, TailProps
    <2>3. PICK u : u = IF sched.reason[t] = "DELAY" THEN sched.result[t] ELSE "TIMEOUT"
      OBVIOUS
    <2>4. u \in Result
      BY <1>0, <2>3 DEF SchedState, Result
    <2>5. sched' = sched \/ sched' = MakeReady(sched, t, u)
      BY <1>3, <2>2, <2>3 DEF TickScan, tick_scan
    <2>6. \/ sched' = sched
          \/ /\ WaitOver(sched', sched, t, u)
             /\ sched'.state = [sched.state EXCEPT ![t] = "READY"]
      BY <1>0, <2>4, <2>5, MakeReadyWaits, MakeReadyLemma
    <2>7. sched.state[t] = "BLOCKED"
      <3>1. 1 \in DOMAIN scan.rest /\ t = scan.rest[1]
        BY <2>1, <2>2, EmptySeq, LenProperties
      <3> QED
        BY <2>1, <3>1 DEF Visits
    <2> QED
      BY <1>0, <1>1, <2>6, <2>7 DEF WaitOver, SchedState, Spared
  <1>4. CASE TickEnd
    <2>1. PICK a : a = charge_slice(sched)
      OBVIOUS
    <2>2. SameWaits(a, sched) /\ a \in SchedState /\ a.state = sched.state
      BY <1>0, <2>1, KeepsWaits, ChargeSliceLemma
    <2>3. sched' = preempt_check(a)
      BY <1>4, <2>1 DEF TickEnd, tick_end
    <2>4. SameWaits(sched', a) /\ sched'.state = a.state
      BY <2>2, <2>3, TriggerWaits, PreemptCheckLemma
    <2> QED
      BY <1>1, <2>2, <2>4 DEF SameWaits, Spared
  <1> QED
    BY <1>1, <1>2, <1>3, <1>4 DEF Exception
-----------------------------------------------------------------------------
(***************************************************************************)
(* Part 3: what the calls of the synchronisation objects do to the kernel. *)
(* They leave the kernel's life cycle and the task API's own labels alone. *)
(***************************************************************************)
SameControl == UNCHANGED <<kstate, pc, arg>>

LEMMA SyncBase ==
    ASSUME Base, Good(sched'), scan' \in ScanState, SameControl
    PROVE  Base'
  BY DEF Base, TypeOK, ListsSound, DeferredYieldKept, Good, Deferred, SameControl

\* The blocking calls, and those that wake one task.
LEMMA SyncCallBase ==
    ASSUME Base, scan' = scan, SameControl,
           \/ sched' = sched
           \/ sched' = scheduler_yield(sched)
           \/ \E reason \in BlockReason, object \in Object, n \in Tick :
                 /\ sched.cur # NULL
                 /\ sched' = scheduler_block_task(sched, reason, object, n)
           \/ \E reason \in BlockReason, object \in Object, u \in Result :
                 sched' = scheduler_unblock_one(sched, reason, object, u)
    PROVE  Base'
  <1>1. Good(sched) /\ scan \in ScanState /\ Idle \in Task
    BY BaseGood, AppTask DEF Base, TypeOK
  <1>2. Good(sched')
    BY <1>1, GoodOps, GoodBlock, GoodUnblockOne
  <1> QED
    BY <1>1, <1>2, SyncBase

\* scheduler_unblock_all: its entry, an iteration, its end.
LEMMA WakeAllBase ==
    ASSUME Base, SameControl,
           NEW reason \in BlockReason, NEW object \in Object, NEW u \in Result,
           unblock_all_begin(sched, reason, object, u)
    PROVE  Base'
  <1>1. Good(sched) /\ sched \in SchedState
    BY BaseGood DEF Base, TypeOK
  <1>2. sched.list[BlockedList] \in Seq(Task)
    BY <1>1, PrioInList DEF SchedState
  <1>3. scan' \in ScanState /\ sched' = sched
    BY <1>2 DEF unblock_all_begin, ScanState
  <1> QED
    BY <1>1, <1>3, SyncBase

LEMMA WakeLoopBase ==
    ASSUME Base, SameControl, unblock_all_scan \/ unblock_all_end
    PROVE  Base'
  <1>1. Good(sched) /\ sched \in SchedState /\ scan \in ScanState
    BY BaseGood DEF Base, TypeOK
  <1>2. CASE unblock_all_scan
    <2>1. scan.rest \in Seq(Task) /\ scan.rest # <<>> /\ scan.result \in Result
      BY <1>1, <1>2 DEF unblock_all_scan, ScanState
    <2>2. PICK t \in Task : t = Head(scan.rest)
      BY <2>1, TailProps
    <2>3. PICK hit \in BOOLEAN : hit = WaitsFor(sched, t, scan.reason, scan.object)
      BY DEF WaitsFor
    <2>4. sched' = sched \/ sched' = MakeReady(sched, t, scan.result)
      BY <1>2, <2>2 DEF unblock_all_scan
    <2>5. scan' = [scan EXCEPT !.rest = Tail(scan.rest), !.woken = scan.woken \/ hit]
      BY <1>2, <2>2, <2>3 DEF unblock_all_scan
    <2>6. Tail(scan.rest) \in Seq(Task)
      BY <2>1, TailProps
    <2>7. scan' \in ScanState
      BY <1>1, <2>5, <2>6 DEF ScanState
    <2>8. Good(sched')
      BY <1>1, <2>1, <2>2, <2>4, GoodOps
    <2> QED
      BY <2>7, <2>8, SyncBase
  <1>3. CASE unblock_all_end
    <2>1. sched' = sched \/ sched' = scheduler_trigger_switch(sched)
      BY <1>3 DEF unblock_all_end
    <2>2. scan' \in ScanState
      BY <1>3 DEF unblock_all_end, NoScan, ScanState, BlockReason, Result
    <2>3. Good(sched')
      BY <1>1, <2>1, TriggerLemma, FrameDeferred DEF Good
    <2> QED
      BY <2>2, <2>3, SyncBase
  <1> QED
    BY <1>2, <1>3

\* A task that takes a step of a call is running and waits for nothing.
LEMMA Caller ==
    ASSUME RuleInv, NEW t \in App, At(t, "run")
    PROVE  /\ t \in Task /\ InterruptsOn /\ scan.job = "none" /\ ~sched.pendsv
           /\ sched.cur = t /\ sched.reason[t] = "NONE"
  <1>1. /\ kstate = "RUNNING" /\ scan.job = "none" /\ ~sched.pendsv /\ sched.cur = t
    BY DEF At, Runs, Unmasked
  <1>2. Ruled(sched) /\ t \in Task /\ t # NULL
    BY <1>1, AppTask DEF RuleInv
  <1>3. sched.state[t] # "BLOCKED"
    BY <1>1, <1>2 DEF Ruled, LeavesWhenBlocked
  <1> QED
    BY <1>1, <1>2, <1>3 DEF Ruled, WaitersBlocked, InterruptsOn

\* While scheduler_unblock_all has interrupts masked, nothing else happens, and
\* no step of the kernel's own begins it.
LEMMA MaskedWhileWaking ==
    ASSUME RuleInv, Next
    PROVE  scan.job # "all" /\ scan'.job # "all"
  <1>0. scan \in ScanState
    BY DEF RuleInv, Base, TypeOK
  <1>1. ASSUME NEW t \in App, Direct(t) \/ Svc(t)
        PROVE  scan.job # "all" /\ scan'.job # "all"
    BY <1>1, Stepping, ControlStep DEF RuleInv
  <1>2. CASE Boot
    <2>1. kstate # "RUNNING" \/ Unmasked
      BY <1>2 DEF Boot, kernel_init, kernel_start, main_create, scheduler_start
    <2>2. scan' = scan
      BY <1>2 DEF Boot, kernel_init, kernel_start, main_create, scheduler_start
    <2>3. scan.job # "all"
      BY <1>2, <2>1 DEF Boot, kernel_init, kernel_start, main_create, scheduler_start,
         Unmasked, RuleInv, NoScan
    <2> QED
      BY <2>2, <2>3
  <1>3. CASE SysTick
    BY <1>3 DEF SysTick, scheduler_tick, Unmasked
  <1>4. CASE TickScan
    <2>1. PICK q : scan' = [scan EXCEPT !.rest = q] /\ scan.job = "tick"
      BY <1>4 DEF TickScan, tick_scan
    <2> QED
      BY <1>0, <2>1 DEF ScanState
  <1>5. CASE TickEnd
    BY <1>5 DEF TickEnd, tick_end, NoScan
  <1>6. CASE PendSV
    BY <1>6 DEF PendSV, PendSV_Handler, Unmasked
  <1> QED
    BY <1>1, <1>2, <1>3, <1>4, <1>5, <1>6 DEF Next, Exception

\* The same under the usage rules.
LEMMA SyncCallRule ==
    ASSUME RuleInv, InterruptsOn, scan.job = "none", scan' = scan, SameControl,
           \/ sched' = sched
           \/ sched' = scheduler_yield(sched)
           \/ \E reason \in BlockReason, object \in Object, n \in Tick :
                 /\ sched.cur \in App /\ ~sched.pendsv
                 /\ sched' = scheduler_block_task(sched, reason, object, n)
           \/ \E reason \in BlockReason, object \in Object, u \in Result :
                 sched' = scheduler_unblock_one(sched, reason, object, u)
    PROVE  RuleInv'
  <1>1. Ruled(sched) /\ Base /\ NULL \notin App
    BY ConstantsAssumption DEF RuleInv, InterruptsOn, Task
  <1>2. \A reason \in BlockReason, object \in Object, n \in Tick :
           sched.cur \in App /\ ~sched.pendsv
               => Ruled(scheduler_block_task(sched, reason, object, n))
                  /\ scheduler_block_task(sched, reason, object, n).cur = sched.cur
    BY <1>1, RuledBlock DEF Ruled, LeavesWhenBlocked
  <1>3. Ruled(scheduler_yield(sched)) /\ scheduler_yield(sched).cur = sched.cur
    BY <1>1, RuledYield
  <1>4. Ruled(sched') /\ sched'.cur = sched.cur
    BY <1>1, <1>2, <1>3, RuledUnblockOne
  <1>5. Base'
    BY <1>1, SyncCallBase
  <1>6. LoopVisitsBlocked'
    BY DEF LoopVisitsBlocked
  <1> QED
    BY <1>4, <1>5, <1>6 DEF RuleInv, InterruptsOn, SameControl

\* The loop is entered with every blocked task before it.
LEMMA WakeAllRule ==
    ASSUME RuleInv, InterruptsOn, SameControl,
           NEW reason \in BlockReason, NEW object \in Object, NEW u \in Result,
           unblock_all_begin(sched, reason, object, u)
    PROVE  /\ RuleInv'
           /\ \A x \in Task : sched.state[x] = "BLOCKED"
                                  => \E i \in DOMAIN scan'.rest : scan'.rest[i] = x
  <1>1. Ruled(sched) /\ Base
    BY DEF RuleInv, InterruptsOn
  <1>2. sched' = sched /\ scan'.rest = sched.list[BlockedList]
    BY DEF unblock_all_begin
  <1>3. /\ Visits(sched, sched.list[BlockedList])
        /\ \A x \in Task : sched.state[x] = "BLOCKED"
               => \E i \in DOMAIN sched.list[BlockedList] : sched.list[BlockedList][i] = x
    BY <1>1, LoopBegins
  <1>4. Base'
    BY <1>1, WakeAllBase
  <1>5. LoopVisitsBlocked'
    BY <1>2, <1>3 DEF LoopVisitsBlocked
  <1> QED
    BY <1>1, <1>2, <1>3, <1>4, <1>5 DEF RuleInv, InterruptsOn, SameControl

\* An iteration ends the wait of its task, if it is one for the object, and
\* leaves the other tasks of the loop before it.
LEMMA WakeLoopRule ==
    ASSUME RuleInv, SameControl, unblock_all_scan \/ unblock_all_end
    PROVE  /\ RuleInv'
           /\ SameWaits(sched', sched)
              \/ \E t \in Task : WaitOver(sched', sched, t, scan.result)
           /\ scan.reason # "NONE" => \A i \in DOMAIN scan.rest :
                 WaitsFor(sched', scan.rest[i], scan.reason, scan.object)
                   => \E j \in DOMAIN scan'.rest : scan'.rest[j] = scan.rest[i]
  <1>1. /\ Ruled(sched) /\ Base /\ sched \in SchedState /\ scan \in ScanState /\ Base'
        /\ kstate \notin {"UNINIT", "INIT"}
    BY WakeLoopBase DEF RuleInv, Base, TypeOK, unblock_all_scan, unblock_all_end, NoScan
  <1>2. CASE unblock_all_scan
    <2>1. /\ scan.rest # <<>> /\ scan.result \in Result /\ Visits(sched, scan.rest)
          /\ scan.job = "all" /\ scan.rest \in Seq(Task) /\ scan.reason \in BlockReason
      BY <1>1, <1>2 DEF unblock_all_scan, ScanState, RuleInv, LoopVisitsBlocked
    <2>2. PICK t \in Task : t = Head(scan.rest)
      BY <2>1, TailProps
    <2>3. \/ /\ sched' = sched /\ ~WaitsFor(sched, t, scan.reason, scan.object)
          \/ sched' = MakeReady(sched, t, scan.result)
      BY <1>2, <2>2 DEF unblock_all_scan
    <2>4. scan'.rest = Tail(scan.rest)
      BY <1>1, <1>2 DEF unblock_all_scan, ScanState
    <2>5. /\ Ruled(sched') /\ SameRun(sched', sched) /\ Visits(sched', Tail(scan.rest))
          /\ \A i \in DOMAIN scan.rest : scan.rest[i] # t
                => \E j \in DOMAIN Tail(scan.rest) : Tail(scan.rest)[j] = scan.rest[i]
      BY <1>1, <2>1, <2>2, <2>3, LoopStep
    <2>6. sched' = sched \/ WaitOver(sched', sched, t, scan.result)
      BY <1>1, <2>1, <2>2, <2>3, MakeReadyWaits
    <2>7. scan.reason # "NONE" => ~WaitsFor(sched', t, scan.reason, scan.object)
      <3>1. CASE sched' = sched /\ ~WaitsFor(sched, t, scan.reason, scan.object)
        BY <3>1
      <3>2. CASE sched' = MakeReady(sched, t, scan.result)
        <4>1. WaitOver(sched', sched, t, scan.result)
          BY <1>1, <2>1, <3>2, MakeReadyWaits
        <4>2. sched'.reason[t] = "NONE"
          BY <1>1, <4>1 DEF WaitOver, SchedState
        <4> QED
          BY <4>2 DEF WaitsFor
      <3> QED
        BY <2>3, <3>1, <3>2
    <2>8. RuleInv'
      BY <1>1, <2>4, <2>5 DEF RuleInv, SameControl, LoopVisitsBlocked, SameRun
    <2> QED
      BY <2>4, <2>5, <2>6, <2>7, <2>8 DEF SameWaits
  <1>3. CASE unblock_all_end
    <2>1. sched' = sched \/ sched' = scheduler_trigger_switch(sched)
      BY <1>3 DEF unblock_all_end
    <2>2. scan'.job = "none" /\ scan.rest = <<>>
      BY <1>3 DEF unblock_all_end, NoScan
    <2>3. /\ SameWaits(sched', sched) /\ sched' \in SchedState /\ SameRun(sched', sched)
          /\ sched'.state = sched.state /\ Placed(sched')
      BY <1>1, <2>1, TriggerLemma, TriggerWaits DEF SameWaits, SameRun, Ruled
    <2>4. Ruled(sched')
      BY <1>1, <2>3, WaitersKept, RuledChange DEF Ruled, SameRun
    <2>5. RuleInv'
      BY <1>1, <2>2, <2>3, <2>4 DEF RuleInv, SameControl, LoopVisitsBlocked, SameRun
    <2> QED
      BY <2>2, <2>3, <2>5
  <1> QED
    BY <1>2, <1>3
-----------------------------------------------------------------------------
(***************************************************************************)
(* Preemption.  An operation of the scheduler puts at most one more task x *)
(* on a ready list; where that makes a priority ready that was not, and it *)
(* is above the running task's, the operation asks for the switch.         *)
(***************************************************************************)
Behind(s) ==
    s.cur # NULL /\ ~s.pendsv /\ \E p \in s.bitmap : p < s.priority[s.cur]

Readied(r, s, x) ==
    /\ r.cur = s.cur /\ (s.pendsv => r.pendsv)
    /\ r.bitmap \subseteq s.bitmap \cup {r.priority[x]}
    /\ \A y \in Task \ {x} : r.priority[y] = s.priority[y]
    /\ s.cur # NULL /\ r.priority[x] \notin s.bitmap /\ r.priority[x] \in r.bitmap
           /\ r.priority[x] < r.priority[s.cur]
         => r.pendsv

\* The running task falls behind only by a priority of its own that is lower.
InOrder(r, s) ==
    Behind(r) => Behind(s) \/ (r.cur = s.cur /\ r.priority[s.cur] > s.priority[s.cur])

LEMMA ReadiedInOrder ==
    ASSUME NEW s \in SchedState, NEW r \in SchedState, NEW x \in Task, Readied(r, s, x)
    PROVE  InOrder(r, s)
  <1> SUFFICES ASSUME Behind(r), ~(r.priority[s.cur] > s.priority[s.cur])
               PROVE  Behind(s)
    BY DEF InOrder, Readied
  <1>1. PICK p \in r.bitmap : p < r.priority[r.cur]
    BY DEF Behind
  <1>2. s.cur # NULL /\ r.cur = s.cur /\ ~r.pendsv /\ ~s.pendsv
    BY DEF Behind, Readied
  <1>3. s.cur \in Task /\ \A y \in Task : s.priority[y] \in Int /\ r.priority[y] \in Int
    BY <1>2 DEF SchedState, Prio
  <1>4. p \in Int
    BY DEF SchedState, Prio
  <1>5. p \in s.bitmap
    BY <1>1, <1>2, <1>3, <1>4 DEF Readied
  <1>6. p < s.priority[s.cur]
    BY <1>1, <1>2, <1>3, <1>4
  <1> QED
    BY <1>2, <1>5, <1>6 DEF Behind

LEMMA InOrderTrans ==
    ASSUME NEW s, NEW a, NEW r, InOrder(a, s), r.cur = a.cur, r.priority = a.priority,
           a.cur = s.cur, Behind(r) => Behind(a)
    PROVE  InOrder(r, s)
  BY DEF InOrder

\* What the operations do to the bitmap and to the pending switch.
LEMMA InsertBits ==
    ASSUME NEW s \in SchedState, NEW x \in Task
    PROVE  ready_insert_tail(s, x).bitmap \subseteq s.bitmap \cup {s.priority[x]}
  BY DEF ready_insert_tail, SchedState

LEMMA RemoveBits ==
    ASSUME NEW s \in SchedState, NEW x \in Task
    PROVE  scheduler_remove_task(s, x).bitmap \subseteq s.bitmap
  <1>1. PICK a : a = Unlink(s, x, s.priority[x])
    OBVIOUS
  <1>2. s.priority[x] \in List
    BY PrioInList DEF SchedState
  <1>3. a \in SchedState /\ a.bitmap = s.bitmap
    BY <1>1, <1>2, UnlinkLemma
  <1>4. \/ scheduler_remove_task(s, x) = a
        \/ scheduler_remove_task(s, x) = [a EXCEPT !.bitmap = a.bitmap \ {s.priority[x]}]
    BY <1>1 DEF scheduler_remove_task
  <1> QED
    BY <1>3, <1>4 DEF SchedState

LEMMA YieldOrder ==
    ASSUME NEW s \in SchedState
    PROVE  /\ Behind(scheduler_yield(s)) => Behind(s)
           /\ scheduler_yield(s).cur = s.cur /\ scheduler_yield(s).priority = s.priority
  <1>1. CASE s.cur = NULL
    BY <1>1 DEF scheduler_yield, Behind
  <1>2. CASE s.cur # NULL /\ s.lock > 0
    <2>1. scheduler_yield(s) = [s EXCEPT !.resched = TRUE]
      BY <1>2 DEF scheduler_yield
    <2> QED
      BY <2>1 DEF Behind, SchedState
  <1>3. CASE s.cur # NULL /\ ~(s.lock > 0)
    <2>1. PICK a : a = Rotate(s)
      OBVIOUS
    <2>2. a \in SchedState /\ a.cur = s.cur /\ a.priority = s.priority
      BY <1>3, <2>1, RotateLemma DEF SameFields
    <2>3. scheduler_yield(s) = scheduler_trigger_switch(a)
      BY <1>3, <2>1 DEF scheduler_yield
    <2> QED
      BY <2>2, <2>3, TriggerLemma DEF Behind, SameRun
  <1> QED
    BY <1>1, <1>2, <1>3

\* A task made ready with the test of scheduler_add_task and its like.
LEMMA TriggerReadies ==
    ASSUME NEW s \in SchedState, NEW a \in SchedState, NEW x \in Task,
           a.cur = s.cur, a.pendsv = s.pendsv, a.priority = s.priority,
           a.bitmap \subseteq s.bitmap \cup {s.priority[x]},
           NEW r, r = IF Outranks(a, x) THEN scheduler_trigger_switch(a) ELSE a
    PROVE  Readied(r, s, x) /\ r \in SchedState
  <1>1. CASE Outranks(a, x)
    <2>1. r \in SchedState /\ r.pendsv /\ r.cur = a.cur /\ r.priority = a.priority
          /\ r.bitmap = a.bitmap
      BY <1>1 DEF scheduler_trigger_switch, SchedState
    <2> QED
      BY <2>1 DEF Readied
  <1>2. CASE ~Outranks(a, x)
    <2>1. r = a
      BY <1>2
    <2> QED
      BY <1>2, <2>1 DEF Readied, Outranks
  <1> QED
    BY <1>1, <1>2

LEMMA AddReadies ==
    ASSUME NEW s \in SchedState, NEW x \in Task, NEW r, r = scheduler_add_task(s, x)
    PROVE  Readied(r, s, x) /\ r \in SchedState /\ r.priority = s.priority
  <1>1. PICK a : a = [s EXCEPT !.state[x] = "READY", !.slice[x] = TimeSlice]
    OBVIOUS
  <1>2. /\ a \in SchedState /\ a.cur = s.cur /\ a.pendsv = s.pendsv
        /\ a.priority = s.priority /\ a.bitmap = s.bitmap
    <2>1. [s.state EXCEPT ![x] = "READY"] \in [Task -> TaskState]
          /\ [s.slice EXCEPT ![x] = TimeSlice] \in [Task -> 0 .. TimeSlice]
      BY ConstantsAssumption DEF SchedState, TaskState
    <2> QED
      BY <1>1, <2>1 DEF SchedState
  <1>3. PICK b : b = ready_insert_tail(a, x)
    OBVIOUS
  <1>4. b \in SchedState /\ SameFields(b, a) /\ b.bitmap \subseteq a.bitmap \cup {a.priority[x]}
    BY <1>2, <1>3, InsertTailLemma, InsertBits
  <1>5. r = IF Outranks(b, x) THEN scheduler_trigger_switch(b) ELSE b
    BY <1>1, <1>3 DEF scheduler_add_task
  <1>6. Readied(r, s, x) /\ r \in SchedState
    BY <1>2, <1>4, <1>5, TriggerReadies DEF SameFields
  <1>7. r.priority = b.priority
    BY <1>4, <1>5, TriggerLemma
  <1> QED
    BY <1>2, <1>4, <1>6, <1>7 DEF SameFields

LEMMA UnblockReadies ==
    ASSUME NEW s \in SchedState, NEW x \in Task, NEW u \in Result, NEW r,
           r = TriggerIfOutranks(MakeReady(s, x, u), x)
    PROVE  Readied(r, s, x)
  <1>1. PICK a : a = blocked_remove(s, x)
    OBVIOUS
  <1>2. a \in SchedState /\ SameFields(a, s) /\ a.bitmap = s.bitmap
    BY <1>1, UnlinkLemma, PrioInList DEF blocked_remove
  <1>3. PICK b : b = [a EXCEPT !.state[x] = "READY", !.reason[x] = "NONE",
                               !.object[x] = NULL, !.timeout[x] = 0, !.result[x] = u]
    OBVIOUS
  <1>4. /\ b \in SchedState /\ b.cur = a.cur /\ b.pendsv = a.pendsv
        /\ b.priority = a.priority /\ b.bitmap = a.bitmap
    <2>1. /\ a.state \in [Task -> TaskState] /\ a.reason \in [Task -> BlockReason]
          /\ a.object \in [Task -> Object \cup {NULL}]
          /\ a.timeout \in [Task -> Tick] /\ a.result \in [Task -> Result]
      BY <1>2 DEF SchedState
    <2>2. PICK S \in [Task -> TaskState] : S = [a.state EXCEPT ![x] = "READY"]
      BY <2>1 DEF TaskState
    <2>3. PICK R \in [Task -> BlockReason] : R = [a.reason EXCEPT ![x] = "NONE"]
      BY <2>1 DEF BlockReason
    <2>4. PICK O \in [Task -> Object \cup {NULL}] : O = [a.object EXCEPT ![x] = NULL]
      BY <2>1
    <2>0. 0 \in Tick
      BY ConstantsAssumption DEF Tick
    <2>5. PICK T \in [Task -> Tick] : T = [a.timeout EXCEPT ![x] = 0]
      BY <2>0, <2>1
    <2>6. PICK U \in [Task -> Result] : U = [a.result EXCEPT ![x] = u]
      BY <2>1
    <2>7. b = [a EXCEPT !.state = S, !.reason = R, !.object = O, !.timeout = T, !.result = U]
      BY <1>3, <2>2, <2>3, <2>4, <2>5, <2>6
    <2> QED
      BY <1>2, <2>7 DEF SchedState
  <1>5. PICK c : c = ready_insert_tail(b, x)
    OBVIOUS
  <1>6. c \in SchedState /\ SameFields(c, b) /\ c.bitmap \subseteq b.bitmap \cup {b.priority[x]}
    BY <1>4, <1>5, InsertTailLemma, InsertBits
  <1>7. r = IF Outranks(c, x) THEN scheduler_trigger_switch(c) ELSE c
    BY <1>1, <1>3, <1>5 DEF TriggerIfOutranks, MakeReady
  <1> QED
    BY <1>2, <1>4, <1>6, <1>7, TriggerReadies DEF SameFields

LEMMA StopReadies ==
    ASSUME NEW s \in SchedState, NEW x \in Task, NEW st \in TaskState, NEW r,
           r = stop_task(s, x, st)
    PROVE  Readied(r, s, x) /\ r \in SchedState
  <1>1. PICK a : a = scheduler_remove_task(s, x)
    OBVIOUS
  <1>2. a \in SchedState /\ SameFields(a, s) /\ a.bitmap \subseteq s.bitmap
    BY <1>1, RemoveTaskLemma, RemoveBits
  <1>3. /\ r \in SchedState /\ r.cur = a.cur /\ r.pendsv = a.pendsv
        /\ r.priority = a.priority /\ r.bitmap = a.bitmap
    BY <1>1, <1>2 DEF stop_task, SchedState
  <1> QED
    BY <1>2, <1>3 DEF Readied, SameFields

LEMMA SetPriorityReadies ==
    ASSUME NEW s \in SchedState, NEW x \in Task, NEW p \in Prio, NEW r,
           r = scheduler_set_priority(s, x, p)
    PROVE  Readied(r, s, x)
  <1>0. ASSUME NEW a \in SchedState, NEW b, b = [a EXCEPT !.priority[x] = p]
        PROVE  /\ b \in SchedState /\ b.cur = a.cur /\ b.pendsv = a.pendsv
               /\ b.bitmap = a.bitmap /\ b.priority[x] = p
               /\ \A y \in Task \ {x} : b.priority[y] = a.priority[y]
    <2>1. [a.priority EXCEPT ![x] = p] \in [Task -> Prio]
      BY DEF SchedState
    <2> QED
      BY <1>0, <2>1 DEF SchedState
  <1>1. CASE s.state[x] \in {"READY", "RUNNING"}
    <2>1. PICK a : a = scheduler_remove_task(s, x)
      OBVIOUS
    <2>2. a \in SchedState /\ SameFields(a, s) /\ a.bitmap \subseteq s.bitmap
      BY <2>1, RemoveTaskLemma, RemoveBits
    <2>3. PICK b : b = [a EXCEPT !.priority[x] = p]
      OBVIOUS
    <2>4. /\ b \in SchedState /\ b.cur = a.cur /\ b.pendsv = a.pendsv
          /\ b.bitmap = a.bitmap /\ b.priority[x] = p
          /\ \A y \in Task \ {x} : b.priority[y] = a.priority[y]
      <3>1. a \in SchedState
        BY <2>2
      <3> QED
        BY <1>0, <2>3, <3>1
    <2>5. r = scheduler_add_task(b, x)
      BY <1>1, <2>1, <2>3 DEF scheduler_set_priority
    <2>6. Readied(r, b, x) /\ r.priority = b.priority
      BY <2>4, <2>5, AddReadies
    <2>7. r.cur = s.cur /\ (s.pendsv => r.pendsv)
          /\ r.bitmap \subseteq s.bitmap \cup {r.priority[x]}
          /\ \A y \in Task \ {x} : r.priority[y] = s.priority[y]
      BY <2>2, <2>4, <2>6 DEF Readied, SameFields
    <2> QED
      BY <2>2, <2>4, <2>6, <2>7 DEF Readied, SameFields
  <1>2. CASE s.state[x] \notin {"READY", "RUNNING"}
    <2>1. r = [s EXCEPT !.priority[x] = p]
      BY <1>2 DEF scheduler_set_priority
    <2> QED
      BY <1>0, <2>1 DEF Readied
  <1> QED
    BY <1>1, <1>2

LEMMA CreateReadies ==
    ASSUME NEW s \in SchedState, NEW x \in Task, NEW p \in Prio, NEW r,
           r = task_create(s, x, p)
    PROVE  Readied(r, s, x) /\ r.cur = s.cur /\ r \in SchedState
  <1>1. PICK a : a = tcb_init(s, x, p)
    OBVIOUS
  <1>2. a \in SchedState /\ \A y \in Task \ {x} : a.priority[y] = s.priority[y]
    BY <1>1, TcbInitLemma
  <1>3. a.cur = s.cur /\ a.pendsv = s.pendsv /\ a.bitmap = s.bitmap
    BY <1>1 DEF tcb_init, SchedState
  <1>4. Readied(r, a, x) /\ r.priority = a.priority /\ r \in SchedState
    BY <1>1, <1>2, AddReadies DEF task_create
  <1> QED
    BY <1>2, <1>3, <1>4 DEF Readied

LEMMA CallInOrder ==
    ASSUME NEW s, Ruled(s), NEW t \in App, s.cur = t, NEW r, CallEffect(r, s, t)
    PROVE  InOrder(r, s)
  <1>0. /\ s \in SchedState /\ t \in Task /\ t # NULL /\ App \subseteq Task
        /\ "OK" \in Result /\ {"SUSPENDED", "DELETED"} \subseteq TaskState
        /\ Delays \subseteq Tick
    BY AppTask, ApiAssumption DEF Ruled, Result, TaskState
  <1>1. ASSUME ~Behind(r) PROVE InOrder(r, s)
    BY <1>1 DEF InOrder
  <1>2. CASE r = scheduler_yield(s)
    BY <1>0, <1>2, YieldOrder DEF InOrder
  <1>3. CASE r = scheduler_lock(s) \/ r = scheduler_unlock(s)
    <2>1. CASE r.pendsv
      BY <1>1, <2>1 DEF Behind
    <2>2. CASE ~r.pendsv
      <3>1. r.cur = s.cur /\ r.pendsv = s.pendsv /\ r.bitmap = s.bitmap /\ r.priority = s.priority
        BY <1>0, <1>3, <2>2 DEF scheduler_lock, scheduler_unlock, SchedState
      <3> QED
        BY <3>1 DEF InOrder, Behind
    <2> QED
      BY <2>1, <2>2
  <1>4. ASSUME NEW n \in Delays, NEW a, a = scheduler_block_task(s, "DELAY", NULL, n),
               r = a \/ r = scheduler_yield(a)
        PROVE  InOrder(r, s)
    <2>1. a \in SchedState /\ a.pendsv
      BY <1>0, <1>4, BlockLemma, DelayArgs
    <2>2. ~Behind(r)
      BY <1>4, <2>1, YieldOrder DEF Behind
    <2> QED
      BY <1>1, <2>2
  <1>5. ASSUME NEW x \in App, r = scheduler_unblock_task(s, x, "OK")
        PROVE  InOrder(r, s)
    <2>1. CASE r = s
      BY <2>1 DEF InOrder
    <2>2. CASE r = TriggerIfOutranks(MakeReady(s, x, "OK"), x)
      <3>1. r \in SchedState
        BY <1>0, <1>5, UnblockTaskLemma
      <3> QED
        BY <1>0, <2>2, <3>1, UnblockReadies, ReadiedInOrder
    <2> QED
      BY <1>5, <2>1, <2>2 DEF scheduler_unblock_task
  <1>6. ASSUME NEW x \in App, r = scheduler_add_task(s, x)
        PROVE  InOrder(r, s)
    BY <1>0, <1>6, AddReadies, ReadiedInOrder
  <1>7. ASSUME NEW x \in App, NEW st \in {"SUSPENDED", "DELETED"}, NEW a,
               a = stop_task(s, x, st), r = a \/ r = scheduler_yield(a)
        PROVE  InOrder(r, s)
    <2>1. a \in SchedState /\ Readied(a, s, x) /\ InOrder(a, s)
      BY <1>0, <1>7, StopReadies, ReadiedInOrder
    <2>2. CASE r = scheduler_yield(a)
      BY <2>1, <2>2, YieldOrder, InOrderTrans DEF Readied
    <2> QED
      BY <1>7, <2>1, <2>2
  <1>8. ASSUME NEW x \in App, NEW p \in Prio, r = scheduler_set_priority(s, x, p)
        PROVE  InOrder(r, s)
    <2>1. r \in SchedState
      BY <1>0, <1>8, SetPriorityLemma
    <2> QED
      BY <1>0, <1>8, <2>1, SetPriorityReadies, ReadiedInOrder
  <1>9. ASSUME NEW x \in App, NEW p \in Prio, r = task_create(s, x, p)
        PROVE  InOrder(r, s)
    BY <1>0, <1>9, CreateReadies, ReadiedInOrder
  <1> QED
    BY <1>2, <1>3, <1>4, <1>5, <1>6, <1>7, <1>8, <1>9 DEF CallEffect

\* The task that the bitmap and its list name first is of the highest ready
\* priority, so that it outranks nobody who is ready.
LEMMA NextIsFirst ==
    ASSUME NEW s, Ruled(s), NEW t, t = scheduler_get_next(s), t # NULL
    PROVE  /\ t \in Task
           /\ \A q \in s.bitmap : ~(q < s.priority[t])
  <1>0. s \in SchedState /\ Placed(s) /\ s.bitmap \subseteq Prio
    BY DEF Ruled, SchedState
  <1>1. PICK p : p = bitmap_find_highest(s.bitmap)
    OBVIOUS
  <1>2. ~(p >= MaxPriority) /\ s.list[p] # <<>> /\ t = s.list[p][1]
    BY <1>1 DEF scheduler_get_next
  <1>3. s.bitmap # {}
    BY <1>1, <1>2, ConstantsAssumption DEF bitmap_find_highest
  <1>4. p \in Prio /\ \A q \in s.bitmap : p <= q
    BY <1>0, <1>1, <1>3, HighestLemma
  <1>5. s.list[p] \in Seq(Task)
    BY <1>0, <1>4, PrioInList DEF SchedState
  <1>6. 1 \in DOMAIN s.list[p] /\ t \in Task
    BY <1>0, <1>2, <1>5, TailIsWithout, GetNextLemma
  <1>7. On(s, t, p)
    BY <1>2, <1>6 DEF On
  <1>8. p = s.priority[t]
    BY <1>0, <1>4, <1>6, <1>7 DEF Placed, StateTells
  <1> QED
    BY <1>0, <1>4, <1>6, <1>8 DEF Prio

\* The end of a tick asks for the switch whenever a ready task outranks the
\* running one.
LEMMA PreemptCheckOrder ==
    ASSUME NEW s \in SchedState
    PROVE  ~Behind(preempt_check(s))
  <1>1. CASE preempt_check(s) = scheduler_trigger_switch(s)
    BY <1>1, TriggerLemma DEF Behind
  <1>2. CASE preempt_check(s) = s /\ ~(s.cur # NULL /\ bitmap_find_highest(s.bitmap) < s.priority[s.cur])
    <2> SUFFICES ASSUME Behind(s) PROVE FALSE
      BY <1>2
    <2>1. PICK q \in s.bitmap : q < s.priority[s.cur]
      BY DEF Behind
    <2>2. s.bitmap \in SUBSET Prio /\ s.cur \in Task /\ s.priority[s.cur] \in Int
      BY DEF Behind, SchedState, Prio
    <2>3. PICK h : h = bitmap_find_highest(s.bitmap)
      OBVIOUS
    <2>4. h \in Int /\ q \in Int /\ h <= q
      BY <2>1, <2>2, <2>3, HighestLemma DEF Prio
    <2> QED
      BY <1>2, <2>1, <2>2, <2>3, <2>4 DEF Behind
  <1> QED
    BY <1>1, <1>2 DEF preempt_check

\* kernel/scheduler.c: whatever made a task ready -- the tick, a call, a task's
\* creation or a change of priority -- the switch to it is pending when it
\* outranks the running task, for every number of tasks and priorities; only
\* lowering the running task's own priority leaves an inversion.
THEOREM PreemptionAlwaysAsked ==
    ASSUME ~Racy
    PROVE  Spec => PreemptionNotForgotten
  <1> DEFINE Kept == Inverted' =>
                \/ Inverted
                \/ /\ sched'.cur = sched.cur
                   /\ sched'.priority[sched.cur] > sched.priority[sched.cur]
  <1>1. RuleInv /\ [Next]_vars => [Kept]_vars
    <2> SUFFICES ASSUME RuleInv, Next, Inverted'
                 PROVE  \/ Inverted
                        \/ /\ sched'.cur = sched.cur
                           /\ sched'.priority[sched.cur] > sched.priority[sched.cur]
      OBVIOUS
    <2>0. /\ sched \in SchedState /\ scan \in ScanState
          /\ scan'.job = "none" /\ Behind(sched')
      BY DEF RuleInv, Base, TypeOK, Inverted, Behind
    <2>1. ASSUME scan' = scan, InOrder(sched', sched)
          PROVE  \/ Inverted
                 \/ /\ sched'.cur = sched.cur
                    /\ sched'.priority[sched.cur] > sched.priority[sched.cur]
      BY <2>0, <2>1 DEF InOrder, Inverted, Behind
    <2>2. ASSUME NEW t \in App, Direct(t) \/ Svc(t)
          PROVE  scan' = scan /\ InOrder(sched', sched)
      BY <2>2, CallEffects, CallInOrder, Stepping
    <2>3. CASE kernel_init
      <3>1. PICK a : a = scheduler_init
        OBVIOUS
      <3>2. a \in SchedState /\ a.cur = NULL
        BY <2>3, <3>1, <2>0 DEF kernel_init, RuleInv, scheduler_init
      <3>3. sched'.cur = NULL
        BY <2>3, <3>1, <3>2, CreateReadies, AppTask, ConstantsAssumption DEF kernel_init, Prio
      <3> QED
        BY <2>0, <3>3 DEF Behind
    <2>4. CASE \E x \in App, p \in Prio : main_create(x, p)
      <3>1. PICK x \in App, p \in Prio : main_create(x, p)
        BY <2>4
      <3> QED
        BY <2>0, <2>1, <3>1, CreateReadies, ReadiedInOrder, AppTask DEF main_create
    <2>5. CASE kernel_start
      BY <2>5 DEF kernel_start, Inverted
    <2>6. CASE scheduler_start
      <3>1. PICK first : first = scheduler_get_next(sched) /\ first # NULL
        BY <2>6 DEF scheduler_start
      <3>2. first \in Task /\ \A q \in sched.bitmap : ~(q < sched.priority[first])
        BY <2>6, <3>1, NextIsFirst DEF RuleInv, scheduler_start
      <3>3. sched'.cur = first /\ sched'.bitmap = sched.bitmap /\ sched'.priority = sched.priority
        BY <2>0, <2>6, <3>1 DEF scheduler_start, SchedState
      <3> QED
        BY <2>0, <3>2, <3>3 DEF Behind
    <2>7. CASE SysTick
      BY <2>0, <2>7 DEF SysTick, scheduler_tick, NoScan
    <2>8. CASE TickScan
      <3>1. PICK q : scan' = [scan EXCEPT !.rest = q] /\ scan.job = "tick"
        BY <2>8 DEF TickScan, tick_scan
      <3> QED
        BY <2>0, <3>1 DEF ScanState
    <2>9. CASE TickEnd
      <3>1. PICK a \in SchedState : a = charge_slice(sched)
        BY <2>0, ChargeSliceLemma
      <3> QED
        BY <2>0, <2>9, <3>1, PreemptCheckOrder DEF TickEnd, tick_end
    <2>10. CASE PendSV
      <3>1. PICK next : next = scheduler_get_next(sched)
        OBVIOUS
      <3>2. /\ sched'.cur = next /\ sched'.bitmap = sched.bitmap
            /\ sched'.priority = sched.priority /\ Ruled(sched)
        BY <2>0, <2>10, <3>1 DEF PendSV, PendSV_Handler, SchedState, RuleInv, InterruptsOn
      <3> QED
        BY <2>0, <3>1, <3>2, NextIsFirst DEF Behind
    <2> QED
      BY <2>1, <2>2, <2>3, <2>4, <2>5, <2>6, <2>7, <2>8, <2>9, <2>10 DEF Next, Boot, Exception
  <1> QED
    BY <1>1, RuleInvariant, PTL DEF Spec, PreemptionNotForgotten
=============================================================================
