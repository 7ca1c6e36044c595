------------------------------ MODULE Scheduler ------------------------------
(***************************************************************************)
(* The HelixRT scheduler (kernel/scheduler.c, kernel/scheduler.h) and the  *)
(* two exceptions that drive it: SysTick, which runs scheduler_tick, and   *)
(* PendSV (kernel/context.s), which switches tasks.                        *)
(*                                                                         *)
(* Everything the scheduler keeps -- the ready lists, the blocked list,    *)
(* the priority bitmap, the scheduling fields of every TCB, current_task,  *)
(* the PendSV pending bit -- is the one record "sched".  Each C function   *)
(* that runs inside one critical section is an operator from such a record *)
(* to the next one, so that the modules that EXTEND this one can compose   *)
(* them exactly as the callers do.  The two loops that walk the blocked    *)
(* list with interrupts masked are run one iteration per step; "scan" is   *)
(* the loop in progress, and nothing else is enabled while there is one.   *)
(***************************************************************************)
EXTENDS Integers, Sequences

CONSTANTS App,          \* the TCBs of application tasks
          Idle,         \* g_idle_tcb
          NULL,
          Object,       \* addresses of semaphores, mutexes, queues, event groups
          MaxPriority,  \* CONFIG_MAX_PRIORITY; 0 is the highest priority
          TimeSlice,    \* CONFIG_TIME_SLICE
          RoundRobin,   \* CONFIG_ROUND_ROBIN
          TickMax       \* UINT32_MAX: the tick counter wraps after it

ASSUME ConstantsAssumption ==
    /\ Idle \notin App
    /\ NULL \notin App \cup {Idle} \cup Object
    /\ MaxPriority \in Nat \ {0}
    /\ TimeSlice \in Nat \ {0}
    /\ RoundRobin \in BOOLEAN
    /\ TickMax \in Nat \ {0}

Task == App \cup {Idle}
Prio == 0 .. MaxPriority - 1
Tick == 0 .. TickMax

TaskState == {"UNUSED", "READY", "RUNNING", "BLOCKED", "SUSPENDED", "DELETED"}
BlockReason == {"NONE", "DELAY", "SEMAPHORE", "MUTEX", "QUEUE_SEND",
                "QUEUE_RECV", "EVENT"}
Result == {"OK", "TIMEOUT", "STATE"}

\* g_sched.ready_list[p] is list p; g_blocked_head is the list after them.
\* All are threaded through the same next/prev fields of the TCBs.
BlockedList == MaxPriority
List == 0 .. MaxPriority

VARIABLES sched, scan
schedVars == <<sched, scan>>

SchedState ==
    [list     : [List -> Seq(Task)],      \* ready_list[], g_blocked_head
     bitmap   : SUBSET Prio,              \* priority_bitmap
     priority : [Task -> Prio],
     state    : [Task -> TaskState],
     slice    : [Task -> 0 .. TimeSlice], \* time_slice
     wake     : [Task -> Tick],           \* wake_tick
     reason   : [Task -> BlockReason],    \* block_reason
     object   : [Task -> Object \cup {NULL}], \* block_object
     timeout  : [Task -> Tick],           \* block_timeout
     result   : [Task -> Result],         \* block_result
     cur      : Task \cup {NULL},         \* current_task
     pendsv   : BOOLEAN,                  \* PENDSVSET
     lock     : Nat,                      \* lock_count
     resched  : BOOLEAN,                  \* reschedule_pending
     tick     : Tick,                     \* g_tick_count
     broken   : BOOLEAN]                  \* see Linked

ScanState ==
    [job    : {"none", "tick", "all"},    \* scheduler_tick, scheduler_unblock_all
     rest   : Seq(Task),                  \* the tasks iter has still to visit
     reason : BlockReason, object : Object \cup {NULL}, result : Result,
     woken  : BOOLEAN]                    \* unblocked > 0

NoScan == [job |-> "none", rest |-> <<>>, reason |-> "NONE", object |-> NULL,
           result |-> "OK", woken |-> FALSE]

(***************************************************************************)
(* The lists.  A TCB has one next and one prev field, so it can be on one  *)
(* list at a time.  "broken" is raised where the code links a task that is *)
(* already linked, or cuts the successors of a list's first element off:   *)
(* from there on the lists are no longer sequences and the model stops.    *)
(***************************************************************************)
On(s, t, l) == \E i \in DOMAIN s.list[l] : s.list[l][i] = t
Linked(s, t) == \E l \in List : On(s, t, l)

ListOf(s, t) == CHOOSE l \in List : On(s, t, l)
Position(q, t) == CHOOSE i \in DOMAIN q : q[i] = t
Without(q, i) == SubSeq(q, 1, i - 1) \o SubSeq(q, i + 1, Len(q))

ready_insert_tail(s, t) ==
    LET p == s.priority[t] IN
    IF Linked(s, t) THEN [s EXCEPT !.broken = TRUE]
    ELSE [s EXCEPT !.list[p] = Append(@, t),
                   !.bitmap = IF s.list[p] = <<>> THEN @ \cup {p} ELSE @]

blocked_insert(s, t) ==
    IF Linked(s, t) THEN [s EXCEPT !.broken = TRUE]
    ELSE [s EXCEPT !.list[BlockedList] = <<t>> \o @]

\* Taking t out through its prev/next fields and the head pointer of list h,
\* the only head pointer that is compared with t.
Unlink(s, t, h) ==
    LET l == ListOf(s, t)
        i == Position(s.list[l], t)
    IN  IF ~Linked(s, t) THEN s
        ELSE IF l = h \/ i > 1 THEN [s EXCEPT !.list[l] = Without(@, i)]
        ELSE IF Len(s.list[l]) = 1 THEN s   \* the other head keeps pointing at t
        ELSE [s EXCEPT !.broken = TRUE]     \* ... and t forgets its successors

blocked_remove(s, t) == Unlink(s, t, BlockedList)

scheduler_trigger_switch(s) == [s EXCEPT !.pendsv = TRUE]

bitmap_find_highest(b) ==
    IF b = {} THEN MaxPriority ELSE CHOOSE p \in b : \A q \in b : p <= q

\* Mutant: the comparison of priorities turned round.
Outranks_reversed(s, t) == s.cur # NULL /\ s.priority[t] > s.priority[s.cur]

\* t has become ready: does it outrank the running task?
Outranks(s, t) == s.cur # NULL /\ s.priority[t] < s.priority[s.cur]

scheduler_add_task(s, t) ==
    LET r == ready_insert_tail([s EXCEPT !.state[t] = "READY",
                                         !.slice[t] = TimeSlice], t)
    IN  IF Outranks(r, t) THEN scheduler_trigger_switch(r) ELSE r

\* Mutant: the bit of an emptied list stays set.
scheduler_remove_task_keeps_bit(s, t) == Unlink(s, t, s.priority[t])

\* Mutant: the bit is cleared while other tasks are still on the list.
scheduler_remove_task_clears_bit(s, t) ==
    [Unlink(s, t, s.priority[t]) EXCEPT !.bitmap = @ \ {s.priority[t]}]

scheduler_remove_task(s, t) ==
    LET p == s.priority[t]
        r == Unlink(s, t, p)
    IN  IF r.list[p] = <<>> THEN [r EXCEPT !.bitmap = @ \ {p}] ELSE r

\* Mutant: the task keeps its place on the list of its old priority.
scheduler_set_priority_in_place(s, t, p) == [s EXCEPT !.priority[t] = p]

\* All of it in one piece, as a caller that has interrupts masked runs it.
scheduler_set_priority(s, t, p) ==
    IF s.state[t] \in {"READY", "RUNNING"}
    THEN scheduler_add_task(
           [scheduler_remove_task(s, t) EXCEPT !.priority[t] = p], t)
    ELSE [s EXCEPT !.priority[t] = p]

\* The head of current_task's list goes to the tail when it is current_task
\* and has a peer.
Rotate(s) ==
    LET p == s.priority[s.cur]
        q == s.list[p]
    IN  IF Len(q) > 1 /\ q[1] = s.cur
        THEN [s EXCEPT !.list[p] = Append(Tail(q), s.cur)]
        ELSE s

\* Mutant: no switch is asked for when the task has no peer.
scheduler_yield_to_peers(s) ==
    IF s.cur = NULL THEN s
    ELSE IF s.lock > 0 THEN [s EXCEPT !.resched = TRUE]
    ELSE IF Rotate(s) = s THEN s ELSE scheduler_trigger_switch(Rotate(s))

scheduler_yield(s) ==
    IF s.cur = NULL THEN s
    ELSE IF s.lock > 0 THEN [s EXCEPT !.resched = TRUE]
    ELSE scheduler_trigger_switch(Rotate(s))

\* Mutants: off by one in either direction.
wake_tick_late(s, timeout) == (s.tick + timeout + 1) % (TickMax + 1)
wake_tick_early(s, timeout) == (s.tick + timeout - 1) % (TickMax + 1)

wake_tick(s, timeout) ==
    CASE timeout = 0 -> (s.tick + 1) % (TickMax + 1)
      [] timeout = TickMax -> TickMax
      [] OTHER -> (s.tick + timeout) % (TickMax + 1)

\* Mutant: the wrong state for a sleeping task.
scheduler_block_task_suspends(s, reason, object, timeout) ==
    LET t == s.cur
        r == scheduler_remove_task(s, t)
    IN  scheduler_trigger_switch(
          blocked_insert([r EXCEPT !.state[t] = "SUSPENDED",
                                   !.reason[t] = reason,
                                   !.object[t] = object,
                                   !.timeout[t] = timeout,
                                   !.result[t] = "OK",
                                   !.wake[t] = wake_tick(s, timeout)], t))

\* The critical section of scheduler_block_task for s.cur # NULL.  What
\* follows it, a second scheduler_yield, runs when the task is back.
scheduler_block_task(s, reason, object, timeout) ==
    LET t == s.cur
        r == scheduler_remove_task(s, t)
    IN  scheduler_trigger_switch(
          blocked_insert([r EXCEPT !.state[t] = "BLOCKED",
                                   !.reason[t] = reason,
                                   !.object[t] = object,
                                   !.timeout[t] = timeout,
                                   !.result[t] = "OK",
                                   !.wake[t] = wake_tick(s, timeout)], t))

\* Off the blocked list and onto a ready list, with its block_* fields reset.
MakeReady(s, t, result) ==
    ready_insert_tail([blocked_remove(s, t) EXCEPT !.state[t] = "READY",
                                                   !.reason[t] = "NONE",
                                                   !.object[t] = NULL,
                                                   !.timeout[t] = 0,
                                                   !.result[t] = result], t)

TriggerIfOutranks(s, t) ==
    IF Outranks(s, t) THEN scheduler_trigger_switch(s) ELSE s

\* Mutant: without the test that the task is blocked.
scheduler_unblock_task_unchecked(s, t, result) ==
    TriggerIfOutranks(MakeReady(s, t, result), t)

scheduler_unblock_task(s, t, result) ==
    IF s.state[t] # "BLOCKED" THEN s
    ELSE TriggerIfOutranks(MakeReady(s, t, result), t)

WaitsFor(s, t, reason, object) == s.reason[t] = reason /\ s.object[t] = object

Waiters(s, reason, object) ==
    {i \in DOMAIN s.list[BlockedList] :
        WaitsFor(s, s.list[BlockedList][i], reason, object)}

\* Mutant: the waiter that blocked last, whatever its priority.
BestWaiter_last(s, reason, object) ==
    LET W == Waiters(s, reason, object)
    IN  s.list[BlockedList][CHOOSE i \in W : \A j \in W : i <= j]

\* The highest-priority waiter; of equals the first in the list, which is
\* the one that blocked last.
BestWaiter(s, reason, object) ==
    LET q == s.list[BlockedList]
        W == Waiters(s, reason, object)
    IN  q[CHOOSE i \in W : \A j \in W :
            \/ s.priority[q[i]] < s.priority[q[j]]
            \/ s.priority[q[i]] = s.priority[q[j]] /\ i <= j]

\* Mutant: the waiter leaves the blocked list for no other.
scheduler_unblock_one_unlisted(s, reason, object, result) ==
    IF Waiters(s, reason, object) = {} THEN s
    ELSE LET t == BestWaiter(s, reason, object)
         IN  [blocked_remove(s, t) EXCEPT !.state[t] = "READY",
                                          !.reason[t] = "NONE",
                                          !.object[t] = NULL]

scheduler_unblock_one(s, reason, object, result) ==
    IF Waiters(s, reason, object) = {} THEN s
    ELSE LET t == BestWaiter(s, reason, object)
         IN  TriggerIfOutranks(MakeReady(s, t, result), t)

scheduler_get_next(s) ==
    LET p == bitmap_find_highest(s.bitmap) IN
    IF p >= MaxPriority \/ s.list[p] = <<>> THEN NULL ELSE s.list[p][1]

scheduler_lock(s) == [s EXCEPT !.lock = @ + 1]

\* Mutant: lock_count is decremented below zero.
scheduler_unlock_underflow(s) ==
    IF s.lock = 1 /\ s.resched
    THEN [s EXCEPT !.lock = 0, !.resched = FALSE, !.pendsv = TRUE]
    ELSE [s EXCEPT !.lock = @ - 1]

\* Mutant: the deferred request is cleared and no switch is pended.
scheduler_unlock_drops(s) ==
    [s EXCEPT !.lock = IF @ > 0 THEN @ - 1 ELSE 0, !.resched = @ /\ s.lock > 1]

scheduler_unlock(s) ==
    LET n == IF s.lock > 0 THEN s.lock - 1 ELSE 0 IN
    IF n = 0 /\ s.resched
    THEN [s EXCEPT !.lock = n, !.resched = FALSE, !.pendsv = TRUE]
    ELSE [s EXCEPT !.lock = n]

\* The C run-time's zeroed TCBs and scheduler_init.
scheduler_init ==
    [list     |-> [l \in List |-> <<>>],
     bitmap   |-> {},
     priority |-> [t \in Task |-> 0],
     state    |-> [t \in Task |-> "UNUSED"],
     slice    |-> [t \in Task |-> 0],
     wake     |-> [t \in Task |-> 0],
     reason   |-> [t \in Task |-> "NONE"],
     object   |-> [t \in Task |-> NULL],
     timeout  |-> [t \in Task |-> 0],
     result   |-> [t \in Task |-> "OK"],
     cur      |-> NULL, pendsv |-> FALSE, lock |-> 0, resched |-> FALSE,
     tick     |-> 0, broken |-> FALSE]

\* What the lists look like when they are intact.
BitmapAgrees(s) == \A p \in Prio : p \in s.bitmap <=> s.list[p] # <<>>

LinkedOnce(s) ==
    \A l, m \in List : \A i \in DOMAIN s.list[l], j \in DOMAIN s.list[m] :
        s.list[l][i] = s.list[m][j] => l = m /\ i = j

Sound(s) == s.broken \/ (BitmapAgrees(s) /\ LinkedOnce(s))

\* t is on the list its state field tells, and on no other.
StateTells(s, t) ==
    /\ s.state[t] \in {"READY", "RUNNING"} <=> On(s, t, s.priority[t])
    /\ s.state[t] = "BLOCKED" <=> On(s, t, BlockedList)
    /\ \A p \in Prio : On(s, t, p) => p = s.priority[t]

-----------------------------------------------------------------------------
(***************************************************************************)
(* The exceptions.  With no loop under way and the lists intact, SysTick   *)
(* may arrive between any two critical sections; PendSV has the lowest     *)
(* priority, so it is taken when nothing else runs, before the next        *)
(* instruction of any task.                                                *)
(***************************************************************************)
Unmasked == scan.job = "none" /\ ~sched.broken

PendSV_Handler ==
    /\ Unmasked
    /\ sched.pendsv
    /\ sched' = [sched EXCEPT !.cur = scheduler_get_next(sched), !.pendsv = FALSE]
    /\ UNCHANGED scan

\* SysTick_Handler calls scheduler_tick: the count, then the blocked list.
scheduler_tick ==
    /\ Unmasked
    /\ sched' = [sched EXCEPT !.tick = (@ + 1) % (TickMax + 1)]
    /\ scan' = [NoScan EXCEPT !.job = "tick", !.rest = sched.list[BlockedList]]

\* Mutant: only the timeouts of waits expire, not plain delays.
Expired_timeouts_only(s, t) ==
    /\ s.reason[t] # "DELAY" /\ s.timeout[t] \notin {0, TickMax}
    /\ s.tick >= s.wake[t]

Expired(s, t) ==
    /\ s.reason[t] = "DELAY" \/ s.timeout[t] \notin {0, TickMax}
    /\ s.tick >= s.wake[t]

tick_scan ==
    /\ scan.job = "tick" /\ scan.rest # <<>> /\ ~sched.broken
    /\ LET t == Head(scan.rest) IN
       sched' = IF ~Expired(sched, t) THEN sched
                ELSE MakeReady(sched, t, IF sched.reason[t] = "DELAY"
                                         THEN sched.result[t] ELSE "TIMEOUT")
    /\ scan' = [scan EXCEPT !.rest = Tail(@)]

\* Mutant: a slice that is used up is refilled without a yield.
charge_slice_without_yield(s) ==
    LET n == IF s.slice[s.cur] > 0 THEN s.slice[s.cur] - 1 ELSE 0 IN
    IF s.cur = NULL THEN s
    ELSE [s EXCEPT !.slice[s.cur] = IF n = 0 THEN TimeSlice ELSE n]

\* The running task's slice, with its round-robin yield.
charge_slice(s) ==
    LET n == IF s.slice[s.cur] > 0 THEN s.slice[s.cur] - 1 ELSE 0 IN
    IF s.cur = NULL THEN s
    ELSE IF RoundRobin /\ n = 0
         THEN scheduler_yield([s EXCEPT !.slice[s.cur] = TimeSlice])
         ELSE [s EXCEPT !.slice[s.cur] = n]

preempt_check(s) ==
    IF s.cur # NULL /\ bitmap_find_highest(s.bitmap) < s.priority[s.cur]
    THEN scheduler_trigger_switch(s) ELSE s

tick_end ==
    /\ scan.job = "tick" /\ scan.rest = <<>> /\ ~sched.broken
    /\ sched' = preempt_check(charge_slice(sched))
    /\ scan' = NoScan

\* scheduler_unblock_all(reason, object, result), entered with sched = s.
unblock_all_begin(s, reason, object, result) ==
    /\ sched' = s
    /\ scan' = [job |-> "all", rest |-> s.list[BlockedList], reason |-> reason,
                object |-> object, result |-> result, woken |-> FALSE]

\* Mutant: the loop ends at the first task it wakes.
unblock_all_scan_once ==
    /\ scan.job = "all" /\ scan.rest # <<>> /\ ~sched.broken
    /\ LET t == Head(scan.rest)
           hit == WaitsFor(sched, t, scan.reason, scan.object)
       IN  /\ sched' = IF hit THEN MakeReady(sched, t, scan.result) ELSE sched
           /\ scan' = [scan EXCEPT !.rest = IF hit THEN <<>> ELSE Tail(@),
                                   !.woken = @ \/ hit]

unblock_all_scan ==
    /\ scan.job = "all" /\ scan.rest # <<>> /\ ~sched.broken
    /\ LET t == Head(scan.rest)
           hit == WaitsFor(sched, t, scan.reason, scan.object)
       IN  /\ sched' = IF hit THEN MakeReady(sched, t, scan.result) ELSE sched
           /\ scan' = [scan EXCEPT !.rest = Tail(@), !.woken = @ \/ hit]

unblock_all_end ==
    /\ scan.job = "all" /\ scan.rest = <<>> /\ ~sched.broken
    /\ sched' = IF scan.woken THEN scheduler_trigger_switch(sched) ELSE sched
    /\ scan' = NoScan

\* A step of code in the thread of task t: t is the running task and no
\* exception is pending or in progress.
Runs(t) == Unmasked /\ ~sched.pendsv /\ sched.cur = t
=============================================================================
