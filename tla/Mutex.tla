-------------------------------- MODULE Mutex --------------------------------
(***************************************************************************)
(* One mutex with priority inheritance (kernel/sync/mutex.c).  mutex_lock  *)
(* is a WaitLoop with two more labels between its critical sections:       *)
(*   boost   the mutex was taken; the owner's priority is looked at next;  *)
(*   raise   scheduler_set_priority(arg.target, arg.prio) is called next:  *)
(*           its steps are the prio_* actions of TaskApi.                  *)
(* mutex_unlock and mutex_trylock are one critical section each;           *)
(* mutex_trylock is mutex_lock with the timeout 0.                         *)
(***************************************************************************)
EXTENDS WaitLoop

CONSTANTS Mtx,         \* the mutex's address
          Recursive,   \* MUTEX_FLAG_RECURSIVE
          RecMax,      \* 0xFF, where recursive_count saturates
          DepthMax     \* bound on the nesting of a task's locks

ASSUME MutexAssumption ==
    /\ Mtx \in Object /\ Recursive \in BOOLEAN
    /\ RecMax \in Nat \ {0} /\ DepthMax \in Nat
    /\ "priority" \notin Calls  \* would not change base_priority

VARIABLES owner,     \* mtx->owner; mtx->locked is owner # NULL, the two are
                     \* always written together
          rec,       \* mtx->recursive_count
          base,      \* base_priority of every TCB
          depth,     \* history: per task, locks it got and has not undone
          behind,    \* history: tasks that found the mutex taken, by an owner
                     \* that has kept it since
          late       \* history: WokenTooEarly has happened
mutexVars == <<owner, rec, base, depth, behind>>
allVars == <<vars, waitVars, mutexVars, late>>

mutex_init == owner = NULL /\ rec = 0

-----------------------------------------------------------------------------
\* The critical section of mutex_trylock, and the test of the timeout after
\* it in mutex_lock.
try_or_boost(t, n) ==
    \/ /\ owner = NULL
       /\ owner' = t /\ rec' = 1
       /\ depth' = [depth EXCEPT ![t] = @ + 1]
       /\ Leave(t) /\ UNCHANGED behind
    \/ /\ owner = t /\ Recursive
       /\ rec' = IF rec < RecMax THEN rec + 1 ELSE rec
       /\ depth' = [depth EXCEPT ![t] = @ + 1]
       /\ Leave(t) /\ UNCHANGED <<owner, behind>>
    \/ /\ owner # NULL /\ ~(owner = t /\ Recursive)
       /\ GiveUpOr(t, n, "boost")
       /\ behind' = behind \cup {t}
       /\ UNCHANGED <<owner, rec, depth>>

mutex_lock(t, n) ==
    /\ WaitAt(t, "out") /\ depth[t] < DepthMax
    /\ try_or_boost(t, n)
    /\ UNCHANGED <<vars, base>>

\* Mutant: the owner is boosted when it already outranks the caller.
mutex_lock_boost_reversed(t) ==
    /\ WaitAt(t, "boost")
    /\ IF owner # NULL /\ sched.priority[owner] < sched.priority[t]
       THEN To(t, "raise") /\ arg' = [arg EXCEPT ![t] = Keep(owner, sched.priority[t])]
       ELSE To(t, "block") /\ UNCHANGED arg
    /\ UNCHANGED <<sched, scan, kstate, pc, stim, mutexVars>>

\* Interrupts are on: the owner may have changed since mutex_trylock.  It is
\* not volatile, and at -O2 loaded once for the test and the call.
mutex_lock_boost(t) ==
    /\ WaitAt(t, "boost")
    /\ IF owner # NULL /\ sched.priority[owner] > sched.priority[t]
       THEN To(t, "raise") /\ arg' = [arg EXCEPT ![t] = Keep(owner, sched.priority[t])]
       ELSE To(t, "block") /\ UNCHANGED arg
    /\ UNCHANGED <<sched, scan, kstate, pc, stim, mutexVars>>

\* Mutant: a ready owner keeps its place on the list of its old priority.
mutex_lock_raise_in_place(t) ==
    /\ WaitAt(t, "raise")
    /\ Goto(t, "prio_store") /\ To(t, "block")
    /\ UNCHANGED <<sched, scan, kstate, arg, stim, mutexVars>>

\* The test at the head of scheduler_set_priority.
mutex_lock_raise(t) ==
    /\ WaitAt(t, "raise")
    /\ Goto(t, IF sched.state[Target(t)] \in {"READY", "RUNNING"}
               THEN "prio_remove" ELSE "prio_store")
    /\ To(t, "block")
    /\ UNCHANGED <<sched, scan, kstate, arg, stim, mutexVars>>

mutex_lock_wait(t) ==
    /\ block_task(t, "MUTEX", Mtx) \/ block_task_yield(t)
    /\ UNCHANGED mutexVars

mutex_lock_result(t) ==
    /\ \/ WaitEnds(t, FALSE) /\ Leave(t) /\ UNCHANGED <<owner, rec, depth, behind>>
       \/ WaitEnds(t, TRUE) /\ try_or_boost(t, stim[t])
    /\ UNCHANGED <<vars, base>>

\* Mutant: the priority is left as it is.
restore_priority_never(s, t) == s

restore_priority(s, t) ==
    IF s.priority[t] # base[t] THEN scheduler_set_priority(s, t, base[t]) ELSE s

\* Mutant: the first unlock frees the mutex, however often it was locked.
mutex_unlock_at_once(t) ==
    /\ WaitAt(t, "out") /\ owner = t
    /\ depth' = [depth EXCEPT ![t] = @ - 1]
    /\ owner' = NULL /\ rec' = 0 /\ behind' = {}
    /\ KernelIs(scheduler_unblock_one(restore_priority(sched, t), "MUTEX", Mtx, "OK"))
    /\ UNCHANGED <<waitVars, base>>

\* A caller that is not the owner gets KERNEL_ERR_STATE.
mutex_unlock(t) ==
    /\ WaitAt(t, "out") /\ owner = t
    /\ depth' = [depth EXCEPT ![t] = @ - 1]
    /\ \/ /\ rec > 1
          /\ rec' = rec - 1
          /\ UNCHANGED <<vars, owner, behind>>
       \/ /\ rec <= 1
          /\ owner' = NULL /\ rec' = 0 /\ behind' = {}
          /\ KernelIs(scheduler_unblock_one(restore_priority(sched, t), "MUTEX", Mtx, "OK"))
    /\ UNCHANGED <<waitVars, base>>

-----------------------------------------------------------------------------
MutexInit ==
    /\ Init /\ WaitInit /\ mutex_init
    /\ base = [t \in Task |-> 0] /\ depth = [t \in Task |-> 0]
    /\ behind = {} /\ late = FALSE

MutexCall(t) ==
    \/ mutex_lock_boost(t) \/ mutex_lock_raise(t) \/ mutex_lock_wait(t)
    \/ mutex_lock_result(t) \/ mutex_unlock(t)
    \/ \E n \in Timeouts : mutex_lock(t, n)

\* task_create sets base_priority, nothing else does.
set_base ==
    base' = [t \in Task |-> IF ~Created(t) /\ sched'.state[t] # "UNUSED"
                            THEN sched'.priority[t] ELSE base[t]]

OtherStep == KernelStep /\ set_base /\ UNCHANGED <<owner, rec, depth, behind>>

\* scheduler_set_priority has found the owner asleep and is about to store its
\* new priority, when a tick makes it ready, on the list of the old one.
WokenTooEarly ==
    \E t \in App : /\ pc[t] = "prio_store"
                   /\ sched.state[Target(t)] \notin {"READY", "RUNNING"}
                   /\ sched'.state[Target(t)] \in {"READY", "RUNNING"}

MutexNext ==
    /\ OtherStep \/ \E t \in App : MutexCall(t)
    /\ late' = (late \/ WokenTooEarly)

MutexSpec == MutexInit /\ [][MutexNext]_allVars

-----------------------------------------------------------------------------
\* Mutual exclusion: a task whose locks outnumber its unlocks is the owner,
\* and the mutex is freed exactly by the unlock that undoes its first lock --
\* also when the lock came after waits, timeouts and wake-ups that others
\* were faster to use.
MutualExclusion ==
    \A t \in App : depth[t] = IF owner = t THEN rec ELSE 0

\* Inheritance: a task that found the mutex taken, and waits behind the owner
\* it found, waits for no lower priority than its own, whatever ticks, round
\* robin and earlier timed-out waiters did to the owner's priority meanwhile.
OwnerInherits ==
    \A t \in behind :
        sched.state[t] = "BLOCKED" /\ WaitsFor(sched, t, "MUTEX", Mtx)
        => sched.priority[owner] <= sched.priority[t]

\* The boost moves the owner between ready lists outside one critical section,
\* with ticks, wake-ups and PendSVs that come back to the booster in between:
\* no list is damaged, and every task but the one on the move is on the list
\* its state tells.  The exception is WokenTooEarly: from then on the owner is
\* on the ready list of a priority it no longer has.
BoostKeepsLists ==
    \/ late
    \/ /\ ~sched.broken
       /\ \A t \in Task :
             \/ StateTells(sched, t)
             \/ \E u \in App : pc[u] \in {"prio_write", "prio_add"} /\ Target(u) = t

\* t is raising the owner's priority, from its look at the owner to the end of
\* scheduler_set_priority.
Boosting(t) == \/ spc[t] = "raise"
               \/ pc[t] \in {"prio_remove", "prio_write", "prio_add", "prio_store"}

\* Nobody disturbs a boost: until it is done the booster outranks every ready
\* task, so that no tick and no PendSV in it switches to the owner, which
\* could unlock the mutex, or to a second booster.  Two tasks keep this;
\* with three, the third one can take the processor in between.
BoostsAlone == \A t \in App : Boosting(t) => sched.cur = t

\* The boost is temporary: a task that does not hold the mutex runs at its
\* base priority (mutex.h: "Owner's priority is restored to base_priority"
\* when mutex_unlock is called).
PriorityRestored ==
    \A t \in App : owner # t => sched.priority[t] = base[t]
=============================================================================
