------------------------------ MODULE Semaphore ------------------------------
(***************************************************************************)
(* One counting semaphore (kernel/sync/semaphore.c) shared by the tasks of *)
(* TaskApi and by interrupt handlers.                                      *)
(*                                                                         *)
(* sem_take is a WaitLoop; the label "reset" is in sem_reset, between the  *)
(* store of the count and scheduler_unblock_all.                           *)
(* sem_give is one critical section.  sem_give_isr has none around its     *)
(* read-modify-write of the count: an interrupt of a higher level may come *)
(* in between, so its steps are separate, on the stack "isr" of the        *)
(* handlers in progress.                                                   *)
(***************************************************************************)
EXTENDS WaitLoop, FiniteSets

CONSTANTS Sem,           \* the semaphore's address
          MaxCount,      \* max_count; 0 is unbounded
          InitialCount,
          IsrLevels,     \* how many interrupt levels may be nested
          OwedMax        \* bound on "owed": gives stop there, and takes by
                         \* handlers at -OwedMax

ASSUME SemAssumption ==
    /\ Sem \in Object
    /\ MaxCount \in Nat /\ InitialCount \in Nat
    /\ MaxCount > 0 => InitialCount <= MaxCount   \* sem_init's test
    /\ IsrLevels \in Nat /\ OwedMax \in Nat

VARIABLES count,    \* sem->count
          isr,      \* handlers inside a semaphore call, the running one first
          owed,     \* history: tokens given, or there at the start or the
                    \* last reset, that no sem_take has returned with yet
          torn      \* history: since the last reset a handler has taken, or
                    \* reset, between the load and the store of a sem_give_isr
semVars == <<count, isr, owed, torn>>
allVars == <<vars, waitVars, semVars>>

Frame == [at : {"check", "load", "store", "reset"}, val : Nat]

sem_init == count = InitialCount /\ owed = InitialCount /\ torn = FALSE

\* No handler is running, so threads, SysTick and PendSV may.
Quiet == isr = <<>>

\* A sem_give_isr has loaded the count and not stored it yet.
Storing == \E i \in DOMAIN isr : isr[i].at = "store"

SemAt(t, label) == Quiet /\ WaitAt(t, label)
Full == MaxCount > 0 /\ count >= MaxCount

-----------------------------------------------------------------------------
\* Mutant: no test of the count.
take_or_block_unchecked(t, n) ==
    count' = count - 1 /\ owed' = owed - 1 /\ Leave(t)

\* The critical section at the head of sem_take's loop and the test of the
\* timeout after it.
take_or_block(t, n) ==
    \/ /\ count > 0
       /\ count' = count - 1 /\ owed' = owed - 1
       /\ Leave(t)
    \/ /\ count <= 0
       /\ GiveUpOr(t, n, "block")
       /\ UNCHANGED <<count, owed>>

sem_take(t, n) ==
    /\ SemAt(t, "out")
    /\ take_or_block(t, n)
    /\ UNCHANGED <<vars, isr, torn>>

sem_take_wait(t) ==
    /\ Quiet
    /\ block_task(t, "SEMAPHORE", Sem) \/ block_task_yield(t)
    /\ UNCHANGED semVars

\* Mutant: whatever woke it, the task returns with the semaphore.
sem_take_result_ignored(t) ==
    /\ SemAt(t, "result")
    /\ Leave(t) /\ owed' = owed - 1 /\ UNCHANGED count
    /\ UNCHANGED <<vars, isr, torn>>

\* block_result was not KERNEL_OK: it is returned.  Otherwise the loop starts
\* again, with the whole timeout.
sem_take_result(t) ==
    /\ Quiet
    /\ \/ WaitEnds(t, FALSE) /\ Leave(t) /\ UNCHANGED <<count, owed>>
       \/ WaitEnds(t, TRUE) /\ take_or_block(t, stim[t])
    /\ UNCHANGED <<vars, isr, torn>>

sem_give(t) ==
    /\ SemAt(t, "out") /\ owed < OwedMax
    /\ \/ /\ Waiters(sched, "SEMAPHORE", Sem) # {}
          /\ KernelIs(scheduler_unblock_one(sched, "SEMAPHORE", Sem, "OK"))
          /\ owed' = owed + 1 /\ UNCHANGED count
       \/ /\ Waiters(sched, "SEMAPHORE", Sem) = {} /\ ~Full
          /\ count' = count + 1 /\ owed' = owed + 1
          /\ UNCHANGED vars
       \/ /\ Waiters(sched, "SEMAPHORE", Sem) = {} /\ Full \* KERNEL_ERR_OVERFLOW
          /\ UNCHANGED <<vars, count, owed>>
    /\ UNCHANGED <<spc, stim, isr, torn>>

sem_reset(t, n) ==
    /\ SemAt(t, "out")
    /\ MaxCount > 0 => n <= MaxCount
    /\ count' = n /\ owed' = n /\ torn' = FALSE
    /\ To(t, "reset")
    /\ UNCHANGED <<vars, stim, isr>>

sem_reset_wake(t) ==
    /\ SemAt(t, "reset")
    /\ unblock_all_begin(sched, "SEMAPHORE", Sem, "STATE")
    /\ To(t, "out")
    /\ UNCHANGED <<kstate, pc, arg, count, stim, isr, owed, torn>>

-----------------------------------------------------------------------------
(***************************************************************************)
(* sem_give_isr.  An interrupt arrives when interrupts are unmasked and    *)
(* fewer than IsrLevels handlers are nested; the innermost runs to its end *)
(* unless a further one arrives.                                           *)
(***************************************************************************)
Interruptible == InterruptsOn /\ Unmasked
Top(label) == Interruptible /\ isr # <<>> /\ isr[1].at = label
SetTop(label, v) == isr' = [isr EXCEPT ![1] = [at |-> label, val |-> v]]
EndHandler == isr' = Tail(isr)

sem_give_isr ==
    /\ Interruptible /\ Len(isr) < IsrLevels /\ owed + Len(isr) < OwedMax
    /\ \/ /\ Waiters(sched, "SEMAPHORE", Sem) # {}
          /\ KernelIs(scheduler_unblock_one(sched, "SEMAPHORE", Sem, "OK"))
          /\ owed' = owed + 1 /\ UNCHANGED isr
       \/ /\ Waiters(sched, "SEMAPHORE", Sem) = {}
          /\ isr' = <<[at |-> "check", val |-> 0]>> \o isr
          /\ UNCHANGED <<vars, owed>>
    /\ UNCHANGED <<count, spc, stim, torn>>

\* Mutant: the limit is off by one.
give_isr_check_late ==
    /\ Top("check")
    /\ IF MaxCount > 0 /\ count > MaxCount THEN EndHandler ELSE SetTop("load", 0)
    /\ UNCHANGED <<vars, count, spc, stim, owed, torn>>

give_isr_check ==
    /\ Top("check")
    /\ IF Full THEN EndHandler ELSE SetTop("load", 0)
    /\ UNCHANGED <<vars, count, spc, stim, owed, torn>>

give_isr_load ==
    /\ Top("load")
    /\ SetTop("store", count)
    /\ UNCHANGED <<vars, count, spc, stim, owed, torn>>

give_isr_store ==
    /\ Top("store")
    /\ count' = isr[1].val + 1 /\ owed' = owed + 1
    /\ EndHandler
    /\ UNCHANGED <<vars, spc, stim, torn>>

(***************************************************************************)
(* sem_take and sem_reset in a handler; there sem_take takes what it finds *)
(* and never blocks.  A handler that has interrupted sem_give_isr between  *)
(* its load and its store has its effect undone by the store.              *)
(***************************************************************************)
sem_take_isr ==
    /\ Interruptible /\ Len(isr) < IsrLevels /\ owed > -OwedMax
    /\ count > 0
    /\ count' = count - 1 /\ owed' = owed - 1
    /\ torn' = (torn \/ Storing)
    /\ UNCHANGED <<vars, spc, stim, isr>>

sem_reset_isr(n) ==
    /\ Interruptible /\ Len(isr) < IsrLevels
    /\ MaxCount > 0 => n <= MaxCount
    /\ count' = n /\ owed' = n
    /\ torn' = Storing
    /\ isr' = <<[at |-> "reset", val |-> 0]>> \o isr
    /\ UNCHANGED <<vars, spc, stim>>

reset_isr_wake ==
    /\ Top("reset")
    /\ unblock_all_begin(sched, "SEMAPHORE", Sem, "STATE")
    /\ EndHandler
    /\ UNCHANGED <<kstate, pc, arg, count, spc, stim, owed, torn>>

-----------------------------------------------------------------------------
SemInit == Init /\ WaitInit /\ sem_init /\ isr = <<>>

SemCall(t) ==
    \/ sem_take_wait(t) \/ sem_take_result(t)
    \/ sem_give(t) \/ sem_reset_wake(t)
    \/ \E n \in Timeouts : sem_take(t, n)
    \/ \E n \in 0 .. InitialCount : sem_reset(t, n)

Handler == sem_give_isr \/ give_isr_check \/ give_isr_load \/ give_isr_store
           \/ sem_take_isr \/ reset_isr_wake
           \/ \E n \in 0 .. InitialCount : sem_reset_isr(n)

SemNext == \/ Quiet /\ KernelStep /\ UNCHANGED semVars
           \/ WakeLoop /\ UNCHANGED semVars
           \/ Handler
           \/ \E t \in App : SemCall(t)

SemSpec == SemInit /\ [][SemNext]_allVars

-----------------------------------------------------------------------------
\* Every variable has its type; in particular the count is never negative.
SemTypeOK ==
    /\ TypeOK
    /\ count \in Nat /\ owed \in Int
    /\ spc \in [Task -> WaitLabel \cup {"reset"}] /\ stim \in [Task -> Tick]
    /\ isr \in Seq(Frame) /\ Len(isr) <= IsrLevels /\ torn \in BOOLEAN

\* sem_init: "Maximum count"; sem_give_isr: "Same as sem_give but safe to call
\* from interrupt handlers" (semaphore.h).  It is not: see CountBounded.
MaxCountKept == MaxCount > 0 => count <= MaxCount

\* sem_give_isr tests max_count and increments the count in separate steps:
\* every level of nesting but the first can overshoot max_count by one, and
\* nothing else can, whatever other handlers give, take or reset in between.
CountBounded == MaxCount > 0 /\ IsrLevels > 0 => count <= MaxCount + IsrLevels - 1

\* sem_take succeeds no more often than tokens were put in, whatever wakes a
\* waiting task (a give, a timeout, a reset), whoever takes the token first and
\* however handlers nest -- but for one case that the code has: a handler takes
\* or resets between the load and the store of a sem_give_isr, which stores
\* back what that handler took.
NoTokenInvented == ~torn => count <= owed

\* sem_give wakes the highest-priority waiter: a task that a give makes ready
\* leaves no waiter of higher priority behind.
GiveWakesBest ==
    [][scan.job = "none" =>
        \A t, u \in App :
            WaitsFor(sched, t, "SEMAPHORE", Sem) /\ sched'.state[t] = "READY"
                /\ WaitsFor(sched', u, "SEMAPHORE", Sem)
            => sched.priority[t] <= sched.priority[u]]_allVars

\* sem_reset wakes all waiting tasks: when its loop over the blocked list, from
\* which it unlinks tasks as it goes, ends, nobody waits for the semaphore.
ResetWakesAll ==
    [][scan.job = "all" /\ scan'.job = "none"
        => Waiters(sched', "SEMAPHORE", Sem) = {}]_allVars

\* Tasks that a give has woken and that have not returned from sem_take yet.
Woken == {t \in App : /\ spc[t] \in {"woken", "result"}
                      /\ sched.state[t] = "READY" /\ sched.result[t] = "OK"}

\* sem_give adds a token: every token that a give reported as given is in the
\* count, was taken, or is on its way to a task the give has woken.
TokensKept == Quiet => owed <= count + Cardinality(Woken)
=============================================================================
