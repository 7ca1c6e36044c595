------------------------------ MODULE WaitLoop ------------------------------
(***************************************************************************)
(* What the blocking calls of semaphores, mutexes, queues and event groups *)
(* have in common.  Each is a loop that tests its object in one critical   *)
(* section and, when the test fails, blocks in a later one.  A task in     *)
(* such a call has pc = "run" and one of these labels in spc:              *)
(*   block   the test failed, scheduler_block_task comes next;             *)
(*   woken   in scheduler_block_task, before its second scheduler_yield;   *)
(*   result  scheduler_block_task returns, the loop looks at its result.   *)
(* The modules that EXTEND this one add labels of their own.               *)
(***************************************************************************)
EXTENDS TaskApi

CONSTANT Timeouts      \* the timeout arguments; 0 is TIMEOUT_NONE

\* A task inside a call is neither deleted nor created again.
ASSUME WaitAssumption ==
    Timeouts \subseteq Tick /\ Calls \cap {"delete", "create"} = {}

VARIABLES spc, stim    \* per task: label in a call, its timeout argument
waitVars == <<spc, stim>>

WaitLabel == {"out", "block", "woken", "result"}

WaitInit == spc = [t \in Task |-> "out"] /\ stim = [t \in Task |-> 0]

WaitAt(t, label) == At(t, "run") /\ spc[t] = label
To(t, label) == spc' = [spc EXCEPT ![t] = label]
Leave(t) == To(t, "out") /\ stim' = [stim EXCEPT ![t] = 0]
KernelIs(s) == sched' = s /\ UNCHANGED <<scan, kstate, pc, arg>>

\* The test has failed: without a timeout the call returns
\* KERNEL_ERR_TIMEOUT, with one the task goes on to "label".
GiveUpOr(t, n, label) ==
    \/ n = 0 /\ Leave(t)
    \/ n # 0 /\ To(t, label) /\ stim' = [stim EXCEPT ![t] = n]

block_task(t, reason, object) ==
    /\ WaitAt(t, "block")
    /\ KernelIs(scheduler_block_task(sched, reason, object, stim[t]))
    /\ To(t, "woken")
    /\ UNCHANGED stim

block_task_yield(t) ==
    /\ WaitAt(t, "woken")
    /\ KernelIs(scheduler_yield(sched))
    /\ To(t, "result")
    /\ UNCHANGED stim

\* The wait ended with this block_result; anything but OK is returned.
WaitEnds(t, ok) == WaitAt(t, "result") /\ (ok <=> sched.result[t] = "OK")

\* The rest of the kernel; a call in progress goes on where pc says.
KernelStep ==
    /\ \/ Boot \/ Exception
       \/ \E t \in App : /\ spc[t] = "out" \/ pc[t] # "run"
                         /\ Direct(t) \/ Svc(t)
    /\ UNCHANGED waitVars

\* The loop of scheduler_unblock_all, with interrupts masked.
WakeLoop ==
    /\ unblock_all_scan \/ unblock_all_end
    /\ UNCHANGED <<kstate, pc, arg, waitVars>>
=============================================================================
