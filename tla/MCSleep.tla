------------------------------- MODULE MCSleep -------------------------------
(***************************************************************************)
(* MCTasks with a history variable: "since" is, for each sleeping task,    *)
(* the tick at which it went to sleep, so that what task_delay promises is *)
(* stated without the wake_tick the code computes for it.                  *)
(***************************************************************************)
EXTENDS MCTasks

VARIABLE since
sleepVars == <<vars, since>>

SleepInit == Init /\ since = [t \in Task |-> 0]

FallsAsleep(t) == sched.state[t] # "BLOCKED" /\ sched'.state[t] = "BLOCKED"

SleepNext ==
    /\ Next
    /\ since' = [t \in Task |-> IF FallsAsleep(t) THEN sched.tick
                             ELSE IF sched'.state[t] = "BLOCKED" THEN since[t]
                             ELSE 0]

SleepSpec == SleepInit /\ [][SleepNext]_sleepVars

SleepView == <<View, since>>

\* The delay of t ends before the tick counter wraps.
Fits(t) == since[t] + sched.timeout[t] <= TickMax

WokenByTick(t) ==
    scan.job = "tick" /\ sched.state[t] = "BLOCKED" /\ sched'.state[t] = "READY"

\* task_delay(n) is over no later than n ticks on: between two ticks, however
\* the delays of several tasks and the calls that move them interleave, no
\* sleeper has slept its time out.
NoOverdueSleeper ==
    scan.job = "none" =>
        \A t \in Task : sched.state[t] = "BLOCKED" /\ Fits(t)
            => sched.tick \in since[t] .. since[t] + sched.timeout[t] - 1

\* When the tick ends the delay of t.  A wake_tick that has wrapped is below
\* the counter, so that such a delay is over at the next tick -- unless that
\* tick wraps the counter too; and a delay of UINT32_MAX ends when the counter
\* gets there.
EndOfDelay(t) ==
    IF sched.timeout[t] = TickMax THEN TickMax
    ELSE IF Fits(t) \/ since[t] = TickMax
         THEN (since[t] + sched.timeout[t]) % (TickMax + 1)
         ELSE since[t] + 1

\* ... and no earlier: the tick that ends a delay of n ticks is the n-th one
\* after it began, or, where the counter wraps on the way, the one that
\* EndOfDelay names; no other task's sleep, wake-up or move between lists
\* shifts it.
DelayExact ==
    [][\A t \in Task : WokenByTick(t) => sched.tick = EndOfDelay(t)]_sleepVars
=============================================================================
