---------------------------- MODULE SleepProofs ----------------------------
(***************************************************************************)
(* How long a delay lasts, for every number of tasks, every delay and every*)
(* width of the tick counter, which may wrap while a task sleeps.          *)
(***************************************************************************)
EXTENDS MCSleep, TaskApiProofs

-----------------------------------------------------------------------------
(***************************************************************************)
(* The arithmetic, apart from the tasks.  A task fell asleep at tick since *)
(* for n ticks and has wake for its wake_tick; now is the tick counter.    *)
(* "fresh" says that the loop of a tick is not under way, "ahead" that it  *)
(* is and has the task still before it.                                    *)
(***************************************************************************)
OnTime(start, n, now, wake, ahead, fresh) ==
  /\ start + n <= TickMax =>
       /\ wake = start + n /\ start <= now
       /\ now < wake \/ (now = wake /\ ahead)
  /\ start + n > TickMax /\ n = TickMax => wake = TickMax
  /\ start = TickMax /\ n < TickMax =>
       /\ wake = n - 1
       /\ (now = start /\ fresh) \/ now < wake \/ (now = wake /\ ahead)
  /\ start + n > TickMax /\ start < TickMax /\ n < TickMax =>
       /\ wake = start + n - TickMax - 1
       /\ (now = start /\ fresh) \/ (now = start + 1 /\ ahead)

InLoop(t) == scan.job = "tick" /\ \E i \in DOMAIN scan.rest : scan.rest[i] = t

Sleeps(t) ==
  /\ sched.reason[t] = "DELAY" /\ sched.timeout[t] \in 1 .. TickMax
  /\ OnTime(since[t], sched.timeout[t], sched.tick, sched.wake[t],
            InLoop(t), scan.job = "none")

SleepInv ==
  /\ RuleInv
  /\ since \in [Task -> Tick]
  /\ \A t \in Task : sched.state[t] = "BLOCKED" => Sleeps(t)

-----------------------------------------------------------------------------
LEMMA TickWraps ==
  ASSUME NEW k \in 0 .. 2 * TickMax
  PROVE  k % (TickMax + 1) = IF k <= TickMax THEN k ELSE k - TickMax - 1
<1> PICK m \in Nat \ {0} : m = TickMax + 1
  BY ConstantsAssumption
<1>1. k \in 0 .. 2 * m - 1 /\ TickMax = m - 1 /\ TickMax \in Nat
  BY ConstantsAssumption
<1>2. k % m = IF k < m THEN k ELSE k - m
  BY <1>1
<1> QED
  BY <1>1, <1>2

LEMMA SleepBegins ==
  ASSUME NEW s \in SchedState, NEW n \in 1 .. TickMax
  PROVE  OnTime(s.tick, n, s.tick, wake_tick(s, n), FALSE, TRUE)
<1> PICK now \in 0 .. TickMax : now = s.tick
  BY DEF SchedState, Tick
<1>1. TickMax \in Nat \ {0}
  BY ConstantsAssumption
<1>2. CASE n = TickMax
  <2>1. wake_tick(s, n) = TickMax
    BY <1>1, <1>2 DEF wake_tick
  <2> QED
    BY <1>1, <1>2, <2>1 DEF OnTime
<1>3. CASE n # TickMax
  <2>1. wake_tick(s, n) = (now + n) % (TickMax + 1)
    BY <1>1, <1>3 DEF wake_tick
  <2>2. wake_tick(s, n) = IF now + n <= TickMax THEN now + n ELSE now + n - TickMax - 1
    <3>1. PICK k \in 0 .. 2 * TickMax : k = now + n
      BY <1>1
    <3>2. k % (TickMax + 1) = IF k <= TickMax THEN k ELSE k - TickMax - 1
      BY <3>1, TickWraps
    <3> QED BY <1>1, <2>1, <3>1, <3>2
  <2> QED
    BY <1>1, <1>3, <2>2 DEF OnTime
<1> QED
  BY <1>2, <1>3

\* The counter moves on, and the loop has every sleeper before it.
LEMMA SleepTicks ==
  ASSUME NEW start \in Tick, NEW n \in 1 .. TickMax, NEW now \in Tick, NEW wake \in Tick,
         OnTime(start, n, now, wake, FALSE, TRUE)
  PROVE  OnTime(start, n, (now + 1) % (TickMax + 1), wake, TRUE, FALSE)
<1>1. TickMax \in Nat \ {0}
  BY ConstantsAssumption
<1>2. PICK m : m = (now + 1) % (TickMax + 1)
  OBVIOUS
<1>3. m = IF now < TickMax THEN now + 1 ELSE 0
  BY <1>1, <1>2, TickWraps DEF Tick
<1>4. OnTime(start, n, m, wake, TRUE, FALSE)
  BY <1>1, <1>3 DEF OnTime, Tick
<1> QED
  BY <1>2, <1>4

\* The loop leaves a task asleep only before its time ...
LEMMA SleepGoesOn ==
  ASSUME NEW start \in Tick, NEW n \in 1 .. TickMax, NEW now \in Tick, NEW wake \in Tick,
         NEW ahead \in BOOLEAN, OnTime(start, n, now, wake, ahead, FALSE), now < wake
  PROVE  OnTime(start, n, now, wake, FALSE, FALSE)
BY ConstantsAssumption DEF OnTime, Tick

LEMMA LoopOver ==
  ASSUME NEW start, NEW n, NEW now, NEW wake, OnTime(start, n, now, wake, FALSE, FALSE)
  PROVE  OnTime(start, n, now, wake, FALSE, TRUE)
BY DEF OnTime

\* ... and ends its sleep at no other tick than EndOfDelay's.
LEMMA SleepEnds ==
  ASSUME NEW t \in Task, sched \in SchedState, since \in [Task -> Tick],
         Sleeps(t), scan.job = "tick", sched.tick >= sched.wake[t]
  PROVE  sched.tick = EndOfDelay(t)
<1>1. PICK start \in Tick, n \in 1 .. TickMax, now \in Tick, wake \in Tick :
        start = since[t] /\ n = sched.timeout[t] /\ now = sched.tick /\ wake = sched.wake[t]
  BY DEF SchedState, Sleeps
<1>2. PICK ahead \in BOOLEAN : ahead = InLoop(t)
  BY DEF InLoop
<1>3. OnTime(start, n, now, wake, ahead, FALSE) /\ now >= wake
  BY <1>1, <1>2 DEF Sleeps
<1>4. TickMax \in Nat \ {0}
  BY ConstantsAssumption
<1>5. CASE n = TickMax
  <2>1. EndOfDelay(t) = TickMax
    BY <1>1, <1>5 DEF EndOfDelay
  <2> QED
    BY <1>1, <1>3, <1>4, <1>5, <2>1 DEF OnTime, Tick
<1>6. CASE n # TickMax /\ (start + n <= TickMax \/ start = TickMax)
  <2>1. EndOfDelay(t) = (start + n) % (TickMax + 1)
    BY <1>1, <1>6 DEF EndOfDelay, Fits
  <2>2. EndOfDelay(t) = IF start + n <= TickMax THEN start + n ELSE start + n - TickMax - 1
    <3>1. PICK k \in 0 .. 2 * TickMax : k = start + n
      BY <1>4 DEF Tick
    <3>2. k % (TickMax + 1) = IF k <= TickMax THEN k ELSE k - TickMax - 1
      BY <3>1, TickWraps
    <3> QED BY <1>4, <2>1, <3>1, <3>2 DEF Tick
  <2> QED
    BY <1>1, <1>3, <1>4, <1>6, <2>2 DEF OnTime, Tick
<1>7. CASE n # TickMax /\ ~(start + n <= TickMax \/ start = TickMax)
  <2>1. EndOfDelay(t) = start + 1
    BY <1>1, <1>7 DEF EndOfDelay, Fits
  <2> QED
    BY <1>1, <1>3, <1>4, <1>7, <2>1 DEF OnTime, Tick
<1> QED
  BY <1>5, <1>6, <1>7

-----------------------------------------------------------------------------
(***************************************************************************)
(* Steps.  Outside the tick a wait stays as it is, begins now, or is over. *)
(***************************************************************************)
Undisturbed(r, s, y) ==
  \/ SameWait(r, s, y)
  \/ FallsAsleepAt(r, s, y)
  \/ Freed(r, y)

LEMMA BootWaits ==
  ASSUME RuleInv, Boot
  PROVE  /\ scan' = scan /\ scan.job = "none" /\ sched'.tick = sched.tick
         /\ \A y \in Task : Undisturbed(sched', sched, y)
<1>0. /\ sched \in SchedState /\ scan \in ScanState
      /\ kstate # "UNINIT" => Ruled(sched)
  BY DEF RuleInv, Base, TypeOK
<1>1. CASE kernel_init
  <2>1. /\ sched' = task_create(sched, Idle, MaxPriority - 1) /\ scan' = scan
        /\ scan.job = "none" /\ MaxPriority - 1 \in Prio
    BY <1>1, ConstantsAssumption DEF kernel_init, RuleInv, NoScan, Prio
  <2> QED
    BY <1>0, <2>1, CreateWaits, AppTask DEF Undisturbed
<1>2. CASE \E x \in App, p \in Prio : main_create(x, p)
  <2>1. PICK x \in App, p \in Prio : main_create(x, p)
    BY <1>2
  <2>2. /\ sched' = task_create(sched, x, p) /\ scan' = scan
        /\ scan.job = "none" /\ x \in Task
    BY <2>1, AppTask DEF main_create, RuleInv, NoScan
  <2> QED
    BY <1>0, <2>2, CreateWaits DEF Undisturbed
<1>3. CASE kernel_start
  BY <1>3 DEF kernel_start, RuleInv, NoScan, Undisturbed, SameWait
<1>4. CASE scheduler_start
  <2>1. PICK first \in Task : /\ first = scheduler_get_next(sched)
                              /\ sched' = [sched EXCEPT !.cur = first,
                                           !.state[first] = "RUNNING",
                                           !.slice[first] = TimeSlice]
                              /\ first # NULL
    BY <1>0, <1>4, GetNextLemma DEF scheduler_start
  <2>2. sched.state[first] \in {"READY", "RUNNING"}
    BY <1>0, <1>4, <2>1, GetNextLemma DEF scheduler_start, Ruled
  <2>3. /\ \A y \in Task : sched'.state[y] = "BLOCKED" <=> sched.state[y] = "BLOCKED"
        /\ sched'.reason = sched.reason /\ sched'.object = sched.object
        /\ sched'.timeout = sched.timeout /\ sched'.result = sched.result
        /\ sched'.wake = sched.wake /\ sched'.tick = sched.tick
    BY <1>0, <2>1, <2>2 DEF SchedState
  <2>4. scan' = scan /\ scan.job = "none"
    BY <1>4 DEF scheduler_start, Unmasked
  <2> QED
    BY <2>3, <2>4 DEF Undisturbed, SameWait
<1> QED
  BY <1>1, <1>2, <1>3, <1>4, Boot DEF Boot

LEMMA QuietWaits ==
  ASSUME ~Racy, RuleInv, Next, ~SysTick, ~TickScan, ~TickEnd
  PROVE  /\ scan' = scan /\ scan.job = "none" /\ sched'.tick = sched.tick
         /\ \A y \in Task : Undisturbed(sched', sched, y)
<1>0. sched \in SchedState
  BY DEF RuleInv, Base, TypeOK
<1>1. CASE Boot
  BY <1>1, BootWaits
<1>2. CASE PendSV
  BY <1>0, <1>2 DEF PendSV, PendSV_Handler, Unmasked, SchedState, Undisturbed, SameWait
<1>3. ASSUME NEW t \in App, Direct(t) \/ Svc(t)
      PROVE  /\ scan' = scan /\ scan.job = "none" /\ sched'.tick = sched.tick
             /\ \A y \in Task : Undisturbed(sched', sched, y)
  <2>1. /\ scan.job = "none" /\ Ruled(sched) /\ sched.cur = t /\ sched.state[t] # "BLOCKED"
        /\ CallEffect(sched', sched, t) /\ scan' = scan
    BY <1>3, Stepping, CallEffects
  <2> QED
    BY <2>1, EffectOnWaits DEF Undisturbed
<1> QED
  BY <1>1, <1>2, <1>3 DEF Next, Exception

\* What SleepNext does to the history of a task that is asleep afterwards.
LEMMA Since ==
  ASSUME NEW t \in Task, SleepNext, sched'.state[t] = "BLOCKED"
  PROVE  since'[t] = IF sched.state[t] # "BLOCKED" THEN sched.tick ELSE since[t]
BY DEF SleepNext, FallsAsleep

\* The types of a sleeper's fields, for the arithmetic.
LEMMA SleepFields ==
  ASSUME SleepInv, NEW t \in Task
  PROVE  /\ since[t] \in Tick /\ sched.tick \in Tick /\ sched.wake[t] \in Tick
         /\ sched.timeout[t] \in Tick /\ sched \in SchedState
         /\ InLoop(t) \in BOOLEAN
BY DEF SleepInv, RuleInv, Base, TypeOK, SchedState, InLoop

\* A step outside the tick.
LEMMA QuietSleep ==
  ASSUME SleepInv, SleepNext, scan' = scan, scan.job = "none", sched'.tick = sched.tick,
         NEW t \in Task, Undisturbed(sched', sched, t), sched'.state[t] = "BLOCKED"
  PROVE  Sleeps(t)'
<1>0. /\ sched \in SchedState /\ ~InLoop(t) /\ ~InLoop(t)' /\ (scan.job = "none")'
  BY SleepFields DEF InLoop
<1>1. CASE SameWait(sched', sched, t)
  <2>1. Sleeps(t) /\ since'[t] = since[t] /\ sched'.reason[t] = sched.reason[t]
        /\ sched'.timeout[t] = sched.timeout[t] /\ sched'.wake[t] = sched.wake[t]
    BY <1>1, Since DEF SleepInv, SameWait
  <2> QED
    BY <1>0, <2>1 DEF Sleeps, OnTime
<1>2. CASE FallsAsleepAt(sched', sched, t)
  <2>1. PICK n \in Delays \ {0} : sched'.timeout[t] = n /\ sched'.wake[t] = wake_tick(sched, n)
    BY <1>2 DEF FallsAsleepAt
  <2>2. n \in 1 .. TickMax
    BY <2>1, ApiAssumption, ConstantsAssumption DEF Tick
  <2>3. since'[t] = sched.tick /\ sched'.reason[t] = "DELAY"
    BY <1>2, Since DEF FallsAsleepAt
  <2>4. OnTime(sched.tick, n, sched.tick, wake_tick(sched, n), FALSE, TRUE)
    BY <1>0, <2>2, SleepBegins
  <2> QED
    BY <1>0, <2>1, <2>2, <2>3, <2>4 DEF Sleeps, OnTime
<1>3. CASE Freed(sched', t)
  BY <1>3 DEF Freed
<1> QED
  BY <1>1, <1>2, <1>3 DEF Undisturbed

\* SysTick: the counter moves on and the loop begins with every sleeper.
LEMMA TickSleep ==
  ASSUME SleepInv, SleepNext, SysTick, NEW t \in Task, sched'.state[t] = "BLOCKED"
  PROVE  Sleeps(t)'
<1>0. /\ sched \in SchedState /\ Ruled(sched) /\ scan.job = "none"
  BY SleepFields DEF SleepInv, RuleInv, SysTick, InterruptsOn, scheduler_tick, Unmasked
<1>1. /\ sched'.state = sched.state /\ sched'.reason = sched.reason
      /\ sched'.timeout = sched.timeout /\ sched'.wake = sched.wake
      /\ sched'.tick = (sched.tick + 1) % (TickMax + 1)
      /\ scan'.job = "tick" /\ scan'.rest = sched.list[BlockedList]
  BY <1>0 DEF SysTick, scheduler_tick, SchedState, NoScan
<1>2. Sleeps(t) /\ since'[t] = since[t]
  BY <1>1, Since DEF SleepInv
<1>3. InLoop(t)'
  BY <1>0, <1>1, LoopBegins DEF InLoop
<1>4. OnTime(since[t], sched.timeout[t], sched.tick, sched.wake[t], FALSE, TRUE)
  BY <1>0, <1>2 DEF Sleeps, InLoop, OnTime
<1>5. OnTime(since[t], sched.timeout[t], sched'.tick, sched.wake[t], TRUE, FALSE)
  BY <1>1, <1>2, <1>4, SleepTicks, SleepFields DEF Sleeps
<1> QED
  BY <1>1, <1>2, <1>3, <1>5 DEF Sleeps, OnTime

\* An iteration: the head of the loop is woken if its time has come.
LEMMA ScanSleep ==
  ASSUME SleepInv, TickScan, NEW t \in Task
  PROVE  /\ scan.job = "tick" /\ scan'.job = "tick"
         /\ sched.state[t] # "BLOCKED" => sched'.state[t] = sched.state[t]
         /\ sched'.state[t] = "BLOCKED" =>
              /\ sched'.reason[t] = sched.reason[t] /\ sched'.timeout[t] = sched.timeout[t]
              /\ sched'.wake[t] = sched.wake[t] /\ sched'.tick = sched.tick
              /\ InLoop(t) /\ ~InLoop(t)' => sched.tick < sched.wake[t]
              /\ InLoop(t)' => InLoop(t)
         /\ sched.state[t] = "BLOCKED" /\ sched'.state[t] # "BLOCKED"
              => sched.tick >= sched.wake[t]
<1>0. /\ sched \in SchedState /\ Ruled(sched) /\ scan \in ScanState
      /\ \A y \in Task : sched.state[y] = "BLOCKED" => sched.reason[y] = "DELAY"
      /\ kstate \notin {"UNINIT", "INIT"}
  BY DEF SleepInv, RuleInv, Base, TypeOK, Sleeps, TickScan, tick_scan, NoScan
<1>1. /\ scan.job = "tick" /\ scan.rest # <<>> /\ Visits(sched, scan.rest)
      /\ scan.rest \in Seq(Task)
  BY <1>0 DEF TickScan, tick_scan, SleepInv, RuleInv, LoopVisitsBlocked, Visits
<1>2. PICK x \in Task : x = Head(scan.rest)
  BY <1>1, TailProps
<1>3. sched.state[x] = "BLOCKED" /\ sched.reason[x] = "DELAY"
  BY <1>0, <1>1, <1>2, TailProps DEF Visits
<1>4. PICK u \in Result : u = sched.result[x]
  BY <1>0 DEF SchedState
<1>5. sched' = IF sched.tick >= sched.wake[x] THEN MakeReady(sched, x, u) ELSE sched
  BY <1>2, <1>3, <1>4 DEF TickScan, tick_scan, Expired
<1>6. scan'.rest = Tail(scan.rest) /\ scan'.job = "tick"
  BY <1>0, <1>1 DEF TickScan, tick_scan, ScanState
<1>7. /\ \A y \in Task \ {x} : sched'.state[y] = sched.state[y]
      /\ \A i \in DOMAIN scan.rest : scan.rest[i] # x
             => \E j \in DOMAIN Tail(scan.rest) : Tail(scan.rest)[j] = scan.rest[i]
  BY <1>0, <1>1, <1>2, <1>4, <1>5, LoopStep
<1>8. \A j \in DOMAIN Tail(scan.rest) :
         \E i \in DOMAIN scan.rest : scan.rest[i] = Tail(scan.rest)[j]
  BY <1>1, TailProps
<1>9. InLoop(t)' => InLoop(t)
  BY <1>1, <1>6, <1>8 DEF InLoop
<1>10. t # x /\ InLoop(t) => InLoop(t)'
  BY <1>1, <1>6, <1>7 DEF InLoop
<1>11. sched.tick \in Int /\ sched.wake[x] \in Int
  BY <1>0 DEF SchedState, Tick
<1>12. CASE sched' = sched /\ ~(sched.tick >= sched.wake[x])
  <2>1. sched.tick < sched.wake[x]
    BY <1>11, <1>12
  <2> QED
    BY <1>1, <1>6, <1>9, <1>10, <1>12, <2>1
<1>13. CASE sched' = MakeReady(sched, x, u) /\ sched.tick >= sched.wake[x]
  <2>1. WaitOver(sched', sched, x, u)
    BY <1>0, <1>13, MakeReadyWaits
  <2>2. sched'.state = [sched.state EXCEPT ![x] = "READY"]
    BY <1>0, <1>13, MakeReadyLemma
  <2>3. sched'.state[x] = "READY"
    BY <1>0, <2>2 DEF SchedState
  <2>4. CASE t = x
    BY <1>1, <1>3, <1>6, <1>13, <2>3, <2>4
  <2>5. CASE t # x
    <3>1. /\ sched'.reason[t] = sched.reason[t] /\ sched'.timeout[t] = sched.timeout[t]
          /\ sched'.wake[t] = sched.wake[t] /\ sched'.tick = sched.tick
          /\ sched'.state[t] = sched.state[t]
      BY <1>0, <1>7, <2>1, <2>5 DEF WaitOver, SchedState
    <3> QED
      BY <1>1, <1>6, <1>9, <1>10, <2>5, <3>1
  <2> QED
    BY <2>4, <2>5
<1> QED
  BY <1>5, <1>12, <1>13

LEMMA LoopSleep ==
  ASSUME SleepInv, SleepNext, TickScan, NEW t \in Task, sched'.state[t] = "BLOCKED"
  PROVE  Sleeps(t)'
<1>1. /\ scan.job = "tick" /\ scan'.job = "tick" /\ sched.state[t] = "BLOCKED"
      /\ sched'.reason[t] = sched.reason[t] /\ sched'.timeout[t] = sched.timeout[t]
      /\ sched'.wake[t] = sched.wake[t] /\ sched'.tick = sched.tick
      /\ InLoop(t) /\ ~InLoop(t)' => sched.tick < sched.wake[t]
      /\ InLoop(t)' => InLoop(t)
  BY ScanSleep
<1>2. Sleeps(t) /\ since'[t] = since[t]
  BY <1>1, Since DEF SleepInv
<1>3. CASE InLoop(t) <=> InLoop(t)'
  BY <1>1, <1>2, <1>3 DEF Sleeps, OnTime
<1>4. CASE InLoop(t) /\ ~InLoop(t)'
  <2>1. sched.tick < sched.wake[t] /\ sched.timeout[t] \in 1 .. TickMax
        /\ OnTime(since[t], sched.timeout[t], sched.tick, sched.wake[t], TRUE, FALSE)
    BY <1>1, <1>2, <1>4 DEF Sleeps, OnTime
  <2>2. OnTime(since[t], sched.timeout[t], sched.tick, sched.wake[t], FALSE, FALSE)
    BY <2>1, SleepGoesOn, SleepFields
  <2> QED
    BY <1>1, <1>2, <1>4, <2>2 DEF Sleeps, OnTime
<1> QED
  BY <1>1, <1>3, <1>4

LEMMA EndSleep ==
  ASSUME SleepInv, SleepNext, TickEnd, NEW t \in Task
  PROVE  /\ sched'.state = sched.state
         /\ sched'.state[t] = "BLOCKED" => Sleeps(t)'
<1>0. sched \in SchedState
  BY DEF SleepInv, RuleInv, Base, TypeOK
<1>1. PICK a : a = charge_slice(sched)
  OBVIOUS
<1>2. /\ a \in SchedState /\ a.state = sched.state /\ SameWaits(a, sched)
  BY <1>0, <1>1, ChargeSliceLemma, KeepsWaits
<1>3. /\ sched' = preempt_check(a) /\ scan' = NoScan
      /\ scan.job = "tick" /\ scan.rest = <<>>
  BY <1>1 DEF TickEnd, tick_end
<1>4. sched'.state = sched.state /\ SameWaits(sched', sched)
  BY <1>2, <1>3, PreemptCheckLemma, TriggerWaits, WaitsTrans
<1>5. ~InLoop(t) /\ ~InLoop(t)' /\ scan'.job = "none"
  BY <1>3 DEF InLoop, NoScan
<1>6. ASSUME sched'.state[t] = "BLOCKED" PROVE Sleeps(t)'
  <2>1. Sleeps(t) /\ since'[t] = since[t]
    BY <1>4, <1>6, Since DEF SleepInv
  <2>2. OnTime(since[t], sched.timeout[t], sched.tick, sched.wake[t], FALSE, FALSE)
    BY <1>3, <1>5, <2>1 DEF Sleeps, OnTime
  <2>3. OnTime(since[t], sched.timeout[t], sched.tick, sched.wake[t], FALSE, TRUE)
    BY <2>2, LoopOver
  <2> QED
    BY <1>4, <1>5, <2>1, <2>3 DEF Sleeps, OnTime, SameWaits
<1> QED
  BY <1>4, <1>6

LEMMA SleepStep ==
  ASSUME ~Racy
  PROVE  SleepInv /\ [SleepNext]_sleepVars => SleepInv'
<1> SUFFICES ASSUME SleepInv, [SleepNext]_sleepVars PROVE SleepInv'
  OBVIOUS
<1>1. CASE UNCHANGED sleepVars
  <2>1. RuleInv'
    BY <1>1, NextRule DEF SleepInv, sleepVars
  <2>2. UNCHANGED <<sched, scan, since>>
    BY <1>1 DEF sleepVars, vars
  <2> QED
    BY <2>1, <2>2 DEF SleepInv, Sleeps, OnTime, InLoop
<1>2. CASE SleepNext
  <2>1. RuleInv' /\ Next /\ sched \in SchedState
    BY <1>2, NextRule DEF SleepInv, SleepNext, RuleInv, Base, TypeOK
  <2>2. since' \in [Task -> Tick]
    <3>1. 0 \in Tick /\ sched.tick \in Tick
      BY <2>1, ConstantsAssumption DEF SchedState, Tick
    <3>2. \A x \in Task : since[x] \in Tick
      BY DEF SleepInv
    <3> QED
      BY <1>2, <3>1, <3>2 DEF SleepNext
  <2>3. ASSUME NEW t \in Task, sched'.state[t] = "BLOCKED" PROVE Sleeps(t)'
    <3>1. CASE SysTick
      BY <1>2, <2>3, <3>1, TickSleep
    <3>2. CASE TickScan
      BY <1>2, <2>3, <3>2, LoopSleep
    <3>3. CASE TickEnd
      BY <1>2, <2>3, <3>3, EndSleep
    <3>4. CASE ~SysTick /\ ~TickScan /\ ~TickEnd
      <4>1. /\ scan' = scan /\ scan.job = "none" /\ sched'.tick = sched.tick
            /\ Undisturbed(sched', sched, t)
        BY <2>1, <3>4, QuietWaits DEF SleepInv
      <4> QED
        BY <1>2, <2>3, <4>1, QuietSleep
    <3> QED
      BY <3>1, <3>2, <3>3, <3>4
  <2> QED
    BY <2>1, <2>2, <2>3 DEF SleepInv
<1> QED
  BY <1>1, <1>2

LEMMA SleepInvariant ==
  ASSUME ~Racy
  PROVE  SleepSpec => []SleepInv
<1>1. SleepInit => SleepInv
  <2> SUFFICES ASSUME SleepInit PROVE SleepInv
    OBVIOUS
  <2>1. RuleInv
    BY InitRule DEF SleepInit
  <2>2. since \in [Task -> Tick]
    BY ConstantsAssumption DEF SleepInit, Tick
  <2>3. \A t \in Task : sched.state[t] # "BLOCKED"
    BY DEF SleepInit, Init, scheduler_init
  <2> QED
    BY <2>1, <2>2, <2>3 DEF SleepInv
<1> QED
  BY <1>1, SleepStep, PTL DEF SleepSpec

\* kernel/scheduler.c, scheduler_tick: between two ticks no task is still asleep
\* that has slept its time out (and that fell asleep early enough for the counter
\* not to wrap before), for every number of tasks and whatever they call.
THEOREM NobodyOversleeps ==
  ASSUME ~Racy
  PROVE  SleepSpec => []NoOverdueSleeper
<1>1. SleepInv => NoOverdueSleeper
  <2> SUFFICES ASSUME SleepInv, scan.job = "none", NEW t \in Task,
                      sched.state[t] = "BLOCKED", Fits(t)
               PROVE  sched.tick \in since[t] .. since[t] + sched.timeout[t] - 1
    BY DEF NoOverdueSleeper
  <2>1. /\ since[t] \in Int /\ sched.tick \in Int /\ sched.timeout[t] \in Int
    BY SleepFields DEF Tick
  <2>2. /\ sched.wake[t] = since[t] + sched.timeout[t]
        /\ since[t] <= sched.tick /\ sched.tick < sched.wake[t]
    BY DEF SleepInv, Sleeps, OnTime, InLoop, Fits
  <2> QED
    BY <2>1, <2>2
<1> QED
  BY <1>1, SleepInvariant, PTL

\* kernel/scheduler.c, scheduler_block_task and scheduler_tick: the tick that ends
\* a delay is the one EndOfDelay names, also across a wrap of the counter, for
\* every width of the counter, every delay and every number of tasks.
THEOREM DelaysAreExact ==
  ASSUME ~Racy
  PROVE  SleepSpec => DelayExact
<1> DEFINE Exact == \A t \in Task : WokenByTick(t) => sched.tick = EndOfDelay(t)
<1>1. SleepInv /\ [SleepNext]_sleepVars => [Exact]_sleepVars
  <2> SUFFICES ASSUME SleepInv, SleepNext, NEW t \in Task, WokenByTick(t)
               PROVE  sched.tick = EndOfDelay(t)
    OBVIOUS
  <2>1. /\ scan.job = "tick" /\ sched.state[t] = "BLOCKED" /\ sched'.state[t] # "BLOCKED"
    BY DEF WokenByTick
  <2>2. Sleeps(t) /\ Next /\ since \in [Task -> Tick] /\ sched \in SchedState
    BY <2>1, SleepFields DEF SleepInv, SleepNext
  <2>3. TickScan
    <3>1. CASE SysTick
      BY <2>1, <3>1 DEF SysTick, scheduler_tick, Unmasked
    <3>2. CASE TickEnd
      BY <2>1, <3>2, EndSleep
    <3>3. CASE ~SysTick /\ ~TickScan /\ ~TickEnd
      BY <2>1, <2>2, <3>3, QuietWaits DEF SleepInv
    <3> QED
      BY <3>1, <3>2, <3>3
  <2>4. sched.tick >= sched.wake[t]
    BY <2>1, <2>3, ScanSleep
  <2> QED
    BY <2>1, <2>2, <2>4, SleepEnds
<1> QED
  BY <1>1, SleepInvariant, PTL DEF SleepSpec, DelayExact
=============================================================================
