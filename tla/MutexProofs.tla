---------------------------- MODULE MutexProofs ----------------------------
(***************************************************************************)
(* Mutual exclusion and priority inheritance.  First the mutex by itself:  *)
(* MutualExclusion, for any number of tasks, priorities and time-outs.     *)
(* Then the boost, which moves the owner from one ready list to another in *)
(* several critical sections: what it is for and that it is safe, for any  *)
(* number of tasks, as long as no booster is switched out in the middle of *)
(* it, and last that with two tasks none ever is.                          *)
(***************************************************************************)
EXTENDS Mutex, TaskApiProofs

MutexLabel == WaitLabel \cup {"boost", "raise"}

(***************************************************************************)
(* MutualExclusion is not inductive by itself.  A lock that is counted     *)
(* again must be one that its owner asked for outside the loop, where its  *)
(* depth is bounded: an owner of a recursive mutex never waits for it.     *)
(* And a free mutex has a count of zero, so that nobody's depth is one.    *)
(***************************************************************************)
Counts == /\ owner \in App \cup {NULL}
          /\ rec \in Nat /\ (rec = 0 <=> owner = NULL)
          /\ depth \in [Task -> Nat]

OwnerIsOut == Recursive => \A t \in App : spc[t] # "out" => owner # t

HoldInv == /\ Counts /\ MutualExclusion
           /\ spc \in [Task -> MutexLabel] /\ OwnerIsOut

\* Nothing outside mutex.c touches the mutex or the labels of its calls.
LEMMA HoldKept ==
  ASSUME HoldInv, UNCHANGED <<owner, rec, depth, spc>>
  PROVE  HoldInv'
BY DEF HoldInv, Counts, MutualExclusion, OwnerIsOut

\* A task that goes from one label to another, none of them "out" unless it
\* does not own the mutex, keeps the invariant.
LEMMA HoldLabel ==
  ASSUME HoldInv, NEW t \in App, NEW l \in MutexLabel, To(t, l),
         l = "out" \/ spc[t] # "out" \/ owner # t \/ ~Recursive,
         UNCHANGED <<owner, rec, depth>>
  PROVE  HoldInv'
<1>1. spc' = [spc EXCEPT ![t] = l] /\ t \in Task
  BY DEF To, Task
<1>2. spc' \in [Task -> MutexLabel]
  BY <1>1 DEF HoldInv
<1>3. OwnerIsOut'
  BY <1>1 DEF HoldInv, OwnerIsOut, Task
<1> QED
  BY <1>2, <1>3 DEF HoldInv, Counts, MutualExclusion

\* The critical section of mutex_trylock: either the mutex was free, or the
\* caller has it and may count once more, or nothing is counted.
LEMMA HoldTry ==
  ASSUME HoldInv, NEW t \in App, NEW n, try_or_boost(t, n),
         DepthMax <= RecMax, spc[t] = "out" => depth[t] < DepthMax
  PROVE  HoldInv'
<1> USE MutexAssumption, ConstantsAssumption
<1>1. t \in Task /\ t # NULL
  BY DEF Task
<1>2. CASE /\ owner = NULL /\ owner' = t /\ rec' = 1
           /\ depth' = [depth EXCEPT ![t] = @ + 1] /\ Leave(t)
  <2>1. spc' = [spc EXCEPT ![t] = "out"]
    BY <1>2 DEF Leave, To
  <2>2. \A u \in App : depth[u] = 0
    BY <1>2 DEF HoldInv, MutualExclusion, Counts
  <2>3. Counts' /\ MutualExclusion'
    BY <1>1, <1>2, <2>2 DEF HoldInv, Counts, MutualExclusion, Task
  <2>4. spc' \in [Task -> MutexLabel] /\ OwnerIsOut'
    BY <1>1, <1>2, <2>1 DEF HoldInv, OwnerIsOut, MutexLabel, WaitLabel, Task
  <2> QED BY <2>3, <2>4 DEF HoldInv
<1>3. CASE /\ owner = t /\ Recursive
           /\ rec' = IF rec < RecMax THEN rec + 1 ELSE rec
           /\ depth' = [depth EXCEPT ![t] = @ + 1] /\ Leave(t) /\ UNCHANGED owner
  <2>1. spc' = [spc EXCEPT ![t] = "out"]
    BY <1>3 DEF Leave, To
  <2>2. spc[t] = "out" /\ depth[t] = rec
    BY <1>3 DEF HoldInv, OwnerIsOut, MutualExclusion
  <2>3. rec < RecMax /\ rec' = rec + 1
    BY <1>3, <2>2 DEF HoldInv, Counts
  <2>4. Counts' /\ MutualExclusion'
    BY <1>1, <1>3, <2>2, <2>3 DEF HoldInv, Counts, MutualExclusion, Task
  <2>5. spc' \in [Task -> MutexLabel] /\ OwnerIsOut'
    BY <1>1, <1>3, <2>1 DEF HoldInv, OwnerIsOut, MutexLabel, WaitLabel, Task
  <2> QED BY <2>4, <2>5 DEF HoldInv
<1>4. CASE /\ owner # NULL /\ ~(owner = t /\ Recursive) /\ GiveUpOr(t, n, "boost")
           /\ UNCHANGED <<owner, rec, depth>>
  <2>1. To(t, "out") \/ To(t, "boost")
    BY <1>4 DEF GiveUpOr, Leave
  <2>2. {"out", "boost"} \subseteq MutexLabel
    BY DEF MutexLabel, WaitLabel
  <2> QED
    BY <1>4, <2>1, <2>2, HoldLabel
<1> QED
  BY <1>2, <1>3, <1>4 DEF try_or_boost

\* The unlock that undoes the first lock frees the mutex, and no other does.
LEMMA HoldUnlock ==
  ASSUME HoldInv, NEW t \in App, mutex_unlock(t)
  PROVE  HoldInv'
<1> USE ConstantsAssumption
<1>1. /\ t \in Task /\ t # NULL /\ owner = t /\ spc' = spc
      /\ depth' = [depth EXCEPT ![t] = @ - 1]
  BY DEF Task, mutex_unlock, waitVars
<1>2. depth[t] = rec /\ rec > 0
  BY <1>1 DEF HoldInv, Counts, MutualExclusion
<1>3. CASE rec > 1 /\ rec' = rec - 1 /\ UNCHANGED owner
  BY <1>1, <1>2, <1>3 DEF HoldInv, Counts, MutualExclusion, OwnerIsOut, Task
<1>4. CASE rec <= 1 /\ owner' = NULL /\ rec' = 0
  BY <1>1, <1>2, <1>4 DEF HoldInv, Counts, MutualExclusion, OwnerIsOut, Task
<1> QED
  BY <1>3, <1>4 DEF mutex_unlock

LEMMA HoldStep ==
  ASSUME DepthMax <= RecMax, HoldInv, [MutexNext]_allVars
  PROVE  HoldInv'
<1>1. CASE OtherStep
  BY <1>1, HoldKept DEF OtherStep, KernelStep, waitVars
<1>2. ASSUME NEW t \in App, MutexCall(t)
      PROVE  HoldInv'
  <2> USE DEF MutexLabel, WaitLabel
  <2>1. CASE mutex_lock_boost(t)
    <3>1. /\ To(t, "raise") \/ To(t, "block")
          /\ spc[t] # "out" /\ UNCHANGED <<owner, rec, depth>>
      BY <2>1 DEF mutex_lock_boost, WaitAt, mutexVars
    <3> QED BY <3>1, HoldLabel
  <2>2. CASE mutex_lock_raise(t)
    <3>1. To(t, "block") /\ spc[t] # "out" /\ UNCHANGED <<owner, rec, depth>>
      BY <2>2 DEF mutex_lock_raise, WaitAt, mutexVars
    <3> QED BY <3>1, HoldLabel
  <2>3. CASE mutex_lock_wait(t)
    <3>1. /\ To(t, "woken") \/ To(t, "result")
          /\ spc[t] # "out" /\ UNCHANGED <<owner, rec, depth>>
      BY <2>3 DEF mutex_lock_wait, block_task, block_task_yield, WaitAt, mutexVars
    <3> QED BY <3>1, HoldLabel
  <2>4. CASE mutex_lock_result(t)
    <3>1. CASE WaitEnds(t, FALSE) /\ Leave(t) /\ UNCHANGED <<owner, rec, depth, behind>>
      <4>1. To(t, "out") /\ UNCHANGED <<owner, rec, depth>>
        BY <3>1 DEF Leave
      <4> QED BY <4>1, HoldLabel
    <3>2. CASE WaitEnds(t, TRUE) /\ try_or_boost(t, stim[t])
      <4>1. spc[t] # "out"
        BY <3>2 DEF WaitEnds, WaitAt
      <4> QED BY <3>2, <4>1, HoldTry
    <3> QED BY <2>4, <3>1, <3>2 DEF mutex_lock_result
  <2>5. CASE mutex_unlock(t)
    BY <2>5, HoldUnlock
  <2>6. ASSUME NEW n \in Timeouts, mutex_lock(t, n)
        PROVE  HoldInv'
    BY <2>6, HoldTry DEF mutex_lock
  <2> QED
    BY <1>2, <2>1, <2>2, <2>3, <2>4, <2>5, <2>6 DEF MutexCall
<1>3. CASE UNCHANGED allVars
  BY <1>3, HoldKept DEF allVars, mutexVars, waitVars
<1> QED
  BY <1>1, <1>2, <1>3 DEF MutexNext

LEMMA HoldInitial ==
  ASSUME MutexInit
  PROVE  HoldInv
BY ConstantsAssumption
DEF MutexInit, mutex_init, WaitInit, HoldInv, Counts, MutualExclusion, OwnerIsOut,
    MutexLabel, WaitLabel, Task

\* kernel/sync/mutex.c: a task whose locks outnumber its unlocks is the owner,
\* and the mutex is free again exactly after the unlock of its first lock, as
\* long as no task nests more locks than recursive_count can hold.
THEOREM Exclusion ==
  ASSUME DepthMax <= RecMax
  PROVE  MutexSpec => []MutualExclusion
<1>1. MutexInit => HoldInv
  BY HoldInitial
<1>2. HoldInv /\ [MutexNext]_allVars => HoldInv'
  BY HoldStep
<1>3. HoldInv => MutualExclusion
  BY DEF HoldInv
<1> QED
  BY <1>1, <1>2, <1>3, PTL DEF MutexSpec

-----------------------------------------------------------------------------
(***************************************************************************)
(* A task that a boost has taken off its list and not yet put back is      *)
(* hidden: but for its state field it could be suspended, and no exception *)
(* looks at the state of a task that is not on a list.                     *)
(***************************************************************************)
Hidden(s, x) == IF x = NULL THEN s ELSE [s EXCEPT !.state[x] = "SUSPENDED"]

LEMMA HiddenFields ==
  ASSUME NEW s \in SchedState, NEW x \in App \cup {NULL}, NEW h, h = Hidden(s, x)
  PROVE  /\ h \in SchedState /\ SameLists(h, s) /\ SameWaits(h, s)
         /\ h.priority = s.priority /\ h.slice = s.slice /\ h.cur = s.cur
         /\ h.pendsv = s.pendsv /\ h.lock = s.lock /\ h.resched = s.resched
         /\ \A y \in Task : h.state[y] = IF y = x THEN "SUSPENDED" ELSE s.state[y]
<1>1. CASE x = NULL
  BY <1>1, AppTask DEF Hidden, SameLists, SameWaits
<1>2. CASE x \in App
  <2>1. x \in Task /\ x # NULL /\ h = [s EXCEPT !.state[x] = "SUSPENDED"]
    BY <1>2, AppTask DEF Hidden
  <2>2. h \in SchedState /\ SameLists(h, s)
    BY <2>1, StateWrite DEF TaskState
  <2> QED
    BY <2>1, <2>2 DEF SameWaits, SchedState
<1> QED
  BY <1>1, <1>2

LEMMA UnlinkKeepsState ==
  ASSUME NEW s \in SchedState, NEW t, NEW l
  PROVE  Unlink(s, t, l).state = s.state
BY DEF Unlink, SchedState

\* The loop over the blocked list wakes a task that is not the hidden one.
LEMMA HiddenUnlink ==
  ASSUME NEW s \in SchedState, NEW x \in App \cup {NULL}, NEW t \in Task
  PROVE  blocked_remove(Hidden(s, x), t) = Hidden(blocked_remove(s, t), x)
<1> DEFINE h == Hidden(s, x)
           a == blocked_remove(s, t)
<1>1. /\ h \in SchedState /\ SameLists(h, s) /\ SameWaits(h, s)
      /\ h.list = s.list
  BY HiddenFields DEF SameLists
<1>2. ListOf(h, t) = ListOf(s, t) /\ (Linked(h, t) <=> Linked(s, t))
  BY <1>1 DEF ListOf, Linked, On
<1>3. CASE x = NULL
  BY <1>3 DEF Hidden
<1>4. CASE x # NULL
  <2>1. PICK S : S = [s.state EXCEPT ![x] = "SUSPENDED"]
    OBVIOUS
  <2>2. h = [s EXCEPT !.state = S]
    BY <1>4, <2>1 DEF Hidden
  <2>3. a.state = s.state
    BY UnlinkKeepsState DEF blocked_remove
  <2>4. Hidden(a, x) = [a EXCEPT !.state = S]
    BY <1>4, <2>1, <2>3 DEF Hidden
  <2>5. PICK l, q : /\ l = ListOf(s, t) /\ q = Without(s.list[l], Position(s.list[l], t))
    OBVIOUS
  <2>6. \/ blocked_remove(h, t) = h /\ a = s
        \/ /\ blocked_remove(h, t) = [h EXCEPT !.list[l] = q]
           /\ a = [s EXCEPT !.list[l] = q]
        \/ blocked_remove(h, t) = [h EXCEPT !.broken = TRUE] /\ a = [s EXCEPT !.broken = TRUE]
    BY <1>1, <1>2, <2>5 DEF blocked_remove, Unlink
  <2>7. [h EXCEPT !.list[l] = q] = [[s EXCEPT !.list[l] = q] EXCEPT !.state = S]
    BY <2>2 DEF SchedState
  <2>8. [h EXCEPT !.broken = TRUE] = [[s EXCEPT !.broken = TRUE] EXCEPT !.state = S]
    BY <2>2 DEF SchedState
  <2> QED
    BY <2>2, <2>4, <2>6, <2>7, <2>8
<1> QED
  BY <1>3, <1>4

LEMMA HiddenInsert ==
  ASSUME NEW s \in SchedState, NEW x \in App \cup {NULL}, NEW t \in Task
  PROVE  ready_insert_tail(Hidden(s, x), t) = Hidden(ready_insert_tail(s, t), x)
<1> DEFINE h == Hidden(s, x)
<1>1. h \in SchedState /\ h.list = s.list /\ h.priority = s.priority
  BY HiddenFields DEF SameLists
<1>2. Linked(h, t) <=> Linked(s, t)
  BY <1>1 DEF Linked, On
<1>3. CASE x = NULL
  BY <1>3 DEF Hidden
<1>4. CASE x # NULL
  <2>1. PICK S : S = [s.state EXCEPT ![x] = "SUSPENDED"]
    OBVIOUS
  <2>2. h = [s EXCEPT !.state = S]
    BY <1>4, <2>1 DEF Hidden
  <2>3. PICK p, q, b : /\ p = s.priority[t] /\ q = Append(s.list[p], t)
                       /\ b = IF s.list[p] = <<>> THEN s.bitmap \cup {p} ELSE s.bitmap
    OBVIOUS
  <2>4. h.bitmap = s.bitmap
    BY <2>2 DEF SchedState
  <2>5. PICK a : a = ready_insert_tail(s, t)
    OBVIOUS
  <2>6. \/ ready_insert_tail(h, t) = [h EXCEPT !.broken = TRUE] /\ a = [s EXCEPT !.broken = TRUE]
        \/ /\ ready_insert_tail(h, t) = [h EXCEPT !.list[p] = q, !.bitmap = b]
           /\ a = [s EXCEPT !.list[p] = q, !.bitmap = b]
    BY <1>1, <1>2, <2>3, <2>4, <2>5 DEF ready_insert_tail
  <2>7. [h EXCEPT !.broken = TRUE] = [[s EXCEPT !.broken = TRUE] EXCEPT !.state = S]
    BY <2>2 DEF SchedState
  <2>8. [h EXCEPT !.list[p] = q, !.bitmap = b]
          = [[s EXCEPT !.list[p] = q, !.bitmap = b] EXCEPT !.state = S]
    BY <2>2 DEF SchedState
  <2>9. a.state = s.state
    BY <2>6 DEF SchedState
  <2>10. Hidden(a, x) = [a EXCEPT !.state = S]
    BY <1>4, <2>1, <2>9 DEF Hidden
  <2> QED
    BY <2>5, <2>6, <2>7, <2>8, <2>10
<1> QED
  BY <1>3, <1>4

\* The fields of a TCB that the end of a wait writes.
WaitEnded(s, t, u) == [s EXCEPT !.state[t] = "READY", !.reason[t] = "NONE",
                                !.object[t] = NULL, !.timeout[t] = 0, !.result[t] = u]

LEMMA HiddenWaitEnded ==
  ASSUME NEW s \in SchedState, NEW x \in App \cup {NULL}, NEW t \in Task, t # x,
         NEW u \in Result
  PROVE  /\ WaitEnded(s, t, u) \in SchedState
         /\ WaitEnded(Hidden(s, x), t, u) = Hidden(WaitEnded(s, t, u), x)
<1>1. /\ s.state \in [Task -> TaskState] /\ s.reason \in [Task -> BlockReason]
      /\ s.object \in [Task -> Object \cup {NULL}] /\ s.timeout \in [Task -> Tick]
      /\ s.result \in [Task -> Result] /\ 0 \in Tick
  BY ConstantsAssumption DEF SchedState, Tick
<1>2. PICK S \in [Task -> TaskState] : S = [s.state EXCEPT ![t] = "READY"]
  BY <1>1 DEF TaskState
<1>3. PICK R \in [Task -> BlockReason] : R = [s.reason EXCEPT ![t] = "NONE"]
  BY <1>1 DEF BlockReason
<1>4. PICK O \in [Task -> Object \cup {NULL}] : O = [s.object EXCEPT ![t] = NULL]
  BY <1>1
<1>5. PICK T \in [Task -> Tick] : T = [s.timeout EXCEPT ![t] = 0]
  BY <1>1
<1>6. PICK U \in [Task -> Result] : U = [s.result EXCEPT ![t] = u]
  BY <1>1
<1>7. WaitEnded(s, t, u) = [s EXCEPT !.state = S, !.reason = R, !.object = O,
                                     !.timeout = T, !.result = U]
  BY <1>2, <1>3, <1>4, <1>5, <1>6 DEF WaitEnded
<1>8. WaitEnded(s, t, u) \in SchedState
  <2>1. PICK a : a = [s EXCEPT !.state = S, !.reason = R, !.object = O]
    OBVIOUS
  <2>2. a \in SchedState
    BY <2>1 DEF SchedState
  <2>3. [a EXCEPT !.timeout = T, !.result = U] \in SchedState
    BY <2>2 DEF SchedState
  <2>4. WaitEnded(s, t, u) = [a EXCEPT !.timeout = T, !.result = U]
    BY <1>7, <2>1
  <2> QED
    BY <2>3, <2>4
<1>9. CASE x = NULL
  BY <1>8, <1>9 DEF Hidden
<1>10. CASE x # NULL
  <2>1. PICK h : h = [s EXCEPT !.state = [s.state EXCEPT ![x] = "SUSPENDED"]]
    OBVIOUS
  <2>2. /\ h.reason = s.reason /\ h.object = s.object /\ h.timeout = s.timeout
        /\ h.result = s.result /\ h.state = [s.state EXCEPT ![x] = "SUSPENDED"]
    BY <2>1 DEF SchedState
  <2>3. PICK V : V = [h.state EXCEPT ![t] = "READY"]
    OBVIOUS
  <2>4. V = [S EXCEPT ![x] = "SUSPENDED"]
    BY <1>1, <1>2, <2>2, <2>3
  <2>5. WaitEnded(h, t, u) = [h EXCEPT !.state = V, !.reason = R, !.object = O,
                                       !.timeout = T, !.result = U]
    <3>1. R = [h.reason EXCEPT ![t] = "NONE"] /\ O = [h.object EXCEPT ![t] = NULL]
      BY <1>3, <1>4, <2>2
    <3>2. T = [h.timeout EXCEPT ![t] = 0] /\ U = [h.result EXCEPT ![t] = u]
      BY <1>5, <1>6, <2>2
    <3> QED
      BY <2>3, <3>1, <3>2 DEF WaitEnded
  <2>6. WaitEnded(h, t, u) = [s EXCEPT !.state = V, !.reason = R, !.object = O,
                                       !.timeout = T, !.result = U]
    <3>1. [h EXCEPT !.state = V] = [s EXCEPT !.state = V]
      BY <2>1 DEF SchedState
    <3>2. PICK a : a = [h EXCEPT !.state = V]
      OBVIOUS
    <3>3. WaitEnded(h, t, u) = [a EXCEPT !.reason = R, !.object = O,
                                         !.timeout = T, !.result = U]
      BY <2>5, <3>2
    <3> QED
      BY <3>1, <3>2, <3>3
  <2>7. Hidden(WaitEnded(s, t, u), x) = [s EXCEPT !.state = V, !.reason = R,
                                           !.object = O, !.timeout = T, !.result = U]
    BY <1>7, <1>10, <2>4 DEF Hidden, SchedState
  <2> QED
    BY <1>8, <1>10, <2>1, <2>6, <2>7 DEF Hidden
<1> QED
  BY <1>9, <1>10

LEMMA HiddenMakeReady ==
  ASSUME NEW s \in SchedState, NEW x \in App \cup {NULL}, NEW t \in Task, t # x,
         NEW u \in Result
  PROVE  MakeReady(Hidden(s, x), t, u) = Hidden(MakeReady(s, t, u), x)
<1>1. PICK a : a = blocked_remove(s, t)
  OBVIOUS
<1>2. a \in SchedState /\ blocked_remove(Hidden(s, x), t) = Hidden(a, x)
  BY <1>1, BlockedRemoveLemma, HiddenUnlink
<1>3. /\ WaitEnded(a, t, u) \in SchedState
      /\ WaitEnded(Hidden(a, x), t, u) = Hidden(WaitEnded(a, t, u), x)
  BY <1>2, HiddenWaitEnded
<1>4. \A r : MakeReady(r, t, u) = ready_insert_tail(WaitEnded(blocked_remove(r, t), t, u), t)
  BY DEF MakeReady, WaitEnded
<1>5. ready_insert_tail(Hidden(WaitEnded(a, t, u), x), t)
          = Hidden(ready_insert_tail(WaitEnded(a, t, u), t), x)
  BY <1>3, HiddenInsert
<1> QED
  BY <1>1, <1>2, <1>3, <1>4, <1>5

LEMMA HiddenTrigger ==
  ASSUME NEW s \in SchedState, NEW x \in App \cup {NULL}
  PROVE  scheduler_trigger_switch(Hidden(s, x)) = Hidden(scheduler_trigger_switch(s), x)
<1>1. CASE x = NULL
  BY <1>1 DEF Hidden
<1>2. CASE x # NULL
  BY <1>2 DEF Hidden, scheduler_trigger_switch, SchedState
<1> QED BY <1>1, <1>2

\* The end of the tick.
LEMMA HiddenYield ==
  ASSUME NEW s \in SchedState, NEW x \in App \cup {NULL}
  PROVE  scheduler_yield(Hidden(s, x)) = Hidden(scheduler_yield(s), x)
<1>1. CASE x = NULL
  BY <1>1 DEF Hidden
<1>2. CASE x # NULL
  <2>1. Rotate(Hidden(s, x)) = Hidden(Rotate(s), x)
    BY <1>2 DEF Hidden, Rotate, SchedState
  <2>2. s.cur # NULL => Rotate(s) \in SchedState
    BY RotateLemma
  <2> QED
    BY <1>2, <2>1, <2>2, HiddenTrigger DEF Hidden, scheduler_yield, SchedState
<1> QED BY <1>1, <1>2

LEMMA HiddenCharge ==
  ASSUME NEW s \in SchedState, NEW x \in App \cup {NULL}
  PROVE  charge_slice(Hidden(s, x)) = Hidden(charge_slice(s), x)
<1>1. CASE x = NULL
  BY <1>1 DEF Hidden
<1>2. CASE x # NULL /\ s.cur = NULL
  BY <1>2, HiddenFields DEF charge_slice
<1>3. CASE x # NULL /\ s.cur # NULL
  <2>1. PICK n : n = IF s.slice[s.cur] > 0 THEN s.slice[s.cur] - 1 ELSE 0
    OBVIOUS
  <2>2. n \in 0 .. TimeSlice /\ TimeSlice \in 0 .. TimeSlice
    BY <1>3, <2>1, ConstantsAssumption DEF SchedState
  <2>3. ASSUME NEW m \in 0 .. TimeSlice
        PROVE  /\ [s EXCEPT !.slice[s.cur] = m] \in SchedState
               /\ [Hidden(s, x) EXCEPT !.slice[s.cur] = m]
                      = Hidden([s EXCEPT !.slice[s.cur] = m], x)
    BY <1>3 DEF Hidden, SchedState
  <2>4. Hidden(s, x).cur = s.cur /\ Hidden(s, x).slice = s.slice
    BY HiddenFields
  <2>5. CASE RoundRobin /\ n = 0
    <3>1. charge_slice(s) = scheduler_yield([s EXCEPT !.slice[s.cur] = TimeSlice])
      BY <1>3, <2>1, <2>5 DEF charge_slice
    <3>2. charge_slice(Hidden(s, x))
              = scheduler_yield([Hidden(s, x) EXCEPT !.slice[s.cur] = TimeSlice])
      BY <1>3, <2>1, <2>4, <2>5 DEF charge_slice
    <3> QED
      BY <2>2, <2>3, <3>1, <3>2, HiddenYield
  <2>6. CASE ~(RoundRobin /\ n = 0)
    <3>1. charge_slice(s) = [s EXCEPT !.slice[s.cur] = n]
      BY <1>3, <2>1, <2>6 DEF charge_slice
    <3>2. charge_slice(Hidden(s, x)) = [Hidden(s, x) EXCEPT !.slice[s.cur] = n]
      BY <1>3, <2>1, <2>4, <2>6 DEF charge_slice
    <3> QED
      BY <2>2, <2>3, <3>1, <3>2
  <2> QED
    BY <2>5, <2>6
<1> QED BY <1>1, <1>2, <1>3

LEMMA HiddenPreempt ==
  ASSUME NEW s \in SchedState, NEW x \in App \cup {NULL}
  PROVE  preempt_check(Hidden(s, x)) = Hidden(preempt_check(s), x)
<1>1. CASE x = NULL
  BY <1>1 DEF Hidden
<1>2. CASE x # NULL
  BY <1>2 DEF Hidden, preempt_check, scheduler_trigger_switch, SchedState
<1> QED BY <1>1, <1>2

\* What an exception does to task y: nothing, or it ends y's wait.
Ticked(y) == \/ /\ sched'.state[y] = sched.state[y]
                /\ sched'.reason[y] = sched.reason[y] /\ sched'.object[y] = sched.object[y]
             \/ sched.state[y] = "BLOCKED" /\ Freed(sched', y)

\* What the rules say of the lists between the steps of a boost: they hold
\* once x, the task on the move, is left aside.
RuledBut(x) == /\ Ruled(Hidden(sched, x))
               /\ scan.job # "none" => Visits(Hidden(sched, x), scan.rest)

\* SysTick and PendSV come at any step of a boost and keep it so.
LEMMA ExceptionHidden ==
  ASSUME Base, Exception, NEW x \in App \cup {NULL}, RuledBut(x)
  PROVE  /\ RuledBut(x)' /\ (sched'.cur = sched.cur \/ sched'.cur # NULL)
         /\ sched'.priority = sched.priority
         /\ \A y \in Task : Ticked(y)
<1>0. /\ sched \in SchedState /\ sched' \in SchedState /\ scan \in ScanState
  BY NextBase DEF Next, Base, TypeOK
<1>1. PICK h : h = Hidden(sched, x)
  OBVIOUS
<1>2. PICK g : g = Hidden(sched', x)
  OBVIOUS
<1>3. /\ h \in SchedState /\ Ruled(h) /\ (scan.job # "none" => Visits(h, scan.rest))
      /\ SameLists(h, sched) /\ SameWaits(h, sched) /\ h.cur = sched.cur
      /\ h.priority = sched.priority /\ h.pendsv = sched.pendsv
      /\ \A y \in Task : h.state[y] = IF y = x THEN "SUSPENDED" ELSE sched.state[y]
  BY <1>0, <1>1, HiddenFields DEF RuledBut
<1>4. /\ g \in SchedState
      /\ SameLists(g, sched') /\ SameWaits(g, sched') /\ g.cur = sched'.cur
      /\ g.priority = sched'.priority /\ g.pendsv = sched'.pendsv
      /\ \A y \in Task : g.state[y] = IF y = x THEN "SUSPENDED" ELSE sched'.state[y]
  BY <1>0, <1>2, HiddenFields
<1>5. RuledBut(x)' <=> Ruled(g) /\ (scan'.job # "none" => Visits(g, scan'.rest))
  BY <1>2 DEF RuledBut
<1>6. CASE SysTick
  <2>1. /\ sched'.state = sched.state /\ sched'.cur = sched.cur
        /\ sched'.pendsv = sched.pendsv /\ sched'.priority = sched.priority
        /\ SameLists(sched', sched) /\ sched'.reason = sched.reason
        /\ sched'.object = sched.object /\ scan'.rest = sched.list[BlockedList]
    BY <1>0, <1>6 DEF SysTick, scheduler_tick, SchedState, SameLists, NoScan
  <2>2. /\ \A y \in Task : g.state[y] = h.state[y]
        /\ g.priority = h.priority /\ SameLists(g, h) /\ g.reason = h.reason
        /\ g.cur = h.cur /\ g.pendsv = h.pendsv
    BY <1>3, <1>4, <2>1 DEF SameLists, SameWaits
  <2>3. Placed(g)
    BY <1>3, <2>2, PlacedKept DEF Ruled
  <2>4. Ruled(g)
    BY <1>3, <1>4, <2>2, <2>3, RuledChange, AppTask DEF Ruled, WaitersBlocked
  <2>5. Visits(h, h.list[BlockedList])
    BY <1>3, LoopBegins
  <2>6. Visits(g, scan'.rest)
    BY <1>3, <2>1, <2>2, <2>5 DEF Visits, SameLists
  <2> QED
    BY <1>5, <2>1, <2>4, <2>6 DEF Ticked
<1>7. CASE TickScan
  <2>1. scan.job # "none" /\ scan.rest # <<>> /\ Visits(h, scan.rest)
    BY <1>3, <1>7 DEF TickScan, tick_scan
  <2>2. PICK t : t = Head(scan.rest)
    OBVIOUS
  <2>3. t \in Task /\ h.state[t] = "BLOCKED" /\ t # x /\ sched.state[t] = "BLOCKED"
    <3>1. t \in Task /\ h.state[t] = "BLOCKED"
      BY <2>1, <2>2, TailProps DEF Visits
    <3> QED
      BY <1>3, <3>1
  <2>4. PICK u : u = IF sched.reason[t] = "DELAY" THEN sched.result[t] ELSE "TIMEOUT"
    OBVIOUS
  <2>5. u \in Result
    BY <1>0, <2>3, <2>4 DEF SchedState, Result
  <2>6. /\ sched' = sched \/ sched' = MakeReady(sched, t, u)
        /\ scan'.rest = Tail(scan.rest)
    BY <1>0, <1>7, <2>2, <2>4 DEF TickScan, tick_scan, ScanState
  <2>7. g = h \/ g = MakeReady(h, t, u)
    BY <1>0, <1>1, <1>2, <2>3, <2>5, <2>6, HiddenMakeReady
  <2>8. Ruled(g) /\ SameRun(g, h) /\ Visits(g, Tail(scan.rest))
    BY <1>3, <2>1, <2>2, <2>5, <2>7, LoopStep
  <2>9. sched'.priority = sched.priority /\ \A y \in Task : Ticked(y)
    <3>1. CASE sched' = sched
      BY <3>1 DEF Ticked
    <3>2. CASE sched' = MakeReady(sched, t, u)
      <4>1. sched'.state = [sched.state EXCEPT ![t] = "READY"] /\ WaitOver(sched', sched, t, u)
        BY <1>0, <2>3, <2>5, <3>2, MakeReadyLemma, MakeReadyWaits
      <4> QED
        BY <1>0, <2>3, <4>1 DEF Ticked, Freed, WaitOver, SchedState
    <3> QED
      BY <2>6, <3>1, <3>2
  <2> QED
    BY <1>3, <1>4, <1>5, <2>6, <2>8, <2>9 DEF SameRun
<1>8. CASE TickEnd
  <2>1. PICK a : a = charge_slice(sched)
    OBVIOUS
  <2>2. PICK b : b = charge_slice(h)
    OBVIOUS
  <2>3. a \in SchedState /\ sched' = preempt_check(a) /\ scan' = NoScan
    BY <1>0, <1>8, <2>1, ChargeSliceLemma DEF TickEnd, tick_end
  <2>4. b = Hidden(a, x) /\ g = preempt_check(b)
    BY <1>0, <1>1, <1>2, <2>1, <2>2, <2>3, HiddenCharge, HiddenPreempt
  <2>5. Ruled(b) /\ b.cur = h.cur
    <3>1. /\ b \in SchedState /\ b.state = h.state /\ b.cur = h.cur
          /\ h.pendsv => b.pendsv
          /\ Placed(b) /\ SameWaits(b, h)
      BY <1>3, <2>2, ChargeSliceLemma, KeepsWaits, AppTask DEF Ruled
    <3>2. WaitersBlocked(b)
      BY <1>3, <3>1, WaitersKept DEF Ruled
    <3> QED
      BY <1>3, <3>1, <3>2, RuledChange DEF Ruled
  <2>6. Ruled(g) /\ g.cur = b.cur
    <3>1. SameRun(g, b) /\ g.state = b.state /\ Placed(g) /\ SameWaits(g, b)
      BY <2>4, <2>5, PreemptCheckLemma, TriggerWaits DEF Ruled
    <3>2. WaitersBlocked(g)
      BY <2>5, <3>1, WaitersKept DEF Ruled
    <3> QED
      BY <1>4, <2>5, <3>1, <3>2, RuledChange DEF Ruled, SameRun
  <2>7. sched'.priority = sched.priority /\ \A y \in Task : Ticked(y)
    <3>1. a.state = sched.state /\ SameWaits(a, sched)
      BY <1>0, <2>1, ChargeSliceLemma, KeepsWaits, AppTask
    <3>2. a.priority = sched.priority
      BY <1>0, <2>1 DEF charge_slice, scheduler_yield, Rotate, scheduler_trigger_switch,
         SchedState
    <3>3. sched'.state = a.state /\ SameWaits(sched', a) /\ sched'.priority = a.priority
      BY <2>3, PreemptCheckLemma, TriggerWaits
      DEF preempt_check, scheduler_trigger_switch, SchedState
    <3> QED
      BY <3>1, <3>2, <3>3 DEF Ticked, SameWaits
  <2> QED
    BY <1>3, <1>4, <1>5, <2>3, <2>5, <2>6, <2>7 DEF NoScan
<1>9. CASE PendSV
  <2>1. PICK next : next = scheduler_get_next(sched)
    OBVIOUS
  <2>2. /\ sched'.cur = next /\ sched'.state = sched.state
        /\ sched'.priority = sched.priority /\ SameLists(sched', sched)
        /\ scan' = scan /\ scan.job = "none" /\ sched'.reason = sched.reason
        /\ sched'.object = sched.object
    BY <1>0, <1>9, <2>1 DEF PendSV, PendSV_Handler, Unmasked, SchedState, SameLists
  <2>3. next = scheduler_get_next(h)
    BY <1>3, <2>1 DEF scheduler_get_next, SameLists
  <2>4. next # NULL /\ h.state[next] \in {"READY", "RUNNING"} /\ next \in Task
    BY <1>3, <2>3, GetNextLemma, AppTask DEF Ruled, Runnable
  <2>5. /\ \A y \in Task : g.state[y] = h.state[y]
        /\ g.priority = h.priority /\ SameLists(g, h) /\ g.reason = h.reason
        /\ g.cur = next
    BY <1>3, <1>4, <2>2 DEF SameLists, SameWaits
  <2>6. Placed(g)
    BY <1>3, <2>5, PlacedKept DEF Ruled
  <2>7. Ruled(g)
    BY <1>4, <1>3, <2>4, <2>5, <2>6, AppTask DEF Ruled, LeavesWhenBlocked, WaitersBlocked
  <2> QED
    BY <1>5, <2>2, <2>4, <2>7 DEF Ticked
<1> QED
  BY <1>6, <1>7, <1>8, <1>9 DEF Exception

-----------------------------------------------------------------------------
(***************************************************************************)
(* The steps of the kernel that are no boost.  No call of the application  *)
(* changes a priority, and none but a delay blocks a task.                 *)
(***************************************************************************)
NoPriorityCalls == "priority" \notin Calls /\ "create" \notin Calls

LEMMA MutexCalls == NoPriorityCalls
BY MutexAssumption, WaitAssumption DEF NoPriorityCalls

LEMMA EffectOnPriority ==
  ASSUME NEW s, Ruled(s), NEW t \in App, s.cur = t, NEW r, CallEffect(r, s, t)
  PROVE  r.priority = s.priority
<1>0. s \in SchedState /\ t \in Task /\ t # NULL
  BY AppTask DEF Ruled
<1>1. \A x \in SchedState : scheduler_yield(x).priority = x.priority
  BY YieldOrder
<1>2. /\ scheduler_lock(s).priority = s.priority
      /\ scheduler_unlock(s).priority = s.priority
  BY <1>0, LockLemma
<1>3. ASSUME NEW n \in Delays \ {0}
      PROVE  /\ scheduler_block_task(s, "DELAY", NULL, n).priority = s.priority
             /\ scheduler_block_task(s, "DELAY", NULL, n) \in SchedState
  <2>1. n \in Tick
    BY <1>3, ApiAssumption
  <2> QED
    <3>1. WaitBegun(scheduler_block_task(s, "DELAY", NULL, n), s, s.cur, "DELAY", NULL, n)
      BY <1>0, <2>1, BlockWaits, DelayArgs
    <3>2. scheduler_block_task(s, "DELAY", NULL, n) \in SchedState
      BY <1>0, <2>1, BlockLemma, DelayArgs
    <3> QED
      BY <3>1, <3>2 DEF WaitBegun
<1>4. ASSUME NEW x \in App
      PROVE  scheduler_unblock_task(s, x, "OK").priority = s.priority
  <2>1. x \in Task /\ "OK" \in Result
    BY AppTask DEF Result
  <2>2. \/ scheduler_unblock_task(s, x, "OK") = s
        \/ WaitOver(scheduler_unblock_task(s, x, "OK"), s, x, "OK")
    BY <1>0, <2>1, UnblockTaskWaits
  <2> QED
    BY <2>2 DEF WaitOver
<1>5. \A x \in App : scheduler_add_task(s, x).priority = s.priority
  BY <1>0, AddReadies, AppTask
<1>6. ASSUME NEW x \in App, NEW st \in {"SUSPENDED", "DELETED"}
      PROVE  /\ stop_task(s, x, st).priority = s.priority
             /\ stop_task(s, x, st) \in SchedState
  <2>1. x \in Task /\ st \in TaskState
    BY <1>6, AppTask DEF TaskState
  <2>2. /\ scheduler_remove_task(s, x).priority = s.priority
        /\ scheduler_remove_task(s, x) \in SchedState
    BY <1>0, <2>1, RemoveTaskLemma DEF SameFields
  <2>3. stop_task(s, x, st).priority = scheduler_remove_task(s, x).priority
    BY <2>2 DEF stop_task, SchedState
  <2> QED
    BY <1>0, <2>1, <2>2, <2>3, StopReadies
<1> QED
  BY <1>0, <1>1, <1>2, <1>3, <1>4, <1>5, <1>6, MutexCalls DEF CallEffect, NoPriorityCalls

LEMMA KeepsRunning ==
  ASSUME ~Racy, RuleInv, Next, kstate = "RUNNING"
  PROVE  kstate' = "RUNNING"
<1>1. CASE Boot
  BY <1>1 DEF Boot, kernel_init, kernel_start, scheduler_start, main_create
<1>2. CASE Exception
  BY <1>2 DEF Exception, SysTick, TickScan, TickEnd, PendSV
<1>3. ASSUME NEW t \in App, Direct(t)
      PROVE  kstate' = "RUNNING"
  BY <1>3 DEF Direct, task_yield, block_return, suspend_yield, delete_yield,
     scheduler_lock_call, scheduler_unlock_call, resume_write, resume_add, prio_remove,
     prio_write, prio_store, prio_add, create_add, task_delay, task_suspend, task_delete,
     task_resume, unblock_task_call, task_set_priority, task_create_call, Kernel
<1>4. ASSUME NEW t \in App, Svc(t)
      PROVE  kstate' = "RUNNING"
  BY <1>4 DEF Svc, svc_suspend, svc_delete, svc_delay, svc_resume, svc_priority,
     svc_create, Kernel
<1> QED
  BY <1>1, <1>2, <1>3, <1>4 DEF Next

LEMMA RuledNobodyMoves ==
  ASSUME RuleInv, kstate # "UNINIT"
  PROVE  RuledBut(NULL)
BY DEF RuledBut, Hidden, RuleInv, LoopVisitsBlocked

\* While the kernel runs.
LEMMA QuietStep ==
  ASSUME ~Racy, RuleInv, Next, kstate = "RUNNING"
  PROVE  /\ sched'.priority = sched.priority
         /\ \A y \in Task : sched'.state[y] = "BLOCKED"
                => sched.state[y] = "BLOCKED" \/ sched'.reason[y] = "DELAY"
<1>1. CASE Boot
  BY <1>1 DEF Boot, kernel_init, kernel_start, scheduler_start, main_create
<1>2. CASE Exception
  <2>1. sched'.priority = sched.priority /\ \A y \in Task : Ticked(y)
    BY <1>2, RuledNobodyMoves, ExceptionHidden DEF RuleInv
  <2> QED
    BY <2>1 DEF Ticked, Freed
<1>3. ASSUME NEW t \in App, Direct(t) \/ Svc(t)
      PROVE  /\ sched'.priority = sched.priority
             /\ \A y \in Task : sched'.state[y] = "BLOCKED"
                    => sched.state[y] = "BLOCKED" \/ sched'.reason[y] = "DELAY"
  <2>1. /\ Ruled(sched) /\ sched.cur = t /\ sched.state[t] # "BLOCKED"
        /\ CallEffect(sched', sched, t)
    BY <1>3, Stepping, CallEffects
  <2>2. sched'.priority = sched.priority
    BY <2>1, EffectOnPriority
  <2>3. \A y \in Task : \/ SameWait(sched', sched, y) \/ FallsAsleepAt(sched', sched, y)
                        \/ Freed(sched', y)
    BY <2>1, EffectOnWaits
  <2> QED
    BY <2>2, <2>3 DEF SameWait, FallsAsleepAt, Freed
<1> QED
  BY <1>1, <1>2, <1>3 DEF Next

\* A task's priority is written when its TCB is created, and before the
\* kernel runs by nothing else.
LEMMA FreshPriority ==
  ASSUME ~Racy, RuleInv, Next, NEW y \in App
  PROVE  \/ sched'.priority[y] = sched.priority[y]
         \/ ~Created(y) /\ sched'.state[y] # "UNUSED"
<1>0. sched \in SchedState /\ y \in Task /\ y # Idle
  BY AppTask DEF RuleInv, Base, TypeOK
<1>1. CASE kstate = "RUNNING"
  BY <1>1, QuietStep
<1>2. CASE Boot
  <2>1. CASE kernel_init
    <3>1. sched' = task_create(sched, Idle, MaxPriority - 1) /\ MaxPriority - 1 \in Prio
      BY <2>1, ConstantsAssumption DEF kernel_init, RuleInv, Prio
    <3> QED
      BY <1>0, <3>1, CreateReadies, AppTask DEF Readied
  <2>2. ASSUME NEW x \in App, NEW p \in Prio, main_create(x, p)
        PROVE  \/ sched'.priority[y] = sched.priority[y]
               \/ ~Created(y) /\ sched'.state[y] # "UNUSED"
    <3>1. ~Created(x) /\ sched' = task_create(sched, x, p) /\ x \in Task
      BY <2>2, AppTask DEF main_create
    <3>2. sched'.state[x] = "READY"
      BY <1>0, <3>1, CreateWaits DEF Freed
    <3> QED
      BY <1>0, <3>1, <3>2, CreateReadies DEF Readied
  <2>3. CASE kernel_start
    BY <2>3 DEF kernel_start
  <2>4. CASE scheduler_start
    BY <1>0, <2>4 DEF scheduler_start, SchedState
  <2> QED
    BY <1>2, <2>1, <2>2, <2>3, <2>4 DEF Boot
<1>3. CASE Exception
  <2>1. kstate # "UNINIT"
    BY <1>3 DEF Exception, SysTick, TickScan, TickEnd, PendSV, InterruptsOn, tick_scan,
       tick_end, RuleInv, NoScan
  <2> QED
    BY <1>3, <2>1, RuledNobodyMoves, ExceptionHidden DEF RuleInv
<1>4. ASSUME NEW t \in App, Direct(t) \/ Svc(t)
      PROVE  kstate = "RUNNING"
  BY <1>4, Stepping
<1> QED
  BY <1>1, <1>2, <1>3, <1>4 DEF Next

-----------------------------------------------------------------------------
(***************************************************************************)
(* The invariant of priority inheritance, for boosts that nobody disturbs. *)
(* From the booster's test to the end of its scheduler_set_priority the    *)
(* owner stays the owner, and as awake or as stopped as the booster found  *)
(* it, unless a tick wakes it before its priority is stored                *)
(* (WokenTooEarly, which late records); while the owner is off its list,   *)
(* the rules hold for the others.                                          *)
(***************************************************************************)
MovingPC == {"prio_remove", "prio_write", "prio_add", "prio_store"}

\* The owner of a mutex that is not recursive does not lock it once more (it
\* would wait for itself); that of a recursive one does not wait for it.
OwnerOutside == ~Recursive /\ owner # NULL => spc[owner] = "out"

OnMove == IF \E t \in App : pc[t] \in {"prio_write", "prio_add"} THEN owner ELSE NULL

MoveInv == /\ Base
           /\ kstate = "UNINIT" => sched = scheduler_init
           /\ kstate \in {"UNINIT", "INIT"} => scan = NoScan
           /\ kstate # "UNINIT" => RuledBut(OnMove)
           /\ kstate = "RUNNING" => sched.cur # NULL
           /\ pc \in [Task -> AtomicPC \cup MovingPC] /\ pc[Idle] \in AtomicPC

\* What a booster has seen of the owner is still so.
BoostAt(t) ==
  /\ kstate = "RUNNING" /\ owner \in App
  /\ pc[t] = "run" \/ spc[t] = "block"
  /\ Target(t) = owner /\ arg[t].prio = sched.priority[t]
  /\ IF pc[t] = "prio_add" THEN sched.priority[owner] = sched.priority[t]
                           ELSE sched.priority[owner] > sched.priority[t]
  /\ pc[t] = "prio_store" => sched.state[owner] \notin Runnable
  /\ pc[t] \in {"prio_remove", "prio_write", "prio_add"} => sched.state[owner] \in Runnable

BoostInv == \A t \in App : Boosting(t) => BoostAt(t)

\* There is no owner before the kernel runs.
OwnerInv == /\ owner # NULL => kstate = "RUNNING"
            /\ behind \subseteq App /\ (behind # {} => owner # NULL)

\* t has done its part, and may block or is blocked already.
Settled(t) == \/ spc[t] = "block" /\ pc[t] \notin MovingPC
              \/ WaitsFor(sched, t, "MUTEX", Mtx)

Inherited == \A t \in behind : Settled(t) => sched.priority[owner] <= sched.priority[t]

Fields == base \in [Task -> Prio] /\ stim \in [Task -> Tick]

InheritInv == /\ HoldInv /\ MoveInv /\ BoostInv /\ OwnerInv /\ Inherited
              /\ PriorityRestored /\ Fields

LEMMA OwnerOut ==
  ASSUME HoldInv, OwnerOutside, owner # NULL
  PROVE  owner \in App /\ owner \in Task /\ spc[owner] = "out" /\ depth[owner] > 0
BY AppTask DEF HoldInv, Counts, OwnerIsOut, OwnerOutside, MutualExclusion

\* Between boosts the rules of TaskApi hold as they are.
Resting == \A t \in App : pc[t] \notin MovingPC

LEMMA RestRule ==
  ASSUME MoveInv, Resting
  PROVE  RuleInv
<1>1. pc \in [Task -> AtomicPC]
  <2>1. ASSUME NEW t \in Task PROVE pc[t] \in AtomicPC
    BY DEF MoveInv, Resting, Task
  <2> QED BY <2>1 DEF MoveInv
<1>2. OnMove = NULL
  BY DEF OnMove, Resting, MovingPC
<1>3. kstate # "UNINIT" => Ruled(sched) /\ LoopVisitsBlocked
  BY <1>2 DEF MoveInv, RuledBut, Hidden, LoopVisitsBlocked
<1>4. kstate = "UNINIT" => LoopVisitsBlocked
  BY DEF MoveInv, LoopVisitsBlocked, NoScan
<1> QED
  BY <1>1, <1>3, <1>4 DEF MoveInv, RuleInv

LEMMA RuleRest == RuleInv => MoveInv /\ Resting
<1> SUFFICES ASSUME RuleInv PROVE MoveInv /\ Resting
  OBVIOUS
<1>1. Resting
  BY AppTask DEF RuleInv, AtomicPC, Resting, MovingPC
<1>2. OnMove = NULL
  BY <1>1 DEF OnMove, Resting, MovingPC
<1>3. kstate # "UNINIT" => RuledBut(OnMove)
  BY <1>2, RuledNobodyMoves
<1> QED
  BY <1>1, <1>3, AppTask DEF RuleInv, MoveInv

\* While a task boosts, nothing happens but its own steps and exceptions.
LEMMA WhileBoosting ==
  ASSUME HoldInv, OwnerOutside, BoostInv, BoostsAlone, NEW t \in App, Boosting(t), MutexNext
  PROVE  \/ Exception /\ UNCHANGED <<waitVars, owner, rec, depth, behind>> /\ set_base
         \/ mutex_lock_raise(t) /\ spc[t] = "raise" /\ pc[t] = "run"
         \/ /\ prio_remove(t) \/ prio_write(t) \/ prio_store(t) \/ prio_add(t)
            /\ UNCHANGED <<waitVars, owner, rec, depth, behind>> /\ set_base
<1>1. BoostAt(t) /\ sched.cur = t /\ kstate = "RUNNING"
  BY DEF BoostInv, BoostsAlone, BoostAt
<1>2. \/ spc[t] = "raise" /\ pc[t] = "run"
      \/ spc[t] = "block" /\ pc[t] \in MovingPC
  BY <1>1 DEF BoostAt, Boosting, MovingPC
<1>3. CASE OtherStep
  <2>1. KernelStep /\ UNCHANGED <<waitVars, owner, rec, depth, behind>> /\ set_base
    BY <1>3 DEF OtherStep, KernelStep
  <2>2. ~Boot
    BY <1>1 DEF Boot, kernel_init, kernel_start, scheduler_start, main_create
  <2>3. ASSUME NEW u \in App, spc[u] = "out" \/ pc[u] # "run", Direct(u)
        PROVE  prio_remove(t) \/ prio_write(t) \/ prio_store(t) \/ prio_add(t)
    <3>1. sched.cur = u
      BY <2>3 DEF Direct, task_yield, block_return, suspend_yield, delete_yield,
         scheduler_lock_call, scheduler_unlock_call, resume_write, resume_add, prio_remove,
         prio_write, prio_store, prio_add, create_add, task_delay, task_suspend,
         task_delete, task_resume, unblock_task_call, task_set_priority,
         task_create_call, Calling, At, Runs
    <3>2. u = t /\ pc[t] \in MovingPC
      BY <1>1, <1>2, <2>3, <3>1
    <3> QED
      BY <2>3, <3>2 DEF MovingPC, Direct, task_yield, block_return, suspend_yield,
         delete_yield, scheduler_lock_call, scheduler_unlock_call, resume_write,
         resume_add, create_add, task_delay, task_suspend, task_delete, task_resume,
         unblock_task_call, task_set_priority, task_create_call, Calling, At
  <2>4. ASSUME NEW u \in App, spc[u] = "out" \/ pc[u] # "run", Svc(u)
        PROVE  FALSE
    <3>1. sched.cur = u /\ pc[u] = "run"
      BY <2>4 DEF Svc, svc_suspend, svc_delete, svc_delay, svc_resume, svc_priority,
         svc_create, Calling, At, Runs
    <3> QED
      BY <1>1, <1>2, <2>4, <3>1 DEF MovingPC
  <2> QED
    BY <2>1, <2>2, <2>3, <2>4 DEF KernelStep
<1>4. ASSUME NEW u \in App, MutexCall(u)
      PROVE  u = t /\ spc[t] = "raise" /\ pc[t] = "run" /\ mutex_lock_raise(t)
  <2>1. sched.cur = u /\ pc[u] = "run"
    BY <1>4 DEF MutexCall, mutex_lock_boost, mutex_lock_raise, mutex_lock_wait,
       mutex_lock_result, mutex_unlock, mutex_lock, block_task, block_task_yield,
       WaitEnds, WaitAt, At, Runs
  <2>2. u = t /\ spc[t] = "raise" /\ pc[t] = "run"
    BY <1>1, <1>2, <2>1 DEF MovingPC
  <2> QED
    BY <1>4, <2>2 DEF MutexCall, mutex_lock_boost, mutex_lock_wait,
       mutex_lock_result, mutex_unlock, mutex_lock, block_task, block_task_yield,
       WaitEnds, WaitAt
<1> QED
  BY <1>3, <1>4 DEF MutexNext

\* task_create sets base_priority together with the priority, and nothing
\* else but a boost of the owner changes a priority.
LEMMA BaseKept ==
  ASSUME sched \in SchedState, sched' \in SchedState, Fields, PriorityRestored,
         set_base, UNCHANGED <<stim, owner>>,
         \A y \in App : owner # y => \/ sched'.priority[y] = sched.priority[y]
                                     \/ ~Created(y) /\ sched'.state[y] # "UNUSED"
  PROVE  Fields' /\ PriorityRestored'
<1>1. sched'.priority \in [Task -> Prio]
  BY DEF SchedState
<1>2. base' \in [Task -> Prio]
  BY <1>1 DEF set_base, Fields
<1>3. ASSUME NEW y \in App, owner # y
      PROVE  sched'.priority[y] = base'[y]
  <2>1. y \in Task /\ sched.priority[y] = base[y]
    BY <1>3, AppTask DEF PriorityRestored
  <2>2. base'[y] = IF ~Created(y) /\ sched'.state[y] # "UNUSED"
                   THEN sched'.priority[y] ELSE base[y]
    BY <2>1 DEF set_base
  <2> QED
    BY <1>3, <2>1, <2>2
<1> QED
  BY <1>2, <1>3 DEF Fields, PriorityRestored

\* Where everybody is while t boosts.
LEMMA Booster ==
  ASSUME InheritInv, BoostsAlone, OwnerOutside, NEW t \in App, Boosting(t)
  PROVE  /\ t \in Task /\ owner \in App /\ owner \in Task /\ owner # t /\ owner # NULL
         /\ BoostAt(t) /\ kstate = "RUNNING" /\ sched.cur = t
         /\ \A u \in App \ {t} : ~Boosting(u) /\ pc[u] \notin MovingPC
         /\ OnMove = IF pc[t] \in {"prio_write", "prio_add"} THEN owner ELSE NULL
         /\ RuledBut(OnMove) /\ Base
         /\ sched \in SchedState
         /\ pc \in [Task -> PC] /\ arg \in [Task -> Arg] /\ spc \in [Task -> MutexLabel]
         /\ sched.priority \in [Task -> Nat] /\ arg[t].prio \in Prio
<1>1. BoostAt(t) /\ sched.cur = t /\ t \in Task
  BY AppTask DEF InheritInv, BoostInv, BoostsAlone
<1>2. kstate = "RUNNING" /\ owner \in App /\ owner \in Task /\ owner # NULL
  BY <1>1, AppTask DEF BoostAt
<1>3. spc[t] = "raise" \/ spc[t] = "block"
  BY <1>1 DEF Boosting, BoostAt
<1>4. owner # t
  BY <1>2, <1>3, OwnerOut DEF InheritInv
<1>5. \A u \in App \ {t} : ~Boosting(u) /\ pc[u] \notin MovingPC
  BY <1>1 DEF BoostsAlone, Boosting, MovingPC
<1>6. OnMove = IF pc[t] \in {"prio_write", "prio_add"} THEN owner ELSE NULL
  BY <1>5 DEF OnMove, MovingPC
<1>7. /\ Base /\ RuledBut(OnMove)
      /\ spc \in [Task -> MutexLabel]
  BY <1>2 DEF InheritInv, MoveInv, OwnerInv, HoldInv
<1>8. sched \in SchedState /\ pc \in [Task -> PC] /\ arg \in [Task -> Arg]
  BY <1>7 DEF Base, TypeOK
<1>9. sched.priority \in [Task -> Nat] /\ arg[t].prio \in Prio
  BY <1>1, <1>8 DEF SchedState, Prio, Arg
<1> QED
  BY <1>1, <1>2, <1>4, <1>5, <1>6, <1>7, <1>8, <1>9

\* What one of a booster's steps has to show.
LEMMA BoostStepInv ==
  ASSUME InheritInv, BoostsAlone, OwnerOutside, NEW t \in App, Boosting(t),
         UNCHANGED <<owner, behind>>,
         MoveInv', Fields', PriorityRestored', kstate' = kstate,
         \A u \in App \ {t} : pc'[u] = pc[u] /\ spc'[u] = spc[u],
         Boosting(t)' => BoostAt(t)',
         sched'.reason = sched.reason, sched'.object = sched.object,
         \A u \in App \ {owner} : sched'.priority[u] = sched.priority[u],
         sched'.priority[owner] \in Nat, sched'.priority[owner] <= sched.priority[owner],
         (spc'[t] = "block" /\ pc'[t] \notin MovingPC) => sched'.priority[owner] <= sched'.priority[t]
  PROVE  MoveInv' /\ BoostInv' /\ OwnerInv' /\ Inherited' /\ PriorityRestored' /\ Fields'
<1>1. /\ t \in Task /\ owner \in App /\ owner # t /\ kstate = "RUNNING"
      /\ \A u \in App \ {t} : ~Boosting(u) /\ pc[u] \notin MovingPC
      /\ sched.priority \in [Task -> Nat]
  BY Booster
<1>2. BoostInv'
  <2>1. \A u \in App \ {t} : ~Boosting(u)'
    BY <1>1 DEF Boosting
  <2> QED
    BY <2>1 DEF BoostInv
<1>3. OwnerInv'
  BY <1>1 DEF InheritInv, OwnerInv
<1>4. ASSUME NEW u \in behind, Settled(u)'
      PROVE  sched'.priority[owner] <= sched'.priority[u]
  <2>1. u \in App /\ u \in Task /\ owner \in Task
    BY <1>1, AppTask DEF InheritInv, OwnerInv
  <2>2. CASE u = t /\ spc'[t] = "block" /\ pc'[t] \notin MovingPC
    BY <2>2
  <2>3. CASE u = owner
    BY <2>3
  <2>4. CASE u # owner /\ ~(u = t /\ spc'[t] = "block" /\ pc'[t] \notin MovingPC)
    <3>1. Settled(u)
      BY <1>4, <2>1, <2>4 DEF Settled, WaitsFor
    <3>2. sched.priority[owner] <= sched.priority[u]
      BY <3>1 DEF InheritInv, Inherited
    <3>3. sched'.priority[u] = sched.priority[u]
      BY <2>1, <2>4
    <3>4. sched.priority[owner] \in Nat /\ sched.priority[u] \in Nat
      BY <1>1, <2>1
    <3> QED
      BY <3>2, <3>3, <3>4
  <2> QED
    BY <2>2, <2>3, <2>4
<1> QED
  BY <1>2, <1>3, <1>4 DEF Inherited

LEMMA MoveKept ==
  ASSUME MoveInv, kstate = "RUNNING", kstate' = kstate, Base', RuledBut(OnMove)',
         sched'.cur = sched.cur \/ sched'.cur # NULL,
         pc' = pc \/ \E t \in App, l \in {"run"} \cup MovingPC : pc' = [pc EXCEPT ![t] = l]
  PROVE  MoveInv'
<1>1. pc' \in [Task -> AtomicPC \cup MovingPC] /\ pc'[Idle] \in AtomicPC
  BY AppTask DEF MoveInv, AtomicPC
<1> QED
  BY <1>1 DEF MoveInv

\* The head of scheduler_set_priority looks at the owner's state.
LEMMA RaiseStep ==
  ASSUME InheritInv, BoostsAlone, OwnerOutside, NEW t \in App, mutex_lock_raise(t)
  PROVE  MoveInv' /\ BoostInv' /\ OwnerInv' /\ Inherited' /\ PriorityRestored' /\ Fields'
<1>1. /\ spc[t] = "raise" /\ pc[t] = "run" /\ Boosting(t)
      /\ UNCHANGED <<sched, scan, kstate, arg, stim, owner, rec, base, depth, behind>>
      /\ spc' = [spc EXCEPT ![t] = "block"]
  BY DEF mutex_lock_raise, WaitAt, At, Boosting, To, mutexVars
<1>2. /\ t \in Task /\ owner \in App /\ owner # t /\ owner # NULL
      /\ BoostAt(t) /\ kstate = "RUNNING" /\ Target(t) = owner
      /\ \A u \in App \ {t} : pc[u] \notin MovingPC
      /\ OnMove = NULL /\ RuledBut(NULL) /\ Base
      /\ pc \in [Task -> PC] /\ spc \in [Task -> MutexLabel]
      /\ sched.priority \in [Task -> Nat]
  BY <1>1, Booster DEF BoostAt
<1>3. \/ sched.state[owner] \in Runnable /\ pc' = [pc EXCEPT ![t] = "prio_remove"]
      \/ sched.state[owner] \notin Runnable /\ pc' = [pc EXCEPT ![t] = "prio_store"]
  BY <1>2 DEF mutex_lock_raise, Goto, Runnable
<1>4. /\ \/ sched.state[owner] \in Runnable /\ pc'[t] = "prio_remove"
         \/ sched.state[owner] \notin Runnable /\ pc'[t] = "prio_store"
      /\ spc'[t] = "block" /\ \A u \in App \ {t} : pc'[u] = pc[u] /\ spc'[u] = spc[u]
  BY <1>1, <1>2, <1>3, AppTask
<1>5. OnMove' = NULL
  BY <1>1, <1>2, <1>3, <1>4 DEF OnMove, MovingPC
<1>6. Base'
  <2>1. pc' \in [Task -> PC]
    BY <1>2, <1>3 DEF PC
  <2> QED
    BY <1>1, <1>2, <2>1 DEF Base, TypeOK, ListsSound, DeferredYieldKept
<1>7. RuledBut(OnMove)'
  BY <1>1, <1>2, <1>5 DEF RuledBut
<1>8. MoveInv'
  BY <1>1, <1>2, <1>3, <1>6, <1>7, MoveKept DEF InheritInv, MovingPC
<1>9. BoostAt(t)'
  BY <1>1, <1>2, <1>3, <1>4 DEF BoostAt, Target
<1>10. Fields' /\ PriorityRestored'
  BY <1>1 DEF InheritInv, Fields, PriorityRestored
<1>11. sched.priority[owner] \in Nat /\ sched.priority[owner] <= sched.priority[owner]
  BY <1>2, AppTask
<1>12. ~(spc'[t] = "block" /\ pc'[t] \notin MovingPC)
  BY <1>3, <1>4 DEF MovingPC
<1> QED
  BY <1>1, <1>2, <1>4, <1>8, <1>9, <1>10, <1>11, <1>12, BoostStepInv

\* The steps of scheduler_set_priority: what they have in common.
PrioStep(t) == /\ prio_remove(t) \/ prio_write(t) \/ prio_store(t) \/ prio_add(t)
               /\ UNCHANGED <<waitVars, owner, rec, depth, behind>> /\ set_base

LEMMA PrioFrame ==
  ASSUME InheritInv, BoostsAlone, OwnerOutside, NEW t \in App, PrioStep(t)
  PROVE  /\ Boosting(t) /\ pc[t] \in MovingPC /\ spc[t] = "block" /\ Target(t) = owner
         /\ scan' = scan /\ scan.job = "none" /\ kstate' = kstate
         /\ Base' /\ sched' \in SchedState
         /\ UNCHANGED <<spc, stim, owner, behind>>
<1>1. pc[t] \in MovingPC /\ scan' = scan /\ scan.job = "none" /\ kstate' = kstate
  BY DEF PrioStep, prio_remove, prio_write, prio_store, prio_add, At, Runs, Unmasked,
     Kernel, MovingPC
<1>2. Boosting(t)
  BY <1>1 DEF Boosting, MovingPC
<1>3. BoostAt(t) /\ Base
  BY <1>2, Booster
<1>4. spc[t] = "block" /\ Target(t) = owner
  BY <1>1, <1>3 DEF BoostAt, MovingPC
<1>5. Next
  BY DEF PrioStep, Next, Direct
<1>6. Base'
  BY <1>3, <1>5, NextBase
<1> QED
  BY <1>1, <1>2, <1>4, <1>6 DEF Base, TypeOK, PrioStep, waitVars

\* The owner leaves its list.
LEMMA RemoveStep ==
  ASSUME InheritInv, BoostsAlone, OwnerOutside, NEW t \in App, PrioStep(t), prio_remove(t)
  PROVE  MoveInv' /\ BoostInv' /\ OwnerInv' /\ Inherited' /\ PriorityRestored' /\ Fields'
<1>1. /\ Boosting(t) /\ spc[t] = "block" /\ Target(t) = owner
      /\ scan' = scan /\ scan.job = "none" /\ kstate' = kstate
      /\ Base' /\ sched' \in SchedState /\ UNCHANGED <<spc, stim, owner, behind>>
  BY PrioFrame
<1>2. /\ t \in Task /\ owner \in App /\ owner \in Task /\ owner # t /\ owner # NULL
      /\ BoostAt(t) /\ kstate = "RUNNING"
      /\ \A u \in App \ {t} : pc[u] \notin MovingPC
      /\ OnMove = IF pc[t] \in {"prio_write", "prio_add"} THEN owner ELSE NULL
      /\ RuledBut(OnMove)
      /\ pc \in [Task -> PC] /\ sched \in SchedState
      /\ sched.priority \in [Task -> Nat]
  BY <1>1, Booster
<1>3. /\ pc[t] = "prio_remove" /\ pc' = [pc EXCEPT ![t] = "prio_write"]
      /\ sched' = scheduler_remove_task(sched, owner) /\ arg' = arg
  BY <1>1 DEF prio_remove, At, Goto, Kernel
<1>4. SameFields(sched', sched)
  BY <1>2, <1>3, RemoveTaskLemma
<1>5. /\ pc'[t] = "prio_write" /\ pc'[t] \in MovingPC
      /\ \A u \in App \ {t} : pc'[u] = pc[u]
  BY <1>2, <1>3, AppTask DEF MovingPC
<1>6. OnMove' = owner
  BY <1>1, <1>5 DEF OnMove
<1>7. Ruled(sched)
  BY <1>2, <1>3 DEF RuledBut, Hidden
<1>8. Hidden(sched', owner) = stop_task(sched, owner, "SUSPENDED")
  BY <1>2, <1>3 DEF Hidden, stop_task
<1>9. Ruled(Hidden(sched', owner))
  <2>1. sched.state[owner] # "BLOCKED"
    BY <1>2, <1>3 DEF BoostAt, Runnable
  <2> QED
    BY <1>2, <1>7, <1>8, <2>1, RuledStop
<1>10. RuledBut(OnMove)'
  BY <1>1, <1>6, <1>9 DEF RuledBut
<1>11. MoveInv'
  BY <1>1, <1>2, <1>3, <1>4, <1>10, MoveKept DEF InheritInv, MovingPC, SameFields
<1>12. BoostAt(t)'
  BY <1>1, <1>2, <1>3, <1>4, <1>5 DEF BoostAt, Target, SameFields
<1>13. Fields' /\ PriorityRestored'
  BY <1>1, <1>2, <1>4, BaseKept DEF InheritInv, PrioStep, SameFields
<1>14. /\ sched'.priority = sched.priority /\ sched'.state = sched.state
       /\ sched'.reason = sched.reason /\ sched'.object = sched.object
       /\ sched.priority[owner] \in Nat /\ sched.priority[owner] <= sched.priority[owner]
  BY <1>2, <1>4 DEF SameFields
<1> QED
  BY <1>1, <1>2, <1>5, <1>11, <1>12, <1>13, <1>14, BoostStepInv

\* The owner's priority is written while it is on no list.
LEMMA WriteStep ==
  ASSUME InheritInv, BoostsAlone, OwnerOutside, NEW t \in App, PrioStep(t), prio_write(t)
  PROVE  MoveInv' /\ BoostInv' /\ OwnerInv' /\ Inherited' /\ PriorityRestored' /\ Fields'
<1>1. /\ Boosting(t) /\ spc[t] = "block" /\ Target(t) = owner
      /\ scan' = scan /\ scan.job = "none" /\ kstate' = kstate
      /\ Base' /\ sched' \in SchedState /\ UNCHANGED <<spc, stim, owner, behind>>
  BY PrioFrame
<1>2. /\ t \in Task /\ owner \in App /\ owner \in Task /\ owner # t /\ owner # NULL
      /\ BoostAt(t) /\ kstate = "RUNNING"
      /\ OnMove = IF pc[t] \in {"prio_write", "prio_add"} THEN owner ELSE NULL
      /\ RuledBut(OnMove)
      /\ pc \in [Task -> PC] /\ sched \in SchedState
      /\ sched.priority \in [Task -> Nat]
      /\ arg[t].prio \in Prio
  BY <1>1, Booster
<1>3. /\ pc[t] = "prio_write" /\ pc' = [pc EXCEPT ![t] = "prio_add"]
      /\ sched' = [sched EXCEPT !.priority[owner] = arg[t].prio] /\ arg' = arg
  BY <1>1 DEF prio_write, At, Goto, Kernel
<1>4. /\ sched'.state = sched.state /\ sched'.cur = sched.cur
      /\ sched'.reason = sched.reason /\ sched'.object = sched.object
      /\ sched'.priority[owner] = arg[t].prio
      /\ \A u \in Task \ {owner} : sched'.priority[u] = sched.priority[u]
  BY <1>2, <1>3 DEF SchedState
<1>5. /\ pc'[t] = "prio_add" /\ pc'[t] \in MovingPC
      /\ \A u \in App \ {t} : pc'[u] = pc[u]
  BY <1>2, <1>3, AppTask DEF MovingPC
<1>6. OnMove' = owner /\ OnMove = owner
  BY <1>1, <1>2, <1>3, <1>5 DEF OnMove
<1>7. PICK h : h = Hidden(sched, owner)
  OBVIOUS
<1>8. Ruled(h) /\ h.state[owner] = "SUSPENDED"
  BY <1>2, <1>6, <1>7, HiddenFields DEF RuledBut
<1>9. Hidden(sched', owner) = scheduler_set_priority(h, owner, arg[t].prio)
  <2>1. scheduler_set_priority(h, owner, arg[t].prio) = [h EXCEPT !.priority[owner] = arg[t].prio]
    BY <1>8 DEF scheduler_set_priority
  <2> QED
    BY <1>2, <1>3, <1>7, <2>1 DEF Hidden, SchedState
<1>10. Ruled(Hidden(sched', owner))
  BY <1>2, <1>8, <1>9, RuledOps
<1>11. RuledBut(OnMove)'
  BY <1>1, <1>6, <1>10 DEF RuledBut
<1>12. MoveInv'
  BY <1>1, <1>2, <1>3, <1>4, <1>11, MoveKept DEF InheritInv, MovingPC
<1>13. BoostAt(t)'
  BY <1>1, <1>2, <1>3, <1>4, <1>5 DEF BoostAt, Target
<1>14. Fields' /\ PriorityRestored'
  <2>1. set_base /\ UNCHANGED <<stim, owner>> /\ Fields /\ PriorityRestored
    BY <1>1 DEF InheritInv, PrioStep
  <2>2. \A y \in App : owner # y => sched'.priority[y] = sched.priority[y]
    BY <1>4, AppTask
  <2> QED
    BY <1>1, <1>2, <2>1, <2>2, BaseKept
<1>15. sched'.priority[owner] \in Nat /\ sched'.priority[owner] <= sched.priority[owner]
  <2>1. arg[t].prio = sched.priority[t] /\ sched.priority[owner] > sched.priority[t]
    BY <1>2, <1>3 DEF BoostAt
  <2> QED
    BY <1>2, <1>4, <2>1
<1> QED
  BY <1>1, <1>2, <1>4, <1>5, <1>12, <1>13, <1>14, <1>15, AppTask, BoostStepInv

\* The owner goes to the list of its new priority, and the boost is done.
LEMMA AddStep ==
  ASSUME InheritInv, BoostsAlone, OwnerOutside, NEW t \in App, PrioStep(t), prio_add(t)
  PROVE  MoveInv' /\ BoostInv' /\ OwnerInv' /\ Inherited' /\ PriorityRestored' /\ Fields'
<1>1. /\ Boosting(t) /\ spc[t] = "block" /\ Target(t) = owner
      /\ scan' = scan /\ scan.job = "none" /\ kstate' = kstate
      /\ Base' /\ sched' \in SchedState /\ UNCHANGED <<spc, stim, owner, behind>>
  BY PrioFrame
<1>2. /\ t \in Task /\ owner \in App /\ owner \in Task /\ owner # t /\ owner # NULL
      /\ BoostAt(t) /\ kstate = "RUNNING"
      /\ \A u \in App \ {t} : pc[u] \notin MovingPC
      /\ OnMove = IF pc[t] \in {"prio_write", "prio_add"} THEN owner ELSE NULL
      /\ RuledBut(OnMove)
      /\ pc \in [Task -> PC] /\ sched \in SchedState
      /\ sched.priority \in [Task -> Nat]
  BY <1>1, Booster
<1>3. /\ pc[t] = "prio_add" /\ pc' = [pc EXCEPT ![t] = "run"]
      /\ sched' = scheduler_add_task(sched, owner)
  BY <1>1 DEF prio_add, At, Goto, Kernel, Return
<1>4. /\ sched'.state = [sched.state EXCEPT ![owner] = "READY"] /\ sched'.cur = sched.cur
      /\ SameWaits(sched', sched) /\ sched'.priority = sched.priority
  <2>1. sched'.state = [sched.state EXCEPT ![owner] = "READY"] /\ SameRun(sched', sched)
    BY <1>2, <1>3, AddLemma
  <2>2. SameWaits(sched', sched)
    BY <1>2, <1>3, KeepsWaits
  <2>3. sched'.priority = sched.priority
    BY <1>2, <1>3, AddReadies
  <2> QED
    BY <2>1, <2>2, <2>3 DEF SameRun
<1>5. pc'[t] = "run" /\ \A u \in App \ {t} : pc'[u] = pc[u]
  BY <1>2, <1>3, AppTask
<1>6. OnMove' = NULL /\ OnMove = owner
  BY <1>1, <1>2, <1>3, <1>5 DEF OnMove, MovingPC
<1>7. PICK h : h = Hidden(sched, owner)
  OBVIOUS
<1>8. Ruled(h) /\ h.state[owner] = "SUSPENDED"
  BY <1>2, <1>6, <1>7, HiddenFields DEF RuledBut
<1>9. sched' = scheduler_add_task(h, owner)
  <2>1. [h EXCEPT !.state[owner] = "READY", !.slice[owner] = TimeSlice]
          = [sched EXCEPT !.state[owner] = "READY", !.slice[owner] = TimeSlice]
    BY <1>2, <1>7 DEF Hidden, SchedState
  <2> QED
    BY <1>3, <2>1 DEF scheduler_add_task
<1>10. Ruled(sched')
  BY <1>2, <1>8, <1>9, RuledAdd
<1>11. RuledBut(OnMove)'
  BY <1>1, <1>6, <1>10 DEF RuledBut, Hidden
<1>12. MoveInv'
  BY <1>1, <1>2, <1>3, <1>4, <1>11, MoveKept DEF InheritInv, MovingPC
<1>13. ~Boosting(t)'
  BY <1>1, <1>5 DEF Boosting
<1>14. Fields' /\ PriorityRestored'
  <2>1. set_base /\ UNCHANGED <<stim, owner>> /\ Fields /\ PriorityRestored
    BY <1>1 DEF InheritInv, PrioStep
  <2> QED
    BY <1>1, <1>2, <1>4, <2>1, BaseKept
<1>15. /\ sched'.priority[owner] \in Nat /\ sched'.priority[owner] <= sched.priority[owner]
       /\ sched'.priority[owner] <= sched'.priority[t]
  <2>1. sched.priority[owner] = sched.priority[t]
    BY <1>2, <1>3 DEF BoostAt
  <2> QED
    BY <1>2, <1>4, <2>1
<1>16. sched'.reason = sched.reason /\ sched'.object = sched.object
  BY <1>2, <1>4 DEF SameWaits, SchedState
<1> QED
  BY <1>1, <1>2, <1>4, <1>5, <1>12, <1>13, <1>14, <1>15, <1>16, BoostStepInv

\* The owner is on no list, and stays so until a call of the booster's: only
\* its priority is written.
LEMMA StoreStep ==
  ASSUME InheritInv, BoostsAlone, OwnerOutside, NEW t \in App, PrioStep(t), prio_store(t)
  PROVE  MoveInv' /\ BoostInv' /\ OwnerInv' /\ Inherited' /\ PriorityRestored' /\ Fields'
<1>1. /\ Boosting(t) /\ spc[t] = "block" /\ Target(t) = owner
      /\ scan' = scan /\ scan.job = "none" /\ kstate' = kstate
      /\ Base' /\ sched' \in SchedState /\ UNCHANGED <<spc, stim, owner, behind>>
  BY PrioFrame
<1>2. /\ t \in Task /\ owner \in App /\ owner \in Task /\ owner # t /\ owner # NULL
      /\ BoostAt(t) /\ kstate = "RUNNING"
      /\ \A u \in App \ {t} : pc[u] \notin MovingPC
      /\ OnMove = IF pc[t] \in {"prio_write", "prio_add"} THEN owner ELSE NULL
      /\ RuledBut(OnMove)
      /\ pc \in [Task -> PC] /\ sched \in SchedState
      /\ sched.priority \in [Task -> Nat]
      /\ arg[t].prio \in Prio
  BY <1>1, Booster
<1>3. /\ pc[t] = "prio_store" /\ pc' = [pc EXCEPT ![t] = "run"]
      /\ sched' = [sched EXCEPT !.priority[owner] = arg[t].prio]
  BY <1>1 DEF prio_store, At, Goto, Kernel, Return
<1>4. /\ sched'.state = sched.state /\ sched'.cur = sched.cur
      /\ sched'.reason = sched.reason /\ sched'.object = sched.object
      /\ sched'.priority[owner] = arg[t].prio
      /\ \A u \in Task \ {owner} : sched'.priority[u] = sched.priority[u]
  BY <1>2, <1>3 DEF SchedState
<1>5. pc'[t] = "run" /\ \A u \in App \ {t} : pc'[u] = pc[u]
  BY <1>2, <1>3, AppTask
<1>6. OnMove' = NULL /\ OnMove = NULL
  BY <1>1, <1>2, <1>3, <1>5 DEF OnMove, MovingPC
<1>7. Ruled(sched) /\ sched.state[owner] \notin Runnable
  BY <1>2, <1>3, <1>6 DEF RuledBut, Hidden, BoostAt
<1>8. sched' = scheduler_set_priority(sched, owner, arg[t].prio)
  BY <1>3, <1>7 DEF scheduler_set_priority, Runnable
<1>9. Ruled(sched')
  BY <1>2, <1>7, <1>8, RuledOps
<1>10. RuledBut(OnMove)'
  BY <1>1, <1>6, <1>9 DEF RuledBut, Hidden
<1>11. MoveInv'
  BY <1>1, <1>2, <1>3, <1>4, <1>10, MoveKept DEF InheritInv, MovingPC
<1>12. ~Boosting(t)'
  BY <1>1, <1>5 DEF Boosting
<1>13. Fields' /\ PriorityRestored'
  <2>1. set_base /\ UNCHANGED <<stim, owner>> /\ Fields /\ PriorityRestored
    BY <1>1 DEF InheritInv, PrioStep
  <2>2. \A y \in App : owner # y => sched'.priority[y] = sched.priority[y]
    BY <1>4, AppTask
  <2> QED
    BY <1>1, <1>2, <2>1, <2>2, BaseKept
<1>14. /\ sched'.priority[owner] \in Nat /\ sched'.priority[owner] <= sched.priority[owner]
       /\ sched'.priority[owner] <= sched'.priority[t]
  <2>1. arg[t].prio = sched.priority[t] /\ sched.priority[owner] > sched.priority[t]
    BY <1>2, <1>3 DEF BoostAt
  <2> QED
    BY <1>2, <1>4, <2>1
<1> QED
  BY <1>1, <1>2, <1>4, <1>5, <1>11, <1>12, <1>13, <1>14, AppTask, BoostStepInv

\* An exception between two steps of a boost.
LEMMA ExceptionStep ==
  ASSUME InheritInv, kstate = "RUNNING", Exception, set_base, ~WokenTooEarly,
         UNCHANGED <<waitVars, owner, rec, depth, behind>>
  PROVE  MoveInv' /\ BoostInv' /\ OwnerInv' /\ Inherited' /\ PriorityRestored' /\ Fields'
<1>1. UNCHANGED <<kstate, pc, arg, spc, stim, owner, behind>>
  BY DEF Exception, SysTick, TickScan, TickEnd, PendSV, waitVars
<1>2. /\ Base /\ Base' /\ sched \in SchedState /\ sched' \in SchedState
  BY NextBase DEF InheritInv, MoveInv, Next, Base, TypeOK
<1>3. OnMove \in App \cup {NULL} /\ RuledBut(OnMove)
  BY DEF OnMove, InheritInv, MoveInv, HoldInv, Counts
<1>4. OnMove' = OnMove
  BY <1>1 DEF OnMove
<1>5. /\ \A x \in App \cup {NULL} : RuledBut(x) =>
            /\ RuledBut(x)' /\ (sched'.cur = sched.cur \/ sched'.cur # NULL)
            /\ sched'.priority = sched.priority
            /\ \A y \in Task : Ticked(y)
  BY <1>2, ExceptionHidden
<1>6. /\ sched'.cur = sched.cur \/ sched'.cur # NULL
      /\ sched'.priority = sched.priority
      /\ \A y \in Task : Ticked(y)
  BY <1>3, <1>5
<1>7. RuledBut(OnMove)'
  <2>1. PICK x \in App \cup {NULL} : x = OnMove
    BY <1>3
  <2>2. RuledBut(x)'
    BY <1>3, <1>5, <2>1
  <2>3. x = OnMove'
    BY <1>4, <2>1
  <2> QED
    BY <2>2, <2>3 DEF RuledBut
<1>8. MoveInv'
  BY <1>1, <1>2, <1>6, <1>7, MoveKept DEF InheritInv
<1>10. BoostInv'
  <2>1. ASSUME NEW t \in App, Boosting(t)'
        PROVE  BoostAt(t)'
    <3>1. BoostAt(t)
      BY <1>1, <2>1 DEF Boosting, InheritInv, BoostInv
    <3>2. owner \in Task /\ Target(t) = owner
      BY <3>1, AppTask DEF BoostAt
    <3>3. sched.state[owner] \in Runnable => sched'.state[owner] = sched.state[owner]
      BY <1>6, <3>2 DEF Ticked, Runnable
    <3>4. pc[t] = "prio_store" => sched'.state[owner] \notin Runnable
      BY <3>1, <3>2 DEF BoostAt, WokenTooEarly, Runnable
    <3> QED
      BY <1>1, <1>6, <3>1, <3>3, <3>4 DEF BoostAt, Target
  <2> QED
    BY <2>1 DEF BoostInv
<1>11. OwnerInv'
  BY <1>1 DEF InheritInv, OwnerInv
<1>12. Inherited'
  <2>1. ASSUME NEW t \in behind, Settled(t)'
        PROVE  Settled(t)
    <3>1. t \in Task
      BY <2>1, AppTask DEF InheritInv, OwnerInv
    <3>2. Ticked(t)
      BY <1>6, <3>1
    <3> QED
      BY <1>1, <2>1, <3>2 DEF Settled, Ticked, Freed, WaitsFor
  <2> QED
    BY <1>1, <1>6, <2>1 DEF InheritInv, Inherited
<1>13. Fields' /\ PriorityRestored'
  BY <1>1, <1>2, <1>6, BaseKept DEF InheritInv
<1> QED
  BY <1>8, <1>10, <1>11, <1>12, <1>13

LEMMA RuleRestNext == RuleInv' => MoveInv' /\ Resting'
BY RuleRest, PTL

\* Every other step of the kernel.
Quiet == \A t \in App : ~Boosting(t)

LEMMA QuietRule ==
  ASSUME InheritInv, Quiet
  PROVE  RuleInv
<1>1. Resting
  BY DEF Quiet, Boosting, Resting, MovingPC
<1> QED
  BY <1>1, RestRule DEF InheritInv

LEMMA OtherQuiet ==
  ASSUME ~Racy, InheritInv, OwnerOutside, Quiet, OtherStep
  PROVE  MoveInv' /\ BoostInv' /\ OwnerInv' /\ Inherited' /\ PriorityRestored' /\ Fields'
<1>1. /\ Next /\ set_base
      /\ UNCHANGED <<spc, stim, owner, rec, depth, behind>>
  BY DEF OtherStep, KernelStep, Next, waitVars
<1>2. RuleInv /\ RuleInv'
  BY <1>1, QuietRule, NextRule
<1>3. MoveInv' /\ Resting' /\ Resting
  BY <1>2, RuleRestNext, RuleRest
<1>4. BoostInv'
  BY <1>1, <1>3 DEF BoostInv, Boosting, Quiet, Resting, MovingPC
<1>5. sched \in SchedState /\ sched' \in SchedState
  BY <1>2 DEF RuleInv, Base, TypeOK
<1>6. OwnerInv'
  <2>1. ASSUME owner # NULL
        PROVE  kstate' = "RUNNING"
    <3>1. kstate = "RUNNING"
      BY <2>1 DEF InheritInv, OwnerInv
    <3> QED
      BY <1>1, <1>2, <3>1, KeepsRunning
  <2> QED
    BY <1>1, <2>1 DEF InheritInv, OwnerInv
<1>7. Inherited'
  <2>1. ASSUME NEW t \in behind, Settled(t)'
        PROVE  sched'.priority[owner] <= sched'.priority[t]
    <3>1. t \in App /\ t \in Task /\ owner # NULL /\ kstate = "RUNNING"
      BY <2>1, AppTask DEF InheritInv, OwnerInv
    <3>2. sched'.priority = sched.priority
      BY <1>1, <1>2, <3>1, QuietStep
    <3>3. WaitsFor(sched', t, "MUTEX", Mtx) => WaitsFor(sched, t, "MUTEX", Mtx)
      BY <1>1, <1>2, <3>1, NoNewWait DEF WaitsFor
    <3>4. Settled(t)
      BY <1>1, <1>3, <2>1, <3>1, <3>3 DEF Settled, Resting
    <3> QED
      BY <3>2, <3>4 DEF InheritInv, Inherited
  <2> QED
    BY <1>1, <2>1 DEF Inherited
<1>8. Fields' /\ PriorityRestored'
  BY <1>1, <1>2, <1>5, FreshPriority, BaseKept DEF InheritInv
<1> QED
  BY <1>3, <1>4, <1>6, <1>7, <1>8

\* The calls of the mutex, when nobody boosts.  Those that leave the scheduler
\* alone first.
LEMMA TryQuiet ==
  ASSUME ~Racy, InheritInv, Quiet, NEW t \in App, NEW n \in Tick,
         At(t, "run"), try_or_boost(t, n), UNCHANGED <<vars, base>>
  PROVE  MoveInv' /\ BoostInv' /\ OwnerInv' /\ Inherited' /\ PriorityRestored' /\ Fields'
<1>1. RuleInv /\ RuleInv'
  BY QuietRule, NextRule
<1>2. MoveInv' /\ Resting' /\ Resting
  BY <1>1, RuleRestNext, RuleRest
<1>3. /\ t \in Task /\ t # NULL /\ kstate = "RUNNING" /\ sched.reason[t] = "NONE"
      /\ sched.state[t] # "BLOCKED"
      /\ UNCHANGED <<sched, scan, kstate, pc, arg>>
  <2>1. /\ t \in Task /\ t # NULL /\ kstate = "RUNNING" /\ sched.reason[t] = "NONE"
        /\ sched.cur = t /\ ~sched.pendsv
    BY <1>1, Caller, AppTask DEF At
  <2>2. Ruled(sched)
    BY <1>1, <2>1 DEF RuleInv
  <2> QED
    BY <2>1, <2>2 DEF Ruled, LeavesWhenBlocked, vars
<1>4. /\ spc' \in {[spc EXCEPT ![t] = "out"], [spc EXCEPT ![t] = "boost"]}
      /\ stim' \in [Task -> Tick]
  <2>1. 0 \in Tick /\ stim \in [Task -> Tick]
    BY ConstantsAssumption DEF Tick, InheritInv, Fields
  <2>2. /\ spc' \in {[spc EXCEPT ![t] = "out"], [spc EXCEPT ![t] = "boost"]}
        /\ stim' = [stim EXCEPT ![t] = 0] \/ stim' = [stim EXCEPT ![t] = n]
    BY DEF try_or_boost, GiveUpOr, Leave, To
  <2> QED
    BY <2>1, <2>2
<1>5. spc'[t] \in {"out", "boost"} /\ \A u \in App \ {t} : spc'[u] = spc[u]
  BY <1>3, <1>4, AppTask DEF InheritInv, HoldInv
<1>6. \/ owner = NULL /\ owner' = t /\ behind' = behind
      \/ owner # NULL /\ owner' = owner /\ behind' \in {behind, behind \cup {t}}
  BY <1>3 DEF try_or_boost
<1>7. BoostInv'
  BY <1>2, <1>5 DEF BoostInv, Boosting, Quiet, Resting, MovingPC
<1>8. OwnerInv'
  BY <1>3, <1>6 DEF InheritInv, OwnerInv
<1>9. Inherited'
  <2>1. ASSUME NEW u \in behind', Settled(u)'
        PROVE  sched'.priority[owner'] <= sched'.priority[u]
    <3>1. u # t
      BY <1>3, <1>5, <2>1 DEF Settled, WaitsFor
    <3>2. u \in behind /\ u \in App /\ owner # NULL
      BY <1>6, <2>1, <3>1 DEF InheritInv, OwnerInv
    <3>3. Settled(u)
      BY <1>3, <1>5, <2>1, <3>1, <3>2 DEF Settled, WaitsFor
    <3> QED
      BY <1>3, <1>6, <3>2, <3>3 DEF InheritInv, Inherited
  <2> QED
    BY <2>1 DEF Inherited
<1>10. PriorityRestored' /\ Fields'
  BY <1>3, <1>4, <1>6, AppTask DEF InheritInv, PriorityRestored, Fields
<1> QED
  BY <1>2, <1>7, <1>8, <1>9, <1>10

\* The look at the owner.
LEMMA LookQuiet ==
  ASSUME ~Racy, InheritInv, OwnerOutside, Quiet, NEW t \in App, mutex_lock_boost(t)
  PROVE  MoveInv' /\ BoostInv' /\ OwnerInv' /\ Inherited' /\ PriorityRestored' /\ Fields'
<1>1. /\ RuleInv /\ t \in Task /\ kstate = "RUNNING" /\ pc[t] = "run"
      /\ sched \in SchedState /\ arg \in [Task -> Arg] /\ spc \in [Task -> MutexLabel]
  BY QuietRule, AppTask DEF mutex_lock_boost, WaitAt, At, InheritInv, HoldInv, MoveInv,
     Base, TypeOK
<1>2. UNCHANGED <<sched, scan, kstate, pc, stim, owner, rec, base, depth, behind>>
  BY DEF mutex_lock_boost, mutexVars
<1>3. \/ /\ owner # NULL /\ sched.priority[owner] > sched.priority[t]
         /\ spc' = [spc EXCEPT ![t] = "raise"]
         /\ arg' = [arg EXCEPT ![t] = Keep(owner, sched.priority[t])]
      \/ /\ ~(owner # NULL /\ sched.priority[owner] > sched.priority[t])
         /\ spc' = [spc EXCEPT ![t] = "block"] /\ arg' = arg
  BY DEF mutex_lock_boost, To
<1>4. owner # NULL => owner \in App /\ owner \in Task
  BY OwnerOut DEF InheritInv
<1>5. arg' \in [Task -> Arg]
  <2>1. owner # NULL => Keep(owner, sched.priority[t]) \in Arg
    BY <1>1, <1>4 DEF Keep, Arg, SchedState
  <2> QED
    BY <1>1, <1>3, <2>1
<1>6. RuleInv'
  BY <1>1, <1>2, <1>5 DEF RuleInv, Base, TypeOK, ListsSound, DeferredYieldKept,
     LoopVisitsBlocked
<1>7. MoveInv' /\ Resting' /\ Resting
  BY <1>1, <1>6, RuleRestNext, RuleRest
<1>8. \A u \in App \ {t} : spc'[u] = spc[u]
  BY <1>1, <1>3, AppTask
<1>9. BoostInv'
  <2>1. \A u \in App \ {t} : ~Boosting(u)'
    BY <1>2, <1>8 DEF Quiet, Boosting
  <2>2. CASE spc' = [spc EXCEPT ![t] = "block"]
    <3>1. ~Boosting(t)'
      BY <1>1, <1>2, <2>2 DEF Boosting
    <3> QED
      BY <2>1, <3>1 DEF BoostInv
  <2>3. CASE /\ owner # NULL /\ sched.priority[owner] > sched.priority[t]
             /\ arg' = [arg EXCEPT ![t] = Keep(owner, sched.priority[t])]
    <3>1. arg'[t] = Keep(owner, sched.priority[t])
      BY <1>1, <2>3
    <3>2. BoostAt(t)'
      BY <1>1, <1>2, <1>4, <2>3, <3>1 DEF BoostAt, Target, Keep
    <3> QED
      BY <2>1, <3>2 DEF BoostInv
  <2> QED
    BY <1>3, <2>2, <2>3
<1>10. OwnerInv' /\ PriorityRestored' /\ Fields'
  BY <1>2 DEF InheritInv, OwnerInv, PriorityRestored, Fields
<1>11. Inherited'
  <2>1. ASSUME NEW u \in behind, Settled(u)'
        PROVE  sched.priority[owner] <= sched.priority[u]
    <3>0. u \in App /\ u \in Task /\ owner # NULL /\ owner \in Task
      BY <1>4, <2>1, AppTask DEF InheritInv, OwnerInv
    <3>1. CASE Settled(u)
      BY <3>1 DEF InheritInv, Inherited
    <3>2. CASE ~Settled(u)
      <4>1. u = t /\ spc'[t] = "block"
        BY <1>2, <1>8, <2>1, <3>0, <3>2 DEF Settled, WaitsFor
      <4>2. ~(sched.priority[owner] > sched.priority[t])
        BY <1>1, <1>3, <3>0, <4>1
      <4>3. sched.priority[owner] \in Nat /\ sched.priority[t] \in Nat
        BY <1>1, <3>0 DEF SchedState, Prio
      <4> QED
        BY <4>1, <4>2, <4>3
    <3> QED
      BY <3>1, <3>2
  <2> QED
    BY <1>2, <2>1 DEF Inherited
<1> QED
  BY <1>7, <1>9, <1>10, <1>11

\* Blocking, and the scheduler_yield once the task is back.
LEMMA WaitQuiet ==
  ASSUME ~Racy, InheritInv, OwnerOutside, Quiet, NEW t \in App, mutex_lock_wait(t)
  PROVE  MoveInv' /\ BoostInv' /\ OwnerInv' /\ Inherited' /\ PriorityRestored' /\ Fields'
<1>1. /\ RuleInv /\ t \in Task /\ t # NULL /\ kstate = "RUNNING" /\ At(t, "run")
      /\ sched \in SchedState /\ spc \in [Task -> MutexLabel] /\ stim \in [Task -> Tick]
      /\ InterruptsOn /\ scan.job = "none" /\ ~sched.pendsv /\ sched.cur = t
      /\ pc[t] \notin MovingPC
  <2>1. RuleInv /\ At(t, "run") /\ kstate = "RUNNING" /\ pc[t] = "run"
    BY QuietRule DEF mutex_lock_wait, block_task, block_task_yield, WaitAt, At
  <2> QED
    BY <2>1, Caller, AppTask DEF InheritInv, HoldInv, MoveInv, Base, TypeOK, Fields, MovingPC
<1>2. UNCHANGED <<scan, kstate, pc, arg, stim, owner, rec, base, depth, behind>>
  BY DEF mutex_lock_wait, block_task, block_task_yield, KernelIs, mutexVars
<1>3. \/ /\ spc[t] = "block" /\ spc' = [spc EXCEPT ![t] = "woken"]
         /\ sched' = scheduler_block_task(sched, "MUTEX", Mtx, stim[t])
      \/ /\ spc[t] = "woken" /\ spc' = [spc EXCEPT ![t] = "result"]
         /\ sched' = scheduler_yield(sched)
  BY DEF mutex_lock_wait, block_task, block_task_yield, KernelIs, WaitAt, To
<1>4. "MUTEX" \in BlockReason /\ Mtx \in Object /\ stim[t] \in Tick
  BY <1>1, MutexAssumption DEF BlockReason
<1>5. RuleInv'
  BY <1>1, <1>2, <1>3, <1>4, SyncCallRule DEF SameControl
<1>6. MoveInv' /\ Resting'
  BY <1>5, RuleRestNext
<1>7. /\ spc'[t] \in {"woken", "result"} /\ \A u \in App \ {t} : spc'[u] = spc[u]
  BY <1>1, <1>3, AppTask
<1>8. BoostInv'
  BY <1>2, <1>6, <1>7 DEF BoostInv, Boosting, Quiet, Resting, MovingPC
<1>9. /\ sched'.priority = sched.priority
      /\ \A u \in Task \ {t} : /\ sched'.state[u] = sched.state[u]
                               /\ sched'.reason[u] = sched.reason[u]
                               /\ sched'.object[u] = sched.object[u]
      /\ spc[t] # "block" => /\ sched'.reason[t] = sched.reason[t]
                             /\ sched'.object[t] = sched.object[t]
  <2>1. CASE sched' = scheduler_block_task(sched, "MUTEX", Mtx, stim[t]) /\ spc[t] = "block"
    <3>1. WaitBegun(sched', sched, t, "MUTEX", Mtx, stim[t])
      BY <1>1, <1>4, <2>1, BlockWaits
    <3>2. \A u \in Task \ {t} : sched'.state[u] = sched.state[u]
      BY <1>1, <1>4, <2>1, BlockLemma
    <3> QED
      BY <1>1, <2>1, <3>1, <3>2 DEF WaitBegun, SchedState
  <2>2. CASE sched' = scheduler_yield(sched)
    <3>1. sched'.state = sched.state
      BY <1>1, <2>2, YieldLemma
    <3>2. SameWaits(sched', sched)
      BY <1>1, <2>2, KeepsWaits
    <3>3. sched'.priority = sched.priority
      BY <1>1, <2>2, YieldOrder
    <3> QED
      BY <3>1, <3>2, <3>3 DEF SameWaits
  <2> QED
    BY <1>3, <2>1, <2>2
<1>10. owner # NULL => owner \in Task \ {t}
  BY <1>3, OwnerOut DEF InheritInv
<1>11. OwnerInv' /\ PriorityRestored' /\ Fields'
  BY <1>2, <1>9, <1>10 DEF InheritInv, OwnerInv, PriorityRestored, Fields
<1>12. Inherited'
  <2>1. ASSUME NEW u \in behind, Settled(u)'
        PROVE  Settled(u)
    <3>1. u \in App /\ u \in Task
      BY <2>1, AppTask DEF InheritInv, OwnerInv
    <3>2. CASE u # t
      BY <1>2, <1>7, <1>9, <2>1, <3>1, <3>2 DEF Settled, WaitsFor
    <3>3. CASE u = t /\ spc[t] = "block"
      BY <1>1, <3>3 DEF Settled
    <3>4. CASE u = t /\ spc[t] # "block"
      BY <1>7, <1>9, <2>1, <3>4 DEF Settled, WaitsFor
    <3> QED
      BY <3>2, <3>3, <3>4
  <2> QED
    BY <1>2, <1>9, <2>1 DEF InheritInv, Inherited
<1> QED
  BY <1>6, <1>8, <1>11, <1>12

\* The owner's own priority is back before the mutex is free and the best
\* waiter is woken.
LEMMA RestoreLemma ==
  ASSUME NEW s, Ruled(s), Good(s), NEW t \in App, base[t] \in Prio, NEW r,
         r = restore_priority(s, t)
  PROVE  /\ Ruled(r) /\ Good(r) /\ r.cur = s.cur /\ r.priority[t] = base[t]
         /\ \A u \in Task \ {t} : r.priority[u] = s.priority[u]
<1>0. s \in SchedState /\ t \in Task
  BY AppTask DEF Ruled
<1>1. CASE s.priority[t] = base[t]
  BY <1>1 DEF restore_priority
<1>2. CASE s.priority[t] # base[t]
  <2>1. r = scheduler_set_priority(s, t, base[t])
    BY <1>2 DEF restore_priority
  <2>2. Ruled(r) /\ r.cur = s.cur
    BY <2>1, RuledOps
  <2>3. Good(r)
    BY <1>0, <2>1, GoodOps
  <2>4. \A u \in Task \ {t} : r.priority[u] = s.priority[u]
    BY <1>0, <2>1, SetPriorityReadies DEF Readied
  <2>5. r.priority[t] = base[t]
    <3>1. PICK a : a = scheduler_remove_task(s, t)
      OBVIOUS
    <3>2. PICK b : b = [a EXCEPT !.priority[t] = base[t]]
      OBVIOUS
    <3>3. a \in SchedState
      BY <1>0, <3>1, RemoveTaskLemma
    <3>4. b \in SchedState /\ b.priority[t] = base[t]
      BY <1>0, <3>2, <3>3, PriorityWrite DEF SchedState
    <3>5. scheduler_add_task(b, t).priority = b.priority
      BY <1>0, <3>4, AddReadies
    <3>6. CASE s.state[t] \in {"READY", "RUNNING"}
      BY <2>1, <3>1, <3>2, <3>4, <3>5, <3>6 DEF scheduler_set_priority
    <3>7. CASE s.state[t] \notin {"READY", "RUNNING"}
      BY <1>0, <2>1, <3>7 DEF scheduler_set_priority, SchedState
    <3> QED
      BY <3>6, <3>7
  <2> QED
    BY <2>2, <2>3, <2>4, <2>5
<1> QED
  BY <1>1, <1>2

LEMMA UnlockQuiet ==
  ASSUME ~Racy, InheritInv, Quiet, NEW t \in App, mutex_unlock(t)
  PROVE  MoveInv' /\ BoostInv' /\ OwnerInv' /\ Inherited' /\ PriorityRestored' /\ Fields'
<1>1. /\ RuleInv /\ t \in Task /\ t # NULL /\ At(t, "run") /\ owner = t
      /\ InterruptsOn /\ scan.job = "none" /\ Ruled(sched) /\ Good(sched)
      /\ base \in [Task -> Prio] /\ UNCHANGED <<spc, stim, base>>
  <2>1. RuleInv /\ At(t, "run") /\ owner = t /\ UNCHANGED <<spc, stim, base>>
    BY QuietRule DEF mutex_unlock, WaitAt, waitVars
  <2>2. InterruptsOn /\ scan.job = "none" /\ t \in Task /\ t # NULL
    BY <2>1, Caller, AppTask
  <2>3. Ruled(sched) /\ Base
    BY <2>1, <2>2 DEF RuleInv, InterruptsOn
  <2> QED
    BY <2>1, <2>2, <2>3, BaseGood DEF InheritInv, Fields
<1>2. CASE UNCHANGED <<vars, owner, behind>>
  <2>1. RuleInv'
    BY <1>1, <1>2, NextRule
  <2>2. MoveInv' /\ Resting'
    BY <2>1, RuleRestNext
  <2>3. UNCHANGED <<sched, scan, kstate, pc, arg>>
    BY <1>2 DEF vars
  <2>4. BoostInv'
    BY <1>1, <2>3 DEF BoostInv, Boosting, Quiet
  <2> QED
    BY <1>1, <1>2, <2>2, <2>3, <2>4
    DEF InheritInv, OwnerInv, Inherited, Settled, PriorityRestored, Fields, WaitsFor
<1>3. CASE /\ owner' = NULL /\ behind' = {}
           /\ KernelIs(scheduler_unblock_one(restore_priority(sched, t), "MUTEX", Mtx, "OK"))
  <2>1. PICK a : a = restore_priority(sched, t)
    OBVIOUS
  <2>2. /\ Ruled(a) /\ Good(a) /\ a.cur = sched.cur /\ a.priority[t] = base[t]
        /\ \A u \in Task \ {t} : a.priority[u] = sched.priority[u]
    BY <1>1, <2>1, RestoreLemma
  <2>3. /\ sched' = scheduler_unblock_one(a, "MUTEX", Mtx, "OK") /\ "OK" \in Result
        /\ scan' = scan /\ SameControl /\ UNCHANGED <<kstate, pc, arg>>
    BY <1>3, <2>1 DEF KernelIs, SameControl, Result
  <2>4. Ruled(sched') /\ sched'.cur = sched.cur /\ Good(sched')
    BY <2>2, <2>3, RuledUnblockOne, GoodUnblockOne
  <2>5. sched'.priority = a.priority
    <3>1. a \in SchedState
      BY <2>2 DEF Ruled
    <3>2. sched' = a \/ \E u \in Task : WaitOver(sched', a, u, "OK")
      BY <2>3, <3>1, UnblockOneLemma
    <3> QED
      BY <3>2 DEF WaitOver
  <2>6. Base'
    BY <1>1, <2>3, <2>4, SyncBase DEF RuleInv, Base, TypeOK
  <2>7. RuleInv'
    BY <1>1, <2>3, <2>4, <2>6 DEF RuleInv, InterruptsOn, LoopVisitsBlocked
  <2>8. MoveInv'
    BY <2>7, RuleRestNext
  <2>9. BoostInv'
    BY <1>1, <2>3 DEF BoostInv, Boosting, Quiet
  <2>10. PriorityRestored' /\ Fields'
    <3>1. \A u \in App : sched'.priority[u] = base[u]
      BY <1>1, <2>2, <2>5, AppTask DEF InheritInv, PriorityRestored
    <3> QED
      BY <1>1, <3>1 DEF PriorityRestored, Fields, InheritInv
  <2>11. OwnerInv' /\ Inherited'
    BY <1>3 DEF OwnerInv, Inherited
  <2> QED
    BY <2>8, <2>9, <2>10, <2>11
<1> QED
  BY <1>2, <1>3 DEF mutex_unlock

LEMMA CallQuiet ==
  ASSUME ~Racy, InheritInv, OwnerOutside, Quiet, NEW t \in App, MutexCall(t)
  PROVE  MoveInv' /\ BoostInv' /\ OwnerInv' /\ Inherited' /\ PriorityRestored' /\ Fields'
<1>1. CASE mutex_lock_boost(t)
  BY <1>1, LookQuiet
<1>2. CASE mutex_lock_raise(t)
  BY <1>2 DEF mutex_lock_raise, WaitAt, Quiet, Boosting
<1>3. CASE mutex_lock_wait(t)
  BY <1>3, WaitQuiet
<1>4. CASE mutex_unlock(t)
  BY <1>4, UnlockQuiet
<1>5. ASSUME NEW n \in Timeouts, mutex_lock(t, n)
      PROVE  MoveInv' /\ BoostInv' /\ OwnerInv' /\ Inherited' /\ PriorityRestored' /\ Fields'
  <2>1. n \in Tick /\ At(t, "run") /\ try_or_boost(t, n) /\ UNCHANGED <<vars, base>>
    BY <1>5, WaitAssumption DEF mutex_lock, WaitAt
  <2> QED
    BY <2>1, TryQuiet
<1>6. CASE WaitEnds(t, TRUE) /\ try_or_boost(t, stim[t]) /\ UNCHANGED <<vars, base>>
  <2>1. stim[t] \in Tick /\ At(t, "run")
    BY <1>6, AppTask DEF WaitEnds, WaitAt, InheritInv, Fields
  <2> QED
    BY <1>6, <2>1, TryQuiet
<1>7. CASE /\ WaitEnds(t, FALSE) /\ Leave(t)
           /\ UNCHANGED <<owner, rec, depth, behind>> /\ UNCHANGED <<vars, base>>
  <2>1. RuleInv /\ RuleInv'
    BY <1>7, QuietRule, NextRule
  <2>2. MoveInv' /\ Resting'
    BY <2>1, RuleRestNext
  <2>3. /\ UNCHANGED <<sched, scan, kstate, pc, arg, owner, behind, base>>
        /\ spc' = [spc EXCEPT ![t] = "out"] /\ stim' = [stim EXCEPT ![t] = 0]
        /\ t \in Task /\ 0 \in Tick /\ spc \in [Task -> MutexLabel]
    BY <1>7, AppTask, ConstantsAssumption DEF vars, Leave, To, Tick, InheritInv, HoldInv
  <2>4. \A u \in App : spc'[u] = spc[u] \/ spc'[u] = "out"
    BY <2>3, AppTask
  <2>5. BoostInv'
    BY <2>3, <2>4 DEF BoostInv, Boosting, Quiet
  <2>6. Inherited'
    BY <2>3, <2>4 DEF InheritInv, OwnerInv, Inherited, Settled, WaitsFor
  <2>7. OwnerInv' /\ PriorityRestored' /\ Fields'
    BY <2>3 DEF InheritInv, OwnerInv, PriorityRestored, Fields
  <2> QED
    BY <2>2, <2>5, <2>6, <2>7
<1> QED
  BY <1>1, <1>2, <1>3, <1>4, <1>5, <1>6, <1>7 DEF MutexCall, mutex_lock_result

LEMMA InheritStep ==
  ASSUME ~Racy, DepthMax <= RecMax
  PROVE  InheritInv /\ BoostsAlone /\ OwnerOutside /\ [MutexNext]_allVars
         => late' \/ InheritInv'
<1> SUFFICES ASSUME InheritInv, BoostsAlone, OwnerOutside, [MutexNext]_allVars, ~late'
             PROVE  InheritInv'
  OBVIOUS
<1>1. HoldInv'
  BY HoldStep DEF InheritInv
<1> DEFINE Rest == MoveInv /\ BoostInv /\ OwnerInv /\ Inherited /\ PriorityRestored /\ Fields
<1>2. ASSUME MutexNext, NEW t \in App, Boosting(t)
      PROVE  Rest'
  <2>1. kstate = "RUNNING" /\ ~WokenTooEarly
    BY <1>2, Booster DEF MutexNext
  <2>2. CASE Exception /\ UNCHANGED <<waitVars, owner, rec, depth, behind>> /\ set_base
    BY <2>1, <2>2, ExceptionStep
  <2>3. CASE mutex_lock_raise(t)
    BY <2>3, RaiseStep
  <2>4. CASE PrioStep(t)
    BY <2>4, RemoveStep, WriteStep, StoreStep, AddStep DEF PrioStep
  <2> QED
    BY <1>2, <2>2, <2>3, <2>4, WhileBoosting DEF InheritInv, PrioStep
<1>3. ASSUME MutexNext, Quiet
      PROVE  Rest'
  BY <1>3, OtherQuiet, CallQuiet DEF MutexNext
<1>4. CASE UNCHANGED allVars
  <2>1. UNCHANGED <<sched, scan, kstate, pc, arg, spc, stim, owner, rec, base, depth, behind>>
    BY <1>4 DEF allVars, vars, waitVars, mutexVars
  <2>2. MoveInv'
    BY <2>1 DEF InheritInv, MoveInv, Base, TypeOK, ListsSound, DeferredYieldKept, RuledBut,
       OnMove
  <2>3. BoostInv'
    BY <2>1 DEF InheritInv, BoostInv, Boosting, BoostAt, Target
  <2> QED
    BY <1>1, <2>1, <2>2, <2>3
    DEF InheritInv, OwnerInv, Inherited, Settled, WaitsFor, PriorityRestored, Fields
<1> QED
  BY <1>1, <1>2, <1>3, <1>4 DEF InheritInv, Quiet

LEMMA InheritInitial == MutexInit => InheritInv
<1> SUFFICES ASSUME MutexInit PROVE InheritInv
  OBVIOUS
<1>1. HoldInv
  BY HoldInitial
<1>2. RuleInv
  BY InitRule DEF MutexInit
<1>3. MoveInv /\ Resting
  BY <1>2, RuleRest
<1>4. BoostInv
  BY <1>3, AppTask DEF MutexInit, WaitInit, BoostInv, Boosting, Resting, MovingPC
<1>5. OwnerInv /\ Inherited
  BY DEF MutexInit, mutex_init, OwnerInv, Inherited
<1>6. PriorityRestored /\ Fields
  BY ConstantsAssumption, AppTask
  DEF MutexInit, Init, scheduler_init, WaitInit, PriorityRestored, Fields, Prio, Tick
<1> QED
  BY <1>1, <1>3, <1>4, <1>5, <1>6 DEF InheritInv

LEMMA InheritMeans == InheritInv => OwnerInherits /\ PriorityRestored /\ BoostKeepsLists
<1> SUFFICES ASSUME InheritInv
             PROVE  OwnerInherits /\ PriorityRestored /\ BoostKeepsLists
  OBVIOUS
<1>1. OwnerInherits
  BY DEF InheritInv, Inherited, Settled, OwnerInherits
<1>2. CASE Resting
  <2>1. ListsIntact /\ StateTellsList
    BY <1>2, RestRule, RuleKeepsLists DEF InheritInv
  <2> QED
    BY <1>1, <2>1 DEF InheritInv, BoostKeepsLists, ListsIntact, StateTellsList
<1>3. ASSUME NEW u \in App, pc[u] \in MovingPC
      PROVE  BoostKeepsLists
  <2>1. BoostAt(u) /\ kstate = "RUNNING" /\ sched \in SchedState /\ Target(u) = owner
    BY <1>3 DEF InheritInv, BoostInv, Boosting, MovingPC, BoostAt, MoveInv, Base, TypeOK
  <2>2. RuledBut(OnMove) /\ OnMove \in App \cup {NULL}
    BY <2>1 DEF InheritInv, MoveInv, OnMove, HoldInv, Counts
  <2>3. PICK h : h = Hidden(sched, OnMove)
    OBVIOUS
  <2>4. /\ Placed(h) /\ SameLists(h, sched) /\ h.priority = sched.priority
        /\ \A y \in Task : h.state[y] = IF y = OnMove THEN "SUSPENDED" ELSE sched.state[y]
    BY <2>1, <2>2, <2>3, HiddenFields DEF RuledBut, Ruled
  <2>5. ~sched.broken
    BY <2>4 DEF Placed, Intact, SameLists
  <2>6. \A y \in Task : y # OnMove => StateTells(sched, y)
    BY <2>4 DEF Placed, StateTells, On, SameLists
  <2>7. ASSUME NEW y \in Task, y = OnMove
        PROVE  \E v \in App : pc[v] \in {"prio_write", "prio_add"} /\ Target(v) = y
    <3>1. PICK v \in App : pc[v] \in {"prio_write", "prio_add"} /\ y = owner
      BY <2>7, AppTask DEF OnMove
    <3>2. Target(v) = owner
      BY <3>1 DEF InheritInv, BoostInv, Boosting, BoostAt
    <3> QED
      BY <3>1, <3>2
  <2> QED
    BY <2>5, <2>6, <2>7 DEF BoostKeepsLists
<1> QED
  BY <1>1, <1>2, <1>3 DEF InheritInv, Resting

(***************************************************************************)
(* The theorems, for any number of tasks.  []BoostsAlone is what the code  *)
(* would have to ensure, by a critical section around the boost: with      *)
(* three tasks it does not, and then all three properties fail.  The same  *)
(* critical section would rule out late; without it the three hold until   *)
(* then.                                                                   *)
(***************************************************************************)
LEMMA LateStays == late /\ [MutexNext]_allVars => late'
BY DEF MutexNext, allVars

LEMMA InheritHolds ==
  ASSUME ~Racy, DepthMax <= RecMax
  PROVE  MutexSpec /\ []BoostsAlone /\ []OwnerOutside => [](late \/ InheritInv)
<1>1. MutexInit => InheritInv
  BY InheritInitial
<1>2. InheritInv /\ BoostsAlone /\ OwnerOutside /\ [MutexNext]_allVars
      => late' \/ InheritInv'
  BY InheritStep
<1> QED
  BY <1>1, <1>2, LateStays, PTL DEF MutexSpec

\* mutex_lock: a task that waits behind the owner it found waits for no lower
\* priority than its own, if no booster is switched out before it is done, and
\* until a tick wakes an owner between the test of its state and the store of
\* its priority.
THEOREM Inheritance ==
  ASSUME ~Racy, DepthMax <= RecMax
  PROVE  MutexSpec /\ []BoostsAlone /\ []OwnerOutside => [](late \/ OwnerInherits)
BY InheritHolds, InheritMeans, PTL

\* mutex_unlock: under the same conditions a task that does not hold the mutex
\* is back at its base priority.
THEOREM Restoration ==
  ASSUME ~Racy, DepthMax <= RecMax
  PROVE  MutexSpec /\ []BoostsAlone /\ []OwnerOutside => [](late \/ PriorityRestored)
BY InheritHolds, InheritMeans, PTL

\* scheduler_set_priority, called by mutex_lock outside any critical section:
\* the boost of an owner that is ready, asleep, suspended or deleted damages no
\* list and loses no task, with ticks between its steps and PendSVs that go
\* back to the booster.  Excepted are switches to other tasks ([]BoostsAlone)
\* and what follows once a tick has woken the owner too early (late, in
\* BoostKeepsLists).
THEOREM BoostIsSafe ==
  ASSUME ~Racy, DepthMax <= RecMax
  PROVE  MutexSpec /\ []BoostsAlone /\ []OwnerOutside => []BoostKeepsLists
<1>1. late => BoostKeepsLists
  BY DEF BoostKeepsLists
<1> QED
  BY <1>1, InheritHolds, InheritMeans, PTL
-----------------------------------------------------------------------------
(***************************************************************************)
(* Two tasks disturb no boost.  The booster is runnable and outranks both  *)
(* the owner and the idle task, so that PendSV finds it and nobody else    *)
(* at the head of the highest ready list.  That it is runnable when it     *)
(* begins needs that no stopped task goes on (StoppedLeaves) and that no   *)
(* switch was put off by scheduler_lock.                                   *)
(***************************************************************************)
AtMostTwoTasks == \A x, y, z \in App : x = y \/ x = z \/ y = z

Ahead == \A t \in App : Boosting(t) =>
            sched.state[t] \in Runnable /\ sched.priority[t] < MaxPriority - 1

IdleIsLast == kstate # "UNINIT" => sched.priority[Idle] = MaxPriority - 1

Calm == sched.lock = 0 /\ IdleIsLast /\ StoppedLeaves

PairInv == InheritInv /\ BoostsAlone /\ Ahead /\ Calm

\* Nothing but the calls of that name locks the scheduler.
LEMMA EffectOnLock ==
  ASSUME "lock" \notin Calls, NEW s, Ruled(s), NEW t \in App, s.cur = t,
         NEW r, CallEffect(r, s, t)
  PROVE  r.lock = s.lock
<1>0. s \in SchedState /\ t \in Task /\ t # NULL
  BY AppTask DEF Ruled
<1>1. \A x \in SchedState : scheduler_yield(x).lock = x.lock
  BY YieldLemma
<1>2. ASSUME NEW n \in Delays \ {0}
      PROVE  /\ scheduler_block_task(s, "DELAY", NULL, n).lock = s.lock
             /\ scheduler_block_task(s, "DELAY", NULL, n) \in SchedState
  <2>1. n \in Tick
    BY <1>2, ApiAssumption
  <2> QED
    BY <1>0, <2>1, BlockLemma, DelayArgs DEF SameRun
<1>3. ASSUME NEW x \in App
      PROVE  /\ scheduler_unblock_task(s, x, "OK").lock = s.lock
             /\ scheduler_add_task(s, x).lock = s.lock
  <2>1. x \in Task /\ "OK" \in Result
    BY AppTask DEF Result
  <2>2. SameRun(scheduler_unblock_task(s, x, "OK"), s)
    BY <1>0, <2>1, UnblockTaskLemma
  <2>3. SameRun(scheduler_add_task(s, x), s)
    BY <1>0, <2>1, AddLemma
  <2> QED
    BY <2>2, <2>3 DEF SameRun
<1>4. ASSUME NEW x \in App, NEW st \in {"SUSPENDED", "DELETED"}
      PROVE  /\ stop_task(s, x, st).lock = s.lock
             /\ stop_task(s, x, st) \in SchedState
  <2>1. x \in Task /\ st \in TaskState
    BY <1>4, AppTask DEF TaskState
  <2>2. /\ scheduler_remove_task(s, x).lock = s.lock
        /\ scheduler_remove_task(s, x) \in SchedState
    BY <1>0, <2>1, RemoveTaskLemma DEF SameFields
  <2>3. stop_task(s, x, st).lock = scheduler_remove_task(s, x).lock
    BY <2>2 DEF stop_task, SchedState
  <2> QED
    BY <1>0, <2>1, <2>2, <2>3, StopReadies
<1> QED
  BY <1>0, <1>1, <1>2, <1>3, <1>4, MutexCalls DEF CallEffect, NoPriorityCalls

LEMMA ExceptionLock ==
  ASSUME Base, Exception
  PROVE  sched'.lock = sched.lock
<1>0. sched \in SchedState /\ scan \in ScanState
  BY DEF Base, TypeOK
<1>1. CASE SysTick \/ PendSV
  BY <1>0, <1>1 DEF SysTick, scheduler_tick, PendSV, PendSV_Handler, SchedState
<1>2. CASE TickScan
  <2>0. scan.rest \in Seq(Task) /\ scan.rest # <<>>
    BY <1>0, <1>2 DEF TickScan, tick_scan, ScanState
  <2>1. PICK x \in Task : x = Head(scan.rest)
    BY <2>0, TailProps
  <2>2. PICK u : u = IF sched.reason[x] = "DELAY" THEN sched.result[x] ELSE "TIMEOUT"
    OBVIOUS
  <2>3. sched' = sched \/ sched' = MakeReady(sched, x, u)
    BY <1>2, <2>1, <2>2 DEF TickScan, tick_scan
  <2>4. sched.result[x] \in Result /\ "TIMEOUT" \in Result
    BY <1>0, <2>1 DEF SchedState, Result
  <2>5. u \in Result
    BY <2>2, <2>4
  <2>6. SameRun(MakeReady(sched, x, u), sched)
    BY <1>0, <2>5, MakeReadyLemma
  <2> QED
    BY <2>3, <2>6 DEF SameRun
<1>3. CASE TickEnd
  <2>1. PICK a \in SchedState : a = charge_slice(sched) /\ a.lock = sched.lock
    BY <1>0, ChargeSliceLemma
  <2>2. sched' = preempt_check(a)
    BY <1>3, <2>1 DEF TickEnd, tick_end
  <2> QED
    BY <2>1, <2>2, PreemptCheckLemma DEF SameRun
<1> QED
  BY <1>1, <1>2, <1>3 DEF Exception

LEMMA CreatePriority ==
  ASSUME NEW s \in SchedState, NEW x \in Task, NEW p \in Prio, NEW r,
         r = task_create(s, x, p)
  PROVE  /\ r.priority[x] = p /\ r.lock = s.lock
         /\ \A y \in Task \ {x} : r.priority[y] = s.priority[y]
<1>1. PICK a : a = tcb_init(s, x, p)
  OBVIOUS
<1>2. /\ a \in SchedState /\ SameRun(a, s)
      /\ \A y \in Task \ {x} : a.priority[y] = s.priority[y]
  BY <1>1, TcbInitLemma
<1>3. a.priority[x] = p
  BY <1>1 DEF tcb_init, SchedState
<1>4. r.priority = a.priority /\ SameRun(r, a)
  BY <1>1, <1>2, AddReadies, AddLemma DEF task_create
<1> QED
  BY <1>2, <1>3, <1>4 DEF SameRun

\* The kernel's own steps, when nobody boosts.
LEMMA OtherCalm ==
  ASSUME ~Racy, "lock" \notin Calls, RuleInv, Calm, Next
  PROVE  Calm'
<1>0. sched \in SchedState /\ Base
  BY DEF RuleInv, Base, TypeOK
<1>1. StoppedLeaves'
  BY StopStep DEF StopInv, Calm
<1>2. CASE kernel_init
  <2>1. /\ sched' = task_create(sched, Idle, MaxPriority - 1) /\ MaxPriority - 1 \in Prio
        /\ Idle \in Task
    BY <1>2, ConstantsAssumption, AppTask DEF kernel_init, RuleInv, Prio
  <2> QED
    BY <1>0, <1>1, <2>1, CreatePriority DEF Calm, IdleIsLast
<1>3. ASSUME NEW x \in App, NEW p \in Prio, main_create(x, p)
      PROVE  Calm'
  <2>1. /\ sched' = task_create(sched, x, p) /\ kstate # "UNINIT" /\ kstate' = kstate
        /\ x \in Task /\ Idle \in Task \ {x}
    BY <1>3, AppTask DEF main_create
  <2> QED
    BY <1>0, <1>1, <2>1, CreatePriority DEF Calm, IdleIsLast
<1>4. CASE kernel_start \/ scheduler_start
  <2>1. sched'.priority = sched.priority /\ sched'.lock = sched.lock /\ kstate # "UNINIT"
    BY <1>0, <1>4 DEF kernel_start, scheduler_start, SchedState
  <2> QED
    BY <1>1, <2>1 DEF Calm, IdleIsLast
<1>5. CASE Exception
  <2>1. kstate # "UNINIT" /\ kstate' = kstate
    BY <1>5 DEF Exception, SysTick, TickScan, TickEnd, PendSV, tick_scan, tick_end,
       InterruptsOn, RuleInv, NoScan
  <2>2. sched'.priority = sched.priority
    BY <1>0, <1>5, <2>1, RuledNobodyMoves, ExceptionHidden
  <2>3. sched'.lock = sched.lock
    BY <1>0, <1>5, ExceptionLock
  <2> QED
    BY <1>1, <2>1, <2>2, <2>3 DEF Calm, IdleIsLast
<1>6. ASSUME NEW t \in App, Direct(t) \/ Svc(t)
      PROVE  Calm'
  <2>1. /\ Ruled(sched) /\ sched.cur = t /\ CallEffect(sched', sched, t)
        /\ kstate = "RUNNING"
    BY <1>6, Stepping, CallEffects
  <2>2. sched'.priority = sched.priority /\ sched'.lock = sched.lock
    BY <2>1, EffectOnPriority, EffectOnLock
  <2>3. kstate # "UNINIT"
    BY <2>1
  <2> QED
    BY <1>1, <2>2, <2>3 DEF Calm, IdleIsLast
<1> QED
  BY <1>2, <1>3, <1>4, <1>5, <1>6 DEF Next, Boot
\* The calls of the mutex, when nobody boosts.
LEMMA CallCalm ==
  ASSUME ~Racy, InheritInv, OwnerOutside, Quiet, Calm, NEW t \in App, MutexCall(t)
  PROVE  Calm'
<1>0. /\ RuleInv /\ sched \in SchedState /\ t \in Task /\ t # NULL
      /\ Idle \in Task \ {t} /\ base \in [Task -> Prio] /\ stim \in [Task -> Tick]
  BY QuietRule, AppTask DEF InheritInv, MoveInv, Base, TypeOK, Fields
<1>1. At(t, "run") /\ kstate = "RUNNING" /\ sched.cur = t /\ pc[t] = "run"
  BY DEF MutexCall, mutex_lock_boost, mutex_lock_raise, mutex_lock_wait, mutex_lock_result,
     mutex_unlock, mutex_lock, block_task, block_task_yield, WaitEnds, WaitAt, At, Runs
<1>2. Leaving(sched)
  BY <1>1 DEF Calm, StoppedLeaves
<1>3. ASSUME UNCHANGED <<sched, kstate>>
      PROVE  Calm'
  BY <1>2, <1>3 DEF Calm, IdleIsLast, StoppedLeaves, Leaving
<1>4. ASSUME sched'.lock = sched.lock, sched'.priority[Idle] = sched.priority[Idle],
             kstate' = kstate, Leaving(sched')
      PROVE  Calm'
  BY <1>4 DEF Calm, IdleIsLast, StoppedLeaves
<1>5. CASE \/ mutex_lock_boost(t) \/ mutex_lock_result(t)
           \/ \E n \in Timeouts : mutex_lock(t, n)
  BY <1>3, <1>5 DEF mutex_lock_boost, mutex_lock_result, mutex_lock, vars
<1>6. CASE mutex_lock_raise(t)
  BY <1>6 DEF mutex_lock_raise, WaitAt, Quiet, Boosting
<1>7. CASE block_task(t, "MUTEX", Mtx)
  <2>1. /\ sched' = scheduler_block_task(sched, "MUTEX", Mtx, stim[t]) /\ kstate' = kstate
        /\ "MUTEX" \in BlockReason /\ Mtx \in Object \cup {NULL} /\ stim[t] \in Tick
        /\ sched.cur # NULL
    BY <1>0, <1>1, <1>7, MutexAssumption DEF block_task, KernelIs, BlockReason
  <2>2. SameRun(sched', sched) /\ sched'.pendsv
    BY <1>0, <2>1, BlockLemma
  <2>3. sched'.priority = sched.priority
    <3>1. WaitBegun(sched', sched, sched.cur, "MUTEX", Mtx, stim[t])
      BY <1>0, <2>1, BlockWaits
    <3> QED
      BY <3>1 DEF WaitBegun
  <2> QED
    BY <1>4, <2>1, <2>2, <2>3 DEF SameRun, Leaving
<1>8. CASE block_task_yield(t)
  <2>1. sched' = scheduler_yield(sched) /\ kstate' = kstate /\ sched.cur # NULL
    BY <1>0, <1>1, <1>8 DEF block_task_yield, KernelIs
  <2>2. Leaving(sched') /\ sched'.lock = sched.lock /\ sched'.priority = sched.priority
    BY <1>0, <2>1, YieldLeaves, YieldLemma, YieldOrder
  <2> QED
    BY <1>4, <2>1, <2>2
<1>9. CASE mutex_unlock(t) /\ UNCHANGED vars
  BY <1>3, <1>9 DEF vars
<1>10. CASE KernelIs(scheduler_unblock_one(restore_priority(sched, t), "MUTEX", Mtx, "OK"))
  <2>1. PICK a : a = restore_priority(sched, t)
    OBVIOUS
  <2>2. Ruled(sched) /\ Good(sched) /\ base[t] \in Prio
    BY <1>0, <1>1, BaseGood DEF RuleInv
  <2>3. a \in SchedState /\ \A u \in Task \ {t} : a.priority[u] = sched.priority[u]
    BY <2>1, <2>2, RestoreLemma DEF Ruled
  <2>4. SameRun(a, sched) /\ (a.state[t] = sched.state[t] \/ a.state[t] = "READY")
    <3>1. CASE a = sched
      BY <3>1 DEF SameRun
    <3>2. CASE a = scheduler_set_priority(sched, t, base[t])
      BY <1>0, <2>2, <3>2, SetPriorityLemma
    <3> QED
      BY <2>1, <3>1, <3>2 DEF restore_priority
  <2>5. /\ sched' = scheduler_unblock_one(a, "MUTEX", Mtx, "OK") /\ "OK" \in Result
        /\ kstate' = kstate
    BY <1>10, <2>1 DEF KernelIs, Result
  <2>6. /\ SameRun(sched', a) /\ sched'.priority = a.priority
        /\ sched'.state[t] = a.state[t] \/ sched'.state[t] = "READY"
    <3>1. CASE sched' = a
      BY <3>1 DEF SameRun
    <3>2. ASSUME NEW u \in Task, SameRun(sched', a), sched'.state = [a.state EXCEPT ![u] = "READY"],
                 WaitOver(sched', a, u, "OK")
          PROVE  /\ sched'.priority = a.priority
                 /\ sched'.state[t] = a.state[t] \/ sched'.state[t] = "READY"
      BY <1>0, <2>3, <3>2 DEF WaitOver, SchedState
    <3> QED
      BY <2>3, <2>5, <3>1, <3>2, UnblockOneLemma
  <2>7. Leaving(a)
    BY <1>1, <1>2, <2>4, LeavingKept DEF Runnable
  <2>8. Leaving(sched')
    BY <1>1, <2>4, <2>6, <2>7, LeavingKept DEF Runnable, SameRun
  <2> QED
    BY <1>0, <1>4, <2>3, <2>4, <2>5, <2>6, <2>8 DEF SameRun
<1> QED
  BY <1>5, <1>6, <1>7, <1>8, <1>9, <1>10 DEF MutexCall, mutex_lock_wait, mutex_unlock

\* Only the look at the owner begins a boost.
LEMMA OtherStaysQuiet ==
  ASSUME ~Racy, InheritInv, Quiet, OtherStep
  PROVE  Quiet'
<1>1. Next /\ UNCHANGED spc
  BY DEF OtherStep, KernelStep, Next, waitVars
<1>2. Resting'
  BY <1>1, QuietRule, NextRule, RuleRestNext
<1> QED
  BY <1>1, <1>2 DEF Quiet, Boosting, Resting, MovingPC

LEMMA CallStaysQuiet ==
  ASSUME ~Racy, InheritInv, Quiet, NEW t \in App, MutexCall(t), ~mutex_lock_boost(t)
  PROVE  Quiet'
<1>1. spc \in [Task -> MutexLabel] /\ t \in Task
  BY AppTask DEF InheritInv, HoldInv
<1>2. ~mutex_lock_raise(t)
  BY DEF mutex_lock_raise, WaitAt, Quiet, Boosting
<1>3. pc' = pc
  BY <1>2 DEF MutexCall, mutex_lock_wait, mutex_lock_result, mutex_unlock, mutex_lock,
     block_task, block_task_yield, KernelIs, vars
<1>4. \/ spc' = spc
      \/ \E l \in {"out", "boost", "woken", "result"} : spc' = [spc EXCEPT ![t] = l]
  BY <1>2 DEF MutexCall, mutex_lock_wait, mutex_lock_result, mutex_unlock, mutex_lock,
     block_task, block_task_yield, KernelIs, waitVars, try_or_boost, GiveUpOr, Leave, To
<1>5. \A u \in App : spc'[u] = spc[u] \/ spc'[u] # "raise"
  BY <1>1, <1>4, AppTask
<1> QED
  BY <1>3, <1>5 DEF Quiet, Boosting

\* The booster begins as the running task, is runnable, and outranks the owner
\* and with it the lowest priority.
LEMMA LookAhead ==
  ASSUME ~Racy, InheritInv, Quiet, Calm, NEW t \in App, mutex_lock_boost(t)
  PROVE  BoostsAlone' /\ Ahead'
<1>1. /\ At(t, "run") /\ sched.cur = t /\ ~sched.pendsv /\ pc[t] = "run"
      /\ kstate = "RUNNING" /\ UNCHANGED <<sched, pc>>
  BY DEF mutex_lock_boost, WaitAt, At, Runs
<1>2. sched \in SchedState /\ spc \in [Task -> MutexLabel] /\ t \in Task /\ ~sched.resched
  BY AppTask DEF InheritInv, HoldInv, MoveInv, Base, TypeOK, DeferredYieldKept, Calm
<1>3. sched.state[t] \in Runnable
  BY <1>1, <1>2 DEF Calm, StoppedLeaves, Leaving
<1>4. \A u \in App \ {t} : ~Boosting(u)'
  <2>1. \A u \in App \ {t} : spc'[u] = spc[u]
    BY <1>2, AppTask DEF mutex_lock_boost, To
  <2> QED
    BY <1>1, <2>1 DEF Quiet, Boosting
<1>5. ASSUME Boosting(t)' PROVE sched.priority[t] < MaxPriority - 1
  <2>1. spc'[t] = "raise"
    BY <1>1, <1>5 DEF Boosting
  <2>2. owner # NULL /\ sched.priority[owner] > sched.priority[t]
    BY <1>2, <2>1 DEF mutex_lock_boost, To
  <2>3. owner \in Task
    BY <2>2, AppTask DEF InheritInv, HoldInv, Counts
  <2>4. sched.priority[owner] \in 0 .. MaxPriority - 1 /\ sched.priority[t] \in 0 .. MaxPriority - 1
    BY <1>2, <2>3 DEF SchedState, Prio
  <2> QED
    BY <2>2, <2>4, ConstantsAssumption
<1> QED
  BY <1>1, <1>3, <1>4, <1>5 DEF BoostsAlone, Ahead
\* A step in the middle of a boost that leaves the booster where it is.
LEMMA AheadKept ==
  ASSUME InheritInv, BoostsAlone, OwnerOutside, Ahead, Calm, NEW t \in App, Boosting(t),
         sched'.cur = sched.cur, sched'.state[t] = sched.state[t],
         sched'.priority[t] = sched.priority[t],
         sched'.priority[Idle] = sched.priority[Idle], sched'.lock = sched.lock,
         kstate' = kstate,
         \A u \in App \ {t} : pc'[u] = pc[u] /\ spc'[u] = spc[u]
  PROVE  BoostsAlone' /\ Ahead' /\ Calm'
<1>1. /\ sched.cur = t /\ \A u \in App \ {t} : ~Boosting(u)
  BY Booster
<1>2. \A u \in App \ {t} : ~Boosting(u)'
  BY <1>1 DEF Boosting
<1>3. BoostsAlone'
  BY <1>1, <1>2 DEF BoostsAlone
<1>4. sched.state[t] \in Runnable /\ sched.priority[t] < MaxPriority - 1
  BY DEF Ahead
<1>5. Ahead'
  BY <1>2, <1>4 DEF Ahead
<1>6. StoppedLeaves'
  BY <1>1, <1>4 DEF StoppedLeaves, Leaving
<1> QED
  BY <1>3, <1>5, <1>6 DEF Calm, IdleIsLast

\* With two tasks PendSV finds the booster again.
LEMMA NextIsBooster ==
  ASSUME AtMostTwoTasks, InheritInv, BoostsAlone, OwnerOutside, Ahead, Calm,
         NEW t \in App, Boosting(t)
  PROVE  scheduler_get_next(sched) = t
<1>1. /\ t \in Task /\ owner \in App /\ owner \in Task /\ owner # t /\ owner # NULL
      /\ BoostAt(t) /\ kstate = "RUNNING"
      /\ OnMove = IF pc[t] \in {"prio_write", "prio_add"} THEN owner ELSE NULL
      /\ RuledBut(OnMove) /\ sched \in SchedState /\ sched.priority \in [Task -> Nat]
  BY Booster
<1>2. PICK h : h = Hidden(sched, OnMove)
  OBVIOUS
<1>3. OnMove \in App \cup {NULL}
  BY <1>1
<1>4. /\ Ruled(h) /\ SameLists(h, sched) /\ h.priority = sched.priority
      /\ \A y \in Task : h.state[y] = IF y = OnMove THEN "SUSPENDED" ELSE sched.state[y]
  BY <1>1, <1>2, <1>3, HiddenFields DEF RuledBut
<1>5. h \in SchedState /\ Placed(h) /\ h.state[t] \in Runnable
  BY <1>1, <1>4, AppTask DEF Ahead, Ruled
<1>6. PICK next : next = scheduler_get_next(h)
  OBVIOUS
<1>7. next = scheduler_get_next(sched)
  BY <1>4, <1>6 DEF scheduler_get_next, SameLists
<1>8. next # NULL /\ next \in Task /\ h.state[next] \in Runnable
  BY <1>1, <1>5, <1>6, GetNextLemma DEF Runnable
<1>9. \A q \in h.bitmap : ~(q < h.priority[next])
  BY <1>4, <1>6, <1>8, NextIsFirst
<1>10. h.priority[t] \in h.bitmap
  <2>1. On(h, t, h.priority[t]) /\ h.priority[t] \in Prio
    BY <1>1, <1>5 DEF Placed, StateTells, Runnable, SchedState
  <2>2. h.list[h.priority[t]] # <<>>
    BY <2>1 DEF On
  <2> QED
    BY <1>5, <2>1, <2>2 DEF Placed, Intact, BitmapAgrees
<1>11. ~(sched.priority[t] < sched.priority[next])
  BY <1>4, <1>9, <1>10
<1>12. next # Idle
  <2>1. sched.priority[t] < sched.priority[Idle]
    BY <1>1 DEF Calm, IdleIsLast, Ahead
  <2> QED
    BY <1>11, <2>1
<1>13. next # owner
  <2>1. CASE OnMove = owner
    BY <1>1, <1>4, <1>8, <2>1 DEF Runnable
  <2>2. CASE OnMove # owner
    <3>1. sched.priority[owner] > sched.priority[t]
      BY <1>1, <2>2 DEF BoostAt
    <3> QED
      BY <1>1, <1>11, <3>1
  <2> QED
    BY <2>1, <2>2
<1>14. next \in App
  BY <1>8, <1>12 DEF Task
<1> QED
  BY <1>1, <1>7, <1>13, <1>14 DEF AtMostTwoTasks

LEMMA ExceptionAhead ==
  ASSUME AtMostTwoTasks, InheritInv, BoostsAlone, OwnerOutside, Ahead, Calm,
         NEW t \in App, Boosting(t), Exception, UNCHANGED <<spc, owner>>
  PROVE  BoostsAlone' /\ Ahead' /\ Calm'
<1>1. /\ t \in Task /\ sched.cur = t /\ RuledBut(OnMove) /\ Base /\ sched \in SchedState
      /\ OnMove \in App \cup {NULL}
  BY Booster
<1>2. UNCHANGED <<kstate, pc>>
  BY DEF Exception, SysTick, TickScan, TickEnd, PendSV
<1>3. sched'.priority = sched.priority /\ Ticked(t)
  BY <1>1, ExceptionHidden
<1>4. sched'.state[t] = sched.state[t]
  BY <1>3 DEF Ticked, Ahead, Runnable
<1>5. sched'.lock = sched.lock
  BY <1>1, ExceptionLock
<1>6. sched'.cur = sched.cur
  <2>1. CASE PendSV
    BY <1>1, <2>1, NextIsBooster DEF PendSV, PendSV_Handler, SchedState
  <2>2. CASE SysTick
    BY <1>1, <2>2 DEF SysTick, scheduler_tick, SchedState
  <2>3. CASE TickScan
    <3>1. scan.rest \in Seq(Task) /\ scan.rest # <<>>
      BY <1>1, <2>3 DEF TickScan, tick_scan, ScanState, Base, TypeOK
    <3>2. PICK x \in Task : x = Head(scan.rest)
      BY <3>1, TailProps
    <3>3. PICK u : u = IF sched.reason[x] = "DELAY" THEN sched.result[x] ELSE "TIMEOUT"
      OBVIOUS
    <3>4. sched' = sched \/ sched' = MakeReady(sched, x, u)
      BY <2>3, <3>2, <3>3 DEF TickScan, tick_scan
    <3>5. sched.result[x] \in Result /\ "TIMEOUT" \in Result
      BY <1>1, <3>2 DEF SchedState, Result
    <3>6. u \in Result
      BY <3>3, <3>5
    <3>7. SameRun(MakeReady(sched, x, u), sched)
      BY <1>1, <3>6, MakeReadyLemma
    <3> QED
      BY <3>4, <3>7 DEF SameRun
  <2>4. CASE TickEnd
    <3>1. PICK a \in SchedState : a = charge_slice(sched) /\ a.cur = sched.cur
      BY <1>1, ChargeSliceLemma
    <3>2. sched' = preempt_check(a)
      BY <2>4, <3>1 DEF TickEnd, tick_end
    <3> QED
      BY <3>1, <3>2, PreemptCheckLemma DEF SameRun
  <2> QED
    BY <2>1, <2>2, <2>3, <2>4 DEF Exception
<1> QED
  BY <1>2, <1>3, <1>4, <1>5, <1>6, AheadKept

LEMMA PrioAhead ==
  ASSUME InheritInv, BoostsAlone, OwnerOutside, Ahead, Calm, NEW t \in App, PrioStep(t)
  PROVE  BoostsAlone' /\ Ahead' /\ Calm'
<1>1. /\ Boosting(t) /\ Target(t) = owner /\ kstate' = kstate /\ spc' = spc
  BY PrioFrame
<1>2. /\ t \in Task /\ owner \in Task /\ owner # t /\ Idle \in Task /\ owner # Idle
      /\ sched \in SchedState /\ pc \in [Task -> PC]
  BY <1>1, Booster, AppTask
<1>3. \E l \in PC : pc' = [pc EXCEPT ![t] = l]
  BY DEF PrioStep, prio_remove, prio_write, prio_store, prio_add, Goto, Return, PC
<1>4. \A u \in App \ {t} : pc'[u] = pc[u] /\ spc'[u] = spc[u]
  BY <1>1, <1>2, <1>3, AppTask
<1>5. /\ sched'.cur = sched.cur /\ sched'.lock = sched.lock
      /\ \A y \in Task \ {owner} : /\ sched'.state[y] = sched.state[y]
                                   /\ sched'.priority[y] = sched.priority[y]
  <2>1. CASE prio_remove(t)
    <3>1. SameFields(sched', sched)
      BY <1>1, <1>2, <2>1, RemoveTaskLemma DEF prio_remove, Kernel
    <3> QED
      BY <3>1 DEF SameFields
  <2>2. CASE prio_write(t) \/ prio_store(t)
    BY <1>1, <1>2, <2>2 DEF prio_write, prio_store, Kernel, SchedState
  <2>3. CASE prio_add(t)
    <3>1. sched' = scheduler_add_task(sched, owner)
      BY <1>1, <2>3 DEF prio_add, Kernel
    <3>2. /\ SameRun(sched', sched) /\ sched'.state = [sched.state EXCEPT ![owner] = "READY"]
          /\ sched'.priority = sched.priority
      BY <1>2, <3>1, AddLemma, AddReadies
    <3> QED
      BY <1>2, <3>2 DEF SameRun, SchedState
  <2> QED
    BY <2>1, <2>2, <2>3 DEF PrioStep
<1> QED
  BY <1>1, <1>2, <1>4, <1>5, AheadKept

LEMMA PairStep ==
  ASSUME ~Racy, DepthMax <= RecMax, "lock" \notin Calls, AtMostTwoTasks
  PROVE  PairInv /\ OwnerOutside /\ [MutexNext]_allVars => late' \/ PairInv'
<1> SUFFICES ASSUME PairInv, OwnerOutside, [MutexNext]_allVars, ~late'
             PROVE  PairInv'
  OBVIOUS
<1>0. InheritInv /\ BoostsAlone /\ Ahead /\ Calm
  BY DEF PairInv
<1>1. InheritInv'
  BY <1>0, InheritStep
<1>2. ASSUME MutexNext, NEW t \in App, Boosting(t)
      PROVE  BoostsAlone' /\ Ahead' /\ Calm'
  <2>1. CASE Exception /\ UNCHANGED <<waitVars, owner, rec, depth, behind>> /\ set_base
    BY <1>0, <1>2, <2>1, ExceptionAhead DEF waitVars
  <2>2. CASE mutex_lock_raise(t)
    <3>1. /\ UNCHANGED <<sched, kstate>> /\ spc' = [spc EXCEPT ![t] = "block"]
          /\ \E l \in PC : pc' = [pc EXCEPT ![t] = l]
      BY <2>2 DEF mutex_lock_raise, To, Goto, PC
    <3>2. pc \in [Task -> PC] /\ spc \in [Task -> MutexLabel] /\ t \in Task
      BY <1>0, <1>2, Booster
    <3>3. \A u \in App \ {t} : pc'[u] = pc[u] /\ spc'[u] = spc[u]
      BY <3>1, <3>2, AppTask
    <3> QED
      BY <1>0, <1>2, <3>1, <3>3, AheadKept
  <2>3. CASE PrioStep(t)
    BY <1>0, <2>3, PrioAhead
  <2> QED
    BY <1>0, <1>2, <2>1, <2>2, <2>3, WhileBoosting DEF InheritInv, PrioStep
<1>3. ASSUME Quiet' PROVE BoostsAlone' /\ Ahead'
  BY <1>3 DEF Quiet, BoostsAlone, Ahead
<1>4. ASSUME Quiet, OtherStep
      PROVE  BoostsAlone' /\ Ahead' /\ Calm'
  <2>1. Next
    BY <1>4 DEF OtherStep, KernelStep, Next
  <2>2. Calm'
    BY <1>0, <1>4, <2>1, QuietRule, OtherCalm
  <2> QED
    BY <1>0, <1>3, <1>4, <2>2, OtherStaysQuiet
<1>5. ASSUME Quiet, NEW t \in App, MutexCall(t)
      PROVE  BoostsAlone' /\ Ahead' /\ Calm'
  BY <1>0, <1>3, <1>5, CallCalm, CallStaysQuiet, LookAhead
<1>6. CASE UNCHANGED allVars
  <2>1. UNCHANGED <<sched, kstate, pc, spc>>
    BY <1>6 DEF allVars, vars, waitVars
  <2>2. \A t \in App : Boosting(t)' <=> Boosting(t)
    BY <2>1 DEF Boosting
  <2>3. BoostsAlone' /\ Ahead'
    BY <1>0, <2>1, <2>2 DEF BoostsAlone, Ahead
  <2>4. Calm'
    BY <1>0, <2>1 DEF Calm, IdleIsLast, StoppedLeaves, Leaving
  <2> QED
    BY <1>1, <2>3, <2>4 DEF PairInv
<1> QED
  BY <1>1, <1>2, <1>4, <1>5, <1>6 DEF PairInv, Quiet, MutexNext

LEMMA PairHolds ==
  ASSUME ~Racy, DepthMax <= RecMax, "lock" \notin Calls, AtMostTwoTasks
  PROVE  MutexSpec /\ []OwnerOutside => [](late \/ PairInv)
<1>1. MutexInit => PairInv
  <2> SUFFICES ASSUME MutexInit PROVE PairInv
    OBVIOUS
  <2>1. \A t \in App : ~Boosting(t)
    BY AppTask DEF MutexInit, Init, WaitInit, Boosting
  <2>2. Calm
    BY DEF MutexInit, Init, scheduler_init, Calm, IdleIsLast, StoppedLeaves
  <2> QED
    BY <2>1, <2>2, InheritInitial DEF PairInv, BoostsAlone, Ahead
<1>2. PairInv /\ OwnerOutside /\ [MutexNext]_allVars => late' \/ PairInv'
  BY PairStep
<1> QED
  BY <1>1, <1>2, LateStays, PTL DEF MutexSpec

\* mutex_lock: with two tasks nothing comes between the steps of a boost but
\* exceptions, which go back to the booster, whatever the priorities, delays,
\* time-outs and suspensions, also of the owner; scheduler_lock is not used.
\* It is proved up to the first time a tick wakes an owner too early.
THEOREM BoostUndisturbed ==
  ASSUME ~Racy, DepthMax <= RecMax, "lock" \notin Calls, AtMostTwoTasks
  PROVE  MutexSpec /\ []OwnerOutside => [](late \/ BoostsAlone)
<1>1. PairInv => BoostsAlone
  BY DEF PairInv
<1> QED
  BY <1>1, PairHolds, PTL

\* kernel/sync/mutex.c: two tasks that share a recursive mutex, and may sleep
\* and be suspended while they hold it.  Until a tick wakes a sleeping owner
\* between the test of its state in scheduler_set_priority and the store of
\* its priority, the owner inherits its waiter's priority, gives it back, and
\* its moves between the ready lists damage nothing.
THEOREM PairIsSafe ==
  ASSUME ~Racy, DepthMax <= RecMax, "lock" \notin Calls, AtMostTwoTasks, Recursive
  PROVE  MutexSpec => [](late \/ (OwnerInherits /\ PriorityRestored /\ BoostKeepsLists))
<1>1. OwnerOutside
  BY DEF OwnerOutside
<1>2. PairInv => OwnerInherits /\ PriorityRestored /\ BoostKeepsLists
  BY InheritMeans DEF PairInv
<1> QED
  BY <1>1, <1>2, PairHolds, PTL
=============================================================================
