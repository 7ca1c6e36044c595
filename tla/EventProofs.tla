----------------------------- MODULE EventProofs -----------------------------
(***************************************************************************)
(* The event group, for every number of tasks, bits and conditions.        *)
(***************************************************************************)
EXTENDS EventGroup, TaskApiProofs

\* EventsAccounted is not inductive alone: an event_clear stores bits that it
\* loaded earlier, and they are what the flags are now unless it knows them to
\* be stale.
LoadsKnown ==
    \A u \in App : spc[u] = "clear" =>
        \A b \in Bit \ stale[u] : b \in want[u].loaded <=> b \in flags

AccountTypes == want \in [Task -> Want] /\ spc \in [Task -> WaitLabel \cup {"clear"}]

AccountInv == AccountTypes /\ EventsAccounted /\ LoadsKnown

\* Bits change outside event_clear: set, cleared by a handler, or consumed.
LEMMA ChangeAccounted ==
    ASSUME AccountInv, AccountTypes', NEW S, Changed(S),
           \A b \in Bit \ S : (b \in flags' <=> b \in flags) /\ (b \in due' <=> b \in due),
           \A b \in Bit \cap S : b \in flags' <=> b \in due',
           \A u \in App : spc'[u] = "clear" => spc[u] = "clear" /\ want'[u] = want[u]
    PROVE  AccountInv'
  <1>1. App \subseteq Task
    BY AppTask
  <1>2. EventsAccounted'
    BY DEF AccountInv, EventsAccounted, Changed
  <1>3. ASSUME NEW u \in App, spc'[u] = "clear", NEW b \in Bit \ stale'[u]
        PROVE  b \in want'[u].loaded <=> b \in flags'
    <2>1. stale'[u] = stale[u] \cup S /\ want'[u] = want[u] /\ spc[u] = "clear"
      BY <1>1, <1>3 DEF Changed
    <2> QED
      BY <1>3, <2>1 DEF AccountInv, LoadsKnown
  <1> QED
    BY <1>2, <1>3 DEF AccountInv, LoadsKnown

\* Nothing of the group changes, and nobody comes to its store.
LEMMA IdleAccounted ==
    ASSUME AccountInv, AccountTypes', UNCHANGED <<flags, due, stale, wrong>>,
           \A u \in App : spc'[u] = "clear" => spc[u] = "clear" /\ want'[u] = want[u]
    PROVE  AccountInv'
  BY DEF AccountInv, EventsAccounted, LoadsKnown

LEMMA EventConstants ==
    /\ Group \in Object /\ "EVENT" \in BlockReason /\ "OK" \in Result
    /\ 0 \in Tick /\ Timeouts \subseteq Tick /\ NoWant \in Want /\ WaitArg \subseteq Want
  <1>1. NoWant \in Want
    BY DEF NoWant, Want
  <1>2. WaitArg \subseteq Want
    BY EventAssumption DEF WaitArg, Want
  <1> QED
    BY <1>1, <1>2, EventAssumption, WaitAssumption, ConstantsAssumption
    DEF BlockReason, Result, Tick

LEMMA TestAccounted ==
    ASSUME AccountInv, NEW t \in App, spc[t] # "clear", NEW w \in Want, NEW n,
           test_or_wait(t, w, n)
    PROVE  AccountInv'
  <1>1. t \in Task /\ App \subseteq Task /\ NoWant \in Want
    BY AppTask, EventConstants
  <1>2. /\ \E x \in {NoWant, w} : want' = [want EXCEPT ![t] = x]
        /\ \E l \in {"out", "block"} : spc' = [spc EXCEPT ![t] = l]
    BY DEF test_or_wait, Forget, Leave, GiveUpOr, To
  <1>3. /\ AccountTypes'
        /\ \A u \in App : spc'[u] = "clear" => spc[u] = "clear" /\ want'[u] = want[u]
    BY <1>1, <1>2 DEF AccountInv, AccountTypes, WaitLabel
  <1>4. CASE event_match(flags, w)
    <2>1. PICK S : S = IF w.clear THEN matched(w) ELSE {}
      OBVIOUS
    <2>2. flags' = flags \ S /\ due' = due \ S /\ Changed(S)
      BY <1>4, <2>1 DEF test_or_wait, consumed
    <2> QED
      BY <1>3, <2>2, ChangeAccounted
  <1>5. CASE ~event_match(flags, w)
    BY <1>3, <1>5, IdleAccounted DEF test_or_wait
  <1> QED
    BY <1>4, <1>5

\* An event_clear loads: what it holds is the flags.
LEMMA LoadAccounted ==
    ASSUME AccountInv, NEW t \in App, NEW b \in Bit, event_clear_load(t, {b}),
           flags \in SUBSET Bit
    PROVE  AccountInv'
  <1> DEFINE w == [NoWant EXCEPT !.bits = {b}, !.loaded = flags]
  <1>1. t \in Task /\ App \subseteq Task /\ NoWant \in Want
    BY AppTask, EventConstants
  <1>2. w \in Want /\ w.loaded = flags
    BY <1>1 DEF Want
  <1> HIDE DEF w
  <1>3. /\ want' = [want EXCEPT ![t] = w] /\ spc' = [spc EXCEPT ![t] = "clear"]
        /\ UNCHANGED <<flags, due, stale, wrong>>
    BY DEF event_clear_load, To, w
  <1>4. AccountTypes'
    BY <1>1, <1>2, <1>3 DEF AccountInv, AccountTypes
  <1>5. want'[t] = w /\ \A u \in App \ {t} : want'[u] = want[u] /\ spc'[u] = spc[u]
    BY <1>1, <1>3 DEF AccountInv, AccountTypes
  <1> QED
    BY <1>2, <1>3, <1>4, <1>5 DEF AccountInv, EventsAccounted, LoadsKnown

\* An event_clear stores: a bit it does not clear comes out as it is now, or is
\* stale and goes wrong.
LEMMA StoreAccounted ==
    ASSUME AccountInv, NEW t \in App, event_clear_store(t)
    PROVE  AccountInv'
  <1>1. t \in Task /\ App \subseteq Task /\ NoWant \in Want
    BY AppTask, EventConstants
  <1>2. /\ spc[t] = "clear" /\ flags' = want[t].loaded \ want[t].bits
        /\ due' = due \ want[t].bits /\ wrong' = (wrong \cup stale[t]) \ want[t].bits
        /\ spc' = [spc EXCEPT ![t] = "out"] /\ want' = [want EXCEPT ![t] = NoWant]
        /\ stale' = [u \in Task |-> IF u # t /\ spc[u] = "clear"
                                    THEN stale[u] \cup want[t].bits \cup stale[t] ELSE {}]
    BY DEF event_clear_store, WaitAt, Leave, To, Forget
  <1>3. AccountTypes'
    BY <1>1, <1>2 DEF AccountInv, AccountTypes, WaitLabel
  <1>4. \A b \in Bit \ stale[t] : b \in want[t].loaded <=> b \in flags
    BY <1>2 DEF AccountInv, LoadsKnown
  <1>5. EventsAccounted'
    BY <1>2, <1>4 DEF AccountInv, EventsAccounted
  <1>6. ASSUME NEW u \in App, spc'[u] = "clear", NEW b \in Bit \ stale'[u]
        PROVE  b \in want'[u].loaded <=> b \in flags'
    <2>1. u # t /\ spc[u] = "clear" /\ want'[u] = want[u]
      BY <1>1, <1>2, <1>6 DEF AccountInv, AccountTypes
    <2>2. stale'[u] = stale[u] \cup want[t].bits \cup stale[t]
      BY <1>1, <1>2, <2>1
    <2>3. b \in want[u].loaded <=> b \in flags
      BY <1>6, <2>1, <2>2 DEF AccountInv, LoadsKnown
    <2>4. b \in flags' <=> b \in flags
      BY <1>2, <1>4, <1>6, <2>2
    <2> QED
      BY <2>1, <2>3, <2>4
  <1> QED
    BY <1>3, <1>5, <1>6 DEF AccountInv, LoadsKnown

LEMMA AccountedStep ==
    ASSUME AccountInv, flags \in SUBSET Bit, [EventNext]_allVars
    PROVE  AccountInv'
  <1>0. App \subseteq Task
    BY AppTask
  <1>1. CASE (KernelStep \/ WakeLoop) /\ UNCHANGED <<flags, want, due, stale, wrong>>
    <2>1. spc' = spc /\ want' = want
      BY <1>1 DEF KernelStep, WakeLoop, waitVars
    <2> QED
      BY <1>1, <2>1, IdleAccounted DEF AccountInv, AccountTypes
  <1>2. ASSUME NEW t \in App, EventCall(t) PROVE AccountInv'
    <2>0. t \in Task /\ want[t] \in Want /\ NoWant \in Want
      BY <1>0, EventConstants DEF AccountInv, AccountTypes
    <2>1. CASE event_wait_block(t)
      <3>1. /\ UNCHANGED <<flags, want, due, stale, wrong>>
            /\ \E l \in {"woken", "result"} : spc' = [spc EXCEPT ![t] = l]
        BY <2>1 DEF event_wait_block, block_task, block_task_yield, To
      <3>2. AccountTypes' /\ \A u \in App : spc'[u] = "clear" => spc[u] = "clear"
        BY <1>0, <2>0, <3>1 DEF AccountInv, AccountTypes, WaitLabel
      <3> QED
        BY <3>1, <3>2, IdleAccounted
    <2>2. CASE event_wait_result(t)
      <3>1. spc[t] = "result"
        BY <2>2 DEF event_wait_result, WaitEnds, WaitAt
      <3>2. CASE Leave(t) /\ Forget(t) /\ UNCHANGED <<flags, due, stale, wrong>>
        <4>1. /\ AccountTypes'
              /\ \A u \in App : spc'[u] = "clear" => spc[u] = "clear" /\ want'[u] = want[u]
          BY <1>0, <2>0, <3>2 DEF AccountInv, AccountTypes, WaitLabel, Leave, Forget, To
        <4> QED
          BY <3>2, <4>1, IdleAccounted
      <3>3. CASE test_or_wait(t, want[t], stim[t])
        BY <2>0, <3>1, <3>3, TestAccounted
      <3> QED
        BY <2>2, <3>2, <3>3 DEF event_wait_result
    <2>3. CASE event_clear_store(t)
      BY <2>3, StoreAccounted
    <2>4. CASE \E b \in Bit : event_set(t, {b})
      <3>1. PICK b \in Bit : event_set(t, {b})
        BY <2>4
      <3>2. /\ flags' = flags \cup {b} /\ due' = due \cup {b} /\ Changed({b})
            /\ UNCHANGED <<spc, want>>
        BY <3>1 DEF event_set, set_bits, waitVars
      <3> QED
        BY <3>2, ChangeAccounted DEF AccountInv, AccountTypes
    <2>5. CASE \E b \in Bit : event_clear_load(t, {b})
      BY <2>5, LoadAccounted
    <2>6. CASE \E w \in WaitArg, n \in Timeouts : event_wait(t, w, n)
      <3>1. PICK w \in Want, n \in Timeouts : event_wait(t, w, n)
        BY <2>6, EventConstants
      <3>2. spc[t] = "out" /\ test_or_wait(t, w, n)
        BY <3>1 DEF event_wait, WaitAt
      <3> QED
        BY <3>2, TestAccounted
    <2> QED
      BY <1>2, <2>1, <2>2, <2>3, <2>4, <2>5, <2>6 DEF EventCall
  <1>3. ASSUME NEW b \in Bit, event_set_isr({b}) \/ event_clear_isr({b}) PROVE AccountInv'
    <2>1. /\ \/ flags' = flags \cup {b} /\ due' = due \cup {b}
             \/ flags' = flags \ {b} /\ due' = due \ {b}
          /\ Changed({b}) /\ UNCHANGED <<spc, want>>
      BY <1>3 DEF event_set_isr, set_bits, event_clear_isr, waitVars
    <2> QED
      BY <2>1, ChangeAccounted DEF AccountInv, AccountTypes
  <1>4. CASE UNCHANGED allVars
    <2>1. UNCHANGED <<flags, want, due, stale, wrong, spc>>
      BY <1>4 DEF allVars, waitVars, eventVars
    <2> QED
      BY <2>1, IdleAccounted DEF AccountInv, AccountTypes
  <1> QED
    BY <1>1, <1>2, <1>3, <1>4 DEF EventNext

\* The flags are a set of bits.
LEMMA FlagsStep ==
    ASSUME AccountInv, flags \in SUBSET Bit, [EventNext]_allVars
    PROVE  flags' \in SUBSET Bit
  <1>0. \A t \in App : want[t].loaded \in SUBSET Bit
    BY AppTask DEF AccountInv, AccountTypes, Want
  <1>1. ASSUME NEW t \in App, EventCall(t) PROVE flags' \in SUBSET Bit
    BY <1>0, <1>1 DEF EventCall, event_wait_block, event_wait_result, event_clear_store,
       event_set, set_bits, event_clear_load, event_wait, test_or_wait
  <1>2. ASSUME NEW b \in Bit, event_set_isr({b}) \/ event_clear_isr({b})
        PROVE  flags' \in SUBSET Bit
    BY <1>2 DEF event_set_isr, set_bits, event_clear_isr
  <1> QED
    BY <1>1, <1>2 DEF EventNext, allVars, eventVars

\* kernel/sync/event.c: no event is lost and none is returned twice, for every
\* number of tasks, of bits, and of event_clear calls in progress at the same
\* time.  Only a bit that changed between the load and the store of an
\* event_clear may be wrong, until its next change: the store of the whole word
\* spoils no other.
THEOREM EventsStayAccounted == EventSpec => []EventsAccounted
  <1> DEFINE Inv == AccountInv /\ flags \in SUBSET Bit
  <1>1. EventInit => Inv
    <2> SUFFICES ASSUME EventInit PROVE Inv
      OBVIOUS
    <2>1. AccountTypes
      BY EventConstants DEF EventInit, WaitInit, AccountTypes, WaitLabel
    <2>2. \A u \in App : spc[u] # "clear"
      BY AppTask DEF EventInit, WaitInit
    <2> QED
      BY <2>1, <2>2 DEF EventInit, AccountInv, EventsAccounted, LoadsKnown
  <1>2. Inv /\ [EventNext]_allVars => Inv'
    BY AccountedStep, FlagsStep
  <1>3. Inv => EventsAccounted
    BY DEF AccountInv
  <1> QED
    BY <1>1, <1>2, <1>3, PTL DEF EventSpec
-----------------------------------------------------------------------------
(***************************************************************************)
(* NoForgottenEvent, for calls of the task API that keep its usage rules.  *)
(* Between event_set's critical section and the end of its loop a task     *)
(* whose condition holds may still be waiting: the loop is to visit it.    *)
(***************************************************************************)
EventTypes == flags \in SUBSET Bit /\ want \in [Task -> Want] /\ stim \in [Task -> Tick]

Coming(t) == /\ scan.job = "all" /\ scan.reason = "EVENT" /\ scan.object = Group
             /\ \E i \in DOMAIN scan.rest : scan.rest[i] = t

EventInv == /\ RuleInv /\ EventTypes
            /\ \A t \in App : Needless(t) => t \in missed \/ Coming(t)

LEMMA TestTypes ==
    ASSUME EventTypes, NEW t \in Task, NEW w \in Want, NEW n \in Tick, test_or_wait(t, w, n)
    PROVE  EventTypes' /\ flags' \subseteq flags
               /\ \A u \in Task \ {t} : want'[u] = want[u]
  <1>1. NoWant \in Want /\ 0 \in Tick
    BY EventConstants
  <1>2. stim' = [stim EXCEPT ![t] = 0] \/ stim' = [stim EXCEPT ![t] = n]
    BY DEF test_or_wait, Leave, GiveUpOr
  <1>3. want' = [want EXCEPT ![t] = NoWant] \/ want' = [want EXCEPT ![t] = w]
    BY DEF test_or_wait, Forget
  <1>4. flags' \subseteq flags
    BY DEF test_or_wait
  <1> QED
    BY <1>1, <1>2, <1>3, <1>4 DEF EventTypes

\* event_set wakes in the critical section in which it sets the bits: when its
\* loop begins, every task that waits for the group is before it.
LEMMA SetReachesAll ==
    ASSUME RuleInv, InterruptsOn, SameControl, unblock_all_begin(sched, "EVENT", Group, "OK")
    PROVE  RuleInv' /\ \A u \in App : Needless(u)' => Coming(u)'
  <1>1. /\ RuleInv'
        /\ \A x \in Task : sched.state[x] = "BLOCKED"
                               => \E i \in DOMAIN scan'.rest : scan'.rest[i] = x
    BY EventConstants, WakeAllRule
  <1>2. /\ scan'.job = "all" /\ scan'.reason = "EVENT" /\ scan'.object = Group
        /\ sched' = sched
    BY DEF unblock_all_begin
  <1>3. ASSUME NEW u \in App, Needless(u)' PROVE Coming(u)'
    <2>1. sched.reason[u] = "EVENT" /\ u \in Task
      BY <1>2, <1>3, AppTask DEF Needless, WaitsFor
    <2>2. sched.state[u] = "BLOCKED"
      BY <2>1 DEF RuleInv, InterruptsOn, Ruled, WaitersBlocked
    <2> QED
      BY <1>1, <1>2, <2>1, <2>2 DEF Coming
  <1> QED
    BY <1>1, <1>3

\* What a call of task t keeps, and which tasks may come to wait needlessly.
LEMMA EventCallStep ==
    ASSUME RuleInv, EventTypes, NEW t \in App, EventCall(t)
    PROVE  /\ RuleInv' /\ EventTypes'
           /\ \A u \in App : Needless(u)' => Needless(u) \/ MissesWakeUp(u) \/ Coming(u)'
           /\ scan.job = "none"
  <1>0. /\ Group \in Object /\ "EVENT" \in BlockReason /\ "OK" \in Result
        /\ 0 \in Tick /\ Timeouts \subseteq Tick /\ NoWant \in Want /\ WaitArg \subseteq Want
    BY EventConstants
  <1>1. At(t, "run")
    BY DEF EventCall, event_wait_block, event_wait_result, event_clear_store, event_set,
       event_clear_load, event_wait, block_task, block_task_yield, WaitEnds, WaitAt
  <1>2. /\ t \in Task /\ InterruptsOn /\ scan.job = "none" /\ ~sched.pendsv
        /\ sched.cur = t /\ sched.reason[t] = "NONE"
    BY <1>1, Caller
  <1>3. /\ App \subseteq Task /\ sched \in SchedState /\ WaitersBlocked(sched)
    BY <1>2, AppTask DEF RuleInv, InterruptsOn, Ruled
  <1>4. ASSUME UNCHANGED vars PROVE RuleInv'
    BY <1>2, <1>4, SyncCallRule DEF vars, SameControl
  <1>5. ASSUME UNCHANGED vars, flags' \subseteq flags,
               \A u \in Task \ {t} : want'[u] = want[u],
               NEW u \in App, Needless(u)'
        PROVE  Needless(u)
    <2>1. WaitsFor(sched, u, "EVENT", Group) /\ event_match(flags', want'[u])
      BY <1>5 DEF Needless, vars, WaitsFor
    <2>2. u # t
      BY <1>2, <2>1 DEF WaitsFor
    <2>3. event_match(flags, want[u])
      BY <1>3, <1>5, <2>1, <2>2 DEF event_match
    <2> QED
      BY <2>1, <2>3 DEF Needless
  <1>6. CASE event_wait_block(t)
    <2>1. /\ scan' = scan /\ SameControl /\ UNCHANGED <<flags, want, stim>>
          /\ \/ sched' = scheduler_yield(sched)
             \/ /\ sched' = scheduler_block_task(sched, "EVENT", Group, stim[t])
                /\ spc[t] = "block"
      BY <1>6 DEF event_wait_block, block_task, block_task_yield, KernelIs, WaitAt,
         SameControl
    <2>2. stim[t] \in Tick
      BY <1>2 DEF EventTypes
    <2>3. RuleInv'
      BY <1>0, <1>2, <2>1, <2>2, SyncCallRule
    <2>4. ASSUME NEW u \in App, Needless(u)' PROVE Needless(u) \/ MissesWakeUp(u)
      <3>1. CASE sched' = scheduler_yield(sched)
        <4>1. SameWaits(sched', sched)
          BY <1>2, <1>3, <3>1, KeepsWaits
        <4> QED
          BY <2>1, <2>4, <4>1 DEF Needless, WaitsFor, SameWaits
      <3>2. CASE /\ sched' = scheduler_block_task(sched, "EVENT", Group, stim[t])
                 /\ spc[t] = "block"
        <4>1. WaitBegun(sched', sched, t, "EVENT", Group, stim[t])
          BY <1>0, <1>2, <1>3, <2>2, <3>2, BlockWaits, AppTask
        <4>2. u # t => sched'.reason[u] = sched.reason[u] /\ sched'.object[u] = sched.object[u]
          BY <1>3, <4>1 DEF WaitBegun, SchedState
        <4> QED
          BY <2>1, <2>4, <3>2, <4>2 DEF Needless, WaitsFor, MissesWakeUp
      <3> QED
        BY <2>1, <3>1, <3>2
    <2> QED
      BY <1>2, <2>1, <2>3, <2>4 DEF EventTypes
  <1>7. CASE event_wait_result(t)
    <2>1. UNCHANGED vars
      BY <1>7 DEF event_wait_result
    <2>2. EventTypes' /\ flags' \subseteq flags /\ \A u \in Task \ {t} : want'[u] = want[u]
      <3>1. CASE WaitEnds(t, FALSE) /\ Leave(t) /\ Forget(t) /\ UNCHANGED flags
        BY <1>0, <1>2, <3>1 DEF Leave, Forget, EventTypes
      <3>2. CASE test_or_wait(t, want[t], stim[t])
        BY <1>2, <3>2, TestTypes DEF EventTypes
      <3> QED
        BY <1>7, <3>1, <3>2 DEF event_wait_result
    <2> QED
      BY <1>2, <1>4, <1>5, <2>1, <2>2
  <1>8. CASE event_clear_store(t)
    <2>1. UNCHANGED vars /\ \A u : MissesWakeUp(u)
      BY <1>8 DEF event_clear_store, MissesWakeUp
    <2>2. want[t].loaded \in SUBSET Bit
      BY <1>2 DEF EventTypes, Want
    <2>3. EventTypes'
      BY <1>0, <1>2, <1>8, <2>2 DEF event_clear_store, Leave, Forget, EventTypes
    <2> QED
      BY <1>2, <1>4, <2>1, <2>3
  <1>9. CASE \E b \in Bit : event_set(t, {b})
    <2>1. PICK b \in Bit : set_bits({b})
      BY <1>9 DEF event_set
    <2>2. /\ unblock_all_begin(sched, "EVENT", Group, "OK") /\ SameControl
          /\ flags' = flags \cup {b} /\ UNCHANGED <<want, stim>>
      BY <2>1 DEF set_bits, SameControl, waitVars
    <2>3. EventTypes'
      BY <2>2 DEF EventTypes
    <2>4. RuleInv' /\ \A u \in App : Needless(u)' => Coming(u)'
      BY <1>0, <1>2, <1>3, <2>2, SetReachesAll
    <2> QED
      BY <1>2, <2>3, <2>4
  <1>10. CASE \E b \in Bit : event_clear_load(t, {b})
    <2>1. PICK b \in Bit : event_clear_load(t, {b})
      BY <1>10
    <2>2. /\ UNCHANGED <<vars, stim, flags>>
          /\ want' = [want EXCEPT ![t] = [NoWant EXCEPT !.bits = {b}, !.loaded = flags]]
      BY <2>1 DEF event_clear_load
    <2>3. [NoWant EXCEPT !.bits = {b}, !.loaded = flags] \in Want
      BY <1>0 DEF EventTypes, Want
    <2>4. EventTypes' /\ \A u \in Task \ {t} : want'[u] = want[u]
      BY <1>2, <2>2, <2>3 DEF EventTypes
    <2> QED
      BY <1>2, <1>4, <1>5, <2>2, <2>4
  <1>11. CASE \E w \in WaitArg, n \in Timeouts : event_wait(t, w, n)
    <2>1. PICK w \in Want, n \in Tick : event_wait(t, w, n)
      BY <1>0, <1>11
    <2>2. UNCHANGED vars /\ test_or_wait(t, w, n)
      BY <2>1 DEF event_wait
    <2>3. EventTypes' /\ flags' \subseteq flags /\ \A u \in Task \ {t} : want'[u] = want[u]
      BY <1>2, <2>2, TestTypes
    <2> QED
      BY <1>2, <1>4, <1>5, <2>2, <2>3
  <1> QED
    BY <1>6, <1>7, <1>8, <1>9, <1>10, <1>11, EventCall(t) DEF EventCall

\* The kernel's steps: with event_set's loop under way only the loop goes on.
LEMMA EventKernelStep ==
    ASSUME ~Racy, RuleInv, EventTypes, KernelStep \/ WakeLoop, UNCHANGED <<flags, want, due, stale, wrong>>
    PROVE  /\ RuleInv' /\ EventTypes'
           /\ \A u \in App : Needless(u)' => Needless(u) /\ (Coming(u) => Coming(u)')
  <1>0. /\ App \subseteq Task /\ sched \in SchedState /\ scan \in ScanState
    BY AppTask DEF RuleInv, Base, TypeOK
  <1>1. CASE KernelStep
    <2>1. Next /\ stim' = stim
      BY <1>1 DEF KernelStep, Next, waitVars
    <2>2. RuleInv'
      BY <2>1, NextRule
    <2>3. ASSUME NEW u \in App, Needless(u)' PROVE Needless(u)
      <3>1. sched'.reason[u] = "EVENT" /\ sched'.object[u] = Group
        BY <2>3 DEF Needless, WaitsFor
      <3>2. sched.reason[u] = "EVENT" /\ sched.object[u] = Group
        BY <1>0, <2>1, <3>1, NoNewWait
      <3> QED
        BY <2>3, <3>2 DEF Needless, WaitsFor
    <2>4. scan.job # "all"
      BY <2>1, MaskedWhileWaking
    <2> QED
      BY <2>1, <2>2, <2>3, <2>4 DEF EventTypes, Coming
  <1>2. CASE WakeLoop
    <2>1. SameControl /\ (unblock_all_scan \/ unblock_all_end) /\ stim' = stim
      BY <1>2 DEF WakeLoop, SameControl, waitVars
    <2>2. /\ RuleInv'
          /\ \/ SameWaits(sched', sched)
             \/ \E t \in Task : WaitOver(sched', sched, t, scan.result)
          /\ scan.reason # "NONE" => \A i \in DOMAIN scan.rest :
                WaitsFor(sched', scan.rest[i], scan.reason, scan.object)
                  => \E j \in DOMAIN scan'.rest : scan'.rest[j] = scan.rest[i]
      BY <2>1, WakeLoopRule
    <2>3. ASSUME NEW u \in App, Needless(u)' PROVE Needless(u)
      <3>1. sched'.reason[u] = "EVENT" /\ sched'.object[u] = Group
        BY <2>3 DEF Needless, WaitsFor
      <3>2. sched.reason[u] = "EVENT" /\ sched.object[u] = Group
        BY <1>0, <2>2, <3>1 DEF SameWaits, WaitOver, SchedState
      <3> QED
        BY <2>3, <3>2 DEF Needless, WaitsFor
    <2>4. ASSUME NEW u \in App, Needless(u)', Coming(u) PROVE Coming(u)'
      <3>1. PICK i \in DOMAIN scan.rest : scan.rest[i] = u
        BY <2>4 DEF Coming
      <3>2. /\ scan.reason = "EVENT" /\ scan.object = Group
            /\ WaitsFor(sched', u, "EVENT", Group)
        BY <2>4 DEF Coming, Needless
      <3>3. \E j \in DOMAIN scan'.rest : scan'.rest[j] = u
        BY <2>2, <3>1, <3>2
      <3>4. unblock_all_scan
        BY <2>1, <3>1 DEF unblock_all_end
      <3>5. scan'.job = "all" /\ scan'.reason = scan.reason /\ scan'.object = scan.object
        BY <1>0, <3>4 DEF unblock_all_scan, ScanState
      <3> QED
        BY <3>2, <3>3, <3>5 DEF Coming
    <2> QED
      BY <2>1, <2>2, <2>3, <2>4 DEF EventTypes
  <1> QED
    BY <1>1, <1>2

LEMMA EventIsrStep ==
    ASSUME RuleInv, EventTypes, NEW b \in Bit, event_set_isr({b}) \/ event_clear_isr({b})
    PROVE  /\ RuleInv' /\ EventTypes'
           /\ \A u \in App : Needless(u)' => Needless(u) \/ Coming(u)'
           /\ scan.job = "none"
  <1>1. InterruptsOn /\ scan.job = "none"
    BY DEF event_set_isr, event_clear_isr, Unmasked
  <1>2. CASE event_set_isr({b})
    <2>1. /\ unblock_all_begin(sched, "EVENT", Group, "OK") /\ SameControl
          /\ flags' = flags \cup {b} /\ UNCHANGED <<want, stim>>
      BY <1>2 DEF event_set_isr, set_bits, SameControl, waitVars
    <2> QED
      BY <1>1, <2>1, SetReachesAll DEF EventTypes
  <1>3. CASE event_clear_isr({b})
    <2>1. UNCHANGED <<vars, want, stim>> /\ flags' = flags \ {b}
      BY <1>3 DEF event_clear_isr, waitVars
    <2>2. RuleInv'
      BY <1>1, <2>1, SyncCallRule DEF vars, SameControl
    <2>3. ASSUME NEW u \in App, Needless(u)' PROVE Needless(u)
      BY <2>1, <2>3 DEF Needless, vars, WaitsFor, event_match
    <2> QED
      BY <1>1, <2>1, <2>2, <2>3 DEF EventTypes
  <1> QED
    BY <1>2, <1>3

LEMMA EventStep ==
    ASSUME ~Racy
    PROVE  EventInv /\ [EventNext]_allVars => EventInv'
  <1> SUFFICES ASSUME EventInv, [EventNext]_allVars PROVE EventInv'
    OBVIOUS
  <1>0. RuleInv /\ EventTypes
    BY DEF EventInv
  <1>1. ASSUME EventNext, RuleInv', EventTypes',
               \A u \in App : Needless(u)' => \/ Needless(u) /\ (Coming(u) => Coming(u)')
                                              \/ MissesWakeUp(u) \/ Coming(u)'
        PROVE  EventInv'
    <2>1. missed' = {t \in App : Needless(t)' /\ (t \in missed \/ MissesWakeUp(t))}
      BY <1>1 DEF EventNext
    <2>2. ASSUME NEW u \in App, Needless(u)' PROVE u \in missed' \/ Coming(u)'
      <3>1. Needless(u) => u \in missed \/ Coming(u)
        BY DEF EventInv
      <3> QED
        BY <1>1, <2>1, <2>2, <3>1
    <2> QED
      BY <1>1, <2>2 DEF EventInv
  <1>2. CASE EventNext /\ (KernelStep \/ WakeLoop) /\ UNCHANGED <<flags, want, due, stale, wrong>>
    BY <1>0, <1>1, <1>2, EventKernelStep
  <1>3. ASSUME EventNext, NEW t \in App, EventCall(t) PROVE EventInv'
    <2>1. /\ RuleInv' /\ EventTypes'
          /\ \A u \in App : Needless(u)' => Needless(u) \/ MissesWakeUp(u) \/ Coming(u)'
          /\ \A u \in App : ~Coming(u)
      BY <1>0, <1>3, EventCallStep DEF Coming
    <2> QED
      BY <1>1, <1>3, <2>1
  <1>4. ASSUME EventNext, NEW b \in Bit, event_set_isr({b}) \/ event_clear_isr({b})
        PROVE  EventInv'
    <2>1. /\ RuleInv' /\ EventTypes'
          /\ \A u \in App : Needless(u)' => Needless(u) \/ Coming(u)'
          /\ \A u \in App : ~Coming(u)
      BY <1>0, <1>4, EventIsrStep DEF Coming
    <2> QED
      BY <1>1, <1>4, <2>1
  <1>5. CASE UNCHANGED allVars
    <2>1. RuleInv'
      BY <1>0, <1>5, NextRule DEF allVars
    <2> QED
      BY <1>5, <2>1 DEF EventInv, allVars, vars, waitVars, eventVars, EventTypes, Needless,
         WaitsFor, event_match, Coming
  <1> QED
    BY <1>2, <1>3, <1>4, <1>5 DEF EventNext

\* No task is left waiting for an event that is there, but in the two ways the
\* code has (MissesWakeUp), for every number of tasks, bits and conditions, as
\* long as the calls of the task API keep its usage rules.
THEOREM NoEventForgotten ==
    ASSUME ~Racy
    PROVE  EventSpec => []NoForgottenEvent
  <1>1. EventInit => EventInv
    <2> SUFFICES ASSUME EventInit PROVE EventInv
      OBVIOUS
    <2>1. RuleInv
      BY InitRule DEF EventInit
    <2>2. EventTypes
      BY EventConstants DEF EventInit, WaitInit, EventTypes
    <2>3. \A t \in App : ~Needless(t)
      BY AppTask DEF EventInit, Init, scheduler_init, Needless, WaitsFor
    <2> QED
      BY <2>1, <2>2, <2>3 DEF EventInv
  <1>2. EventInv => NoForgottenEvent
    BY DEF EventInv, NoForgottenEvent, Coming
  <1> QED
    BY <1>1, <1>2, EventStep, PTL DEF EventSpec
=============================================================================
