----------------------------- MODULE EventGroup -----------------------------
(***************************************************************************)
(* One event group (kernel/sync/event.c) shared by tasks and interrupt     *)
(* handlers.  event_wait is a WaitLoop.  event_set sets bits and wakes     *)
(* every waiter within one critical section.  event_clear is an unprotected*)
(* read-modify-write: the label "clear" is between its load and its store. *)
(***************************************************************************)
EXTENDS WaitLoop

CONSTANTS Group,      \* the event group's address
          Bit,        \* the bits below EVENT_CLEAR_ON_EXIT
          WaitBits    \* the sets of bits tasks wait for

ASSUME EventAssumption == Group \in Object /\ WaitBits \subseteq SUBSET Bit

VARIABLES flags,      \* eg->flags
          want,       \* per task: the arguments of its call, the value loaded
          due,        \* history: the bits set and neither returned by a wait
                      \* with EVENT_CLEAR_ON_EXIT nor cleared since
          stale,      \* history: per task in event_clear, the bits that others
                      \* have set, cleared or consumed since its load
          wrong,      \* history: the bits over whose last change an event_clear
                      \* has stored a stale value
          missed      \* history: tasks that wait although they need not
eventVars == <<flags, want, due, stale, wrong, missed>>
allVars == <<vars, waitVars, eventVars>>

Want == [bits : SUBSET Bit, all : BOOLEAN, clear : BOOLEAN, loaded : SUBSET Bit]
NoWant == [bits |-> {}, all |-> FALSE, clear |-> FALSE, loaded |-> {}]

\* The arguments of event_wait that pass its test bits == 0, which counts
\* EVENT_CLEAR_ON_EXIT as a bit.
WaitArg == {w \in [bits : WaitBits \cup {{}}, all : BOOLEAN, clear : BOOLEAN,
                   loaded : {{}}] : w.bits # {} \/ w.clear}

Forget(t) == want' = [want EXCEPT ![t] = NoWant]

event_match(current, w) ==
    IF w.all THEN w.bits \subseteq current ELSE w.bits \cap current # {}

-----------------------------------------------------------------------------
\* The history of a change of these bits: every event_clear between its load and
\* its store now holds an old value of them, and they are right again.
Changed(bits) ==
    /\ stale' = [u \in Task |-> IF spc[u] = "clear" THEN stale[u] \cup bits ELSE {}]
    /\ wrong' = wrong \ bits

matched(w) == flags \cap w.bits

\* Mutant: a wait for any of several bits that finds only some consumes none.
consumed_if_all(w) == IF w.clear /\ w.bits \subseteq flags THEN w.bits ELSE {}

\* The matched bits, which a wait with EVENT_CLEAR_ON_EXIT takes with it.
consumed(w) == IF w.clear THEN matched(w) ELSE {}

\* The critical section at the head of event_wait's loop, and the test of the
\* timeout.
test_or_wait(t, w, n) ==
    \/ /\ event_match(flags, w)
       /\ flags' = flags \ consumed(w)
       /\ LET taken == IF w.clear THEN matched(w) ELSE {}
          IN  due' = due \ taken /\ Changed(taken)
       /\ Leave(t) /\ Forget(t)
    \/ /\ ~event_match(flags, w)
       /\ GiveUpOr(t, n, "block")
       /\ want' = [want EXCEPT ![t] = IF n = 0 THEN NoWant ELSE w]
       /\ UNCHANGED <<flags, due, stale, wrong>>

event_wait(t, w, n) ==
    /\ WaitAt(t, "out") /\ test_or_wait(t, w, n)
    /\ UNCHANGED vars

event_wait_block(t) ==
    /\ block_task(t, "EVENT", Group) \/ block_task_yield(t)
    /\ UNCHANGED <<flags, want, due, stale, wrong>>

event_wait_result(t) ==
    /\ \/ /\ WaitEnds(t, FALSE) /\ Leave(t) /\ Forget(t)
          /\ UNCHANGED <<flags, due, stale, wrong>>
       \/ WaitEnds(t, TRUE) /\ test_or_wait(t, want[t], stim[t])
    /\ UNCHANGED vars

set_bits(bits) ==
    /\ flags' = flags \cup bits /\ due' = due \cup bits /\ Changed(bits)
    /\ unblock_all_begin(sched, "EVENT", Group, "OK")
    /\ UNCHANGED <<kstate, pc, arg, waitVars, want>>

event_set(t, bits) == WaitAt(t, "out") /\ set_bits(bits)

event_set_isr(bits) == InterruptsOn /\ Unmasked /\ set_bits(bits)

\* Handlers do not nest here, so nothing comes between the load and the store.
event_clear_isr(bits) ==
    /\ InterruptsOn /\ Unmasked
    /\ flags' = flags \ bits /\ due' = due \ bits /\ Changed(bits)
    /\ UNCHANGED <<vars, waitVars, want>>

event_clear_load(t, bits) ==
    /\ WaitAt(t, "out")
    /\ want' = [want EXCEPT ![t] = [NoWant EXCEPT !.bits = bits, !.loaded = flags]]
    /\ To(t, "clear")
    /\ UNCHANGED <<vars, stim, flags, due, stale, wrong>>

\* The whole word is stored: the bits to clear, and every other one as loaded.
event_clear_store(t) ==
    /\ WaitAt(t, "clear")
    /\ flags' = want[t].loaded \ want[t].bits
    /\ due' = due \ want[t].bits
    /\ stale' = [u \in Task |-> IF u # t /\ spc[u] = "clear"
                                THEN stale[u] \cup want[t].bits \cup stale[t] ELSE {}]
    /\ wrong' = (wrong \cup stale[t]) \ want[t].bits
    /\ Leave(t) /\ Forget(t)
    /\ UNCHANGED vars

-----------------------------------------------------------------------------
EventInit ==
    /\ Init /\ WaitInit
    /\ flags = {} /\ due = {}   \* event_init
    /\ want = [t \in Task |-> NoWant] /\ stale = [t \in Task |-> {}]
    /\ wrong = {} /\ missed = {}

EventCall(t) ==
    \/ event_wait_block(t) \/ event_wait_result(t) \/ event_clear_store(t)
    \/ \E b \in Bit : event_set(t, {b}) \/ event_clear_load(t, {b})
    \/ \E w \in WaitArg, n \in Timeouts : event_wait(t, w, n)

\* t waits although the flags match.
Needless(t) == /\ WaitsFor(sched, t, "EVENT", Group)
               /\ event_match(flags, want[t])

\* Two ways into such a wait: the test and the block are separate critical
\* sections, and an event_clear whose store brings a consumed bit back wakes
\* nobody.
MissesWakeUp(t) == spc[t] = "block" \/ \E u \in App : event_clear_store(u)

EventNext ==
    /\ \/ (KernelStep \/ WakeLoop) /\ UNCHANGED <<flags, want, due, stale, wrong>>
       \/ \E t \in App : EventCall(t)
       \/ \E b \in Bit : event_set_isr({b}) \/ event_clear_isr({b})
    /\ missed' = {t \in App : Needless(t)' /\ (t \in missed \/ MissesWakeUp(t))}

EventSpec == EventInit /\ [][EventNext]_allVars

-----------------------------------------------------------------------------
\* A task whose condition holds is not left waiting: event_set wakes all
\* waiters in the critical section in which it sets the bits, and each tests
\* for itself.  The exceptions are the two the code has.
NoForgottenEvent ==
    scan.job = "none" => \A t \in App : Needless(t) => t \in missed

\* No event is lost, and none is returned twice: a bit of the flags is set exactly
\* when it was set and neither returned by a wait with EVENT_CLEAR_ON_EXIT nor
\* cleared since, whichever waits share its word.  The exception is a bit that
\* somebody changed between the load and the store of an event_clear, until it
\* is set, consumed or cleared again; the other bits of the word stay right.
EventsAccounted == \A b \in Bit \ wrong : b \in flags <=> b \in due
=============================================================================
