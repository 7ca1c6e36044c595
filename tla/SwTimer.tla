------------------------------- MODULE SwTimer -------------------------------
(***************************************************************************)
(* Software timers (kernel/timer.c): a singly linked list that timer_start *)
(* and timer_stop change in a critical section and that timer_tick_isr     *)
(* walks at every tick, calling the callbacks of the timers that expire.   *)
(* A callback runs in the middle of the walk and may itself start and stop *)
(* timers, the one that the walk has saved as its next included.           *)
(*                                                                         *)
(* Tasks call between ticks.  Usage rules (not checked by the code): no    *)
(* interrupt above SysTick calls these functions, and timer_create is not  *)
(* called on an active timer, whose links it would clear.                  *)
(***************************************************************************)
EXTENDS Integers, FiniteSets

CONSTANTS Timer, NULL, Periods

ASSUME TimerAssumption ==
    /\ NULL \notin Timer /\ IsFiniteSet(Timer)
    /\ Periods \subseteq Nat \ {0}      \* timer_start's test

VARIABLES list,     \* g_timer_list, and the fields of the sw_timer_t's
          walk,     \* timer_tick_isr: where it is, iter, next
          age,      \* history: ticks since a timer was started or fired last
          todo,     \* history: timers this tick has yet to count
          disturbed,\* history: a callback has moved the saved next
          slipped   \* history: timers that a disturbed walk has counted twice
                    \* or not at all since they were started or fired last
timerVars == <<list, walk, age, todo, disturbed, slipped>>

Link == Timer \cup {NULL}
ListState == [head : Link, next : [Timer -> Link], active : [Timer -> BOOLEAN],
              created : [Timer -> BOOLEAN],     \* callback # NULL
              period : [Timer -> Nat], remaining : [Timer -> Nat],
              periodic : [Timer -> BOOLEAN]]
WalkState == [at : {"idle", "visit", "callback"}, iter : Link, next : Link]
Idle == [at |-> "idle", iter |-> NULL, next |-> NULL]

\* The timers on the way from x along next, and NULL if the way ends: what is
\* in every set that holds x and is closed under next.
Closed(l, S) == \A t \in S \ {NULL} : l.next[t] \in S
Chain(l, x) ==
    {y \in Link : \A S \in SUBSET Link : x \in S /\ Closed(l, S) => y \in S}

-----------------------------------------------------------------------------
\* Mutant: the predecessor keeps pointing at the timer.
timer_list_remove_head_only(l, t) ==
    IF t \notin Chain(l, l.head) THEN l
    ELSE [l EXCEPT !.head = IF @ = t THEN l.next[t] ELSE @,
                   !.next[t] = NULL, !.active[t] = FALSE]

timer_list_remove(l, t) ==
    IF t \notin Chain(l, l.head) THEN l
    ELSE LET past == [l EXCEPT !.next[t] = NULL, !.active[t] = FALSE] IN
         IF l.head = t THEN [past EXCEPT !.head = l.next[t]]
         ELSE [past EXCEPT !.next = [u \in Timer |->
                 IF u \in Chain(l, l.head) /\ l.next[u] = t THEN l.next[t] ELSE @[u]]]

timer_list_add(l, t) ==
    [l EXCEPT !.next[t] = l.head, !.head = t, !.active[t] = TRUE]

\* Mutant: a timer that is started again is linked twice.
Unlisted_never(l, t) == l

Unlisted(l, t) == IF l.active[t] THEN timer_list_remove(l, t) ELSE l

start(l, t, p, periodic) ==
    timer_list_add([Unlisted(l, t) EXCEPT !.period[t] = p, !.remaining[t] = p,
                                          !.periodic[t] = periodic], t)

\* A task between two ticks, or the callback that is running.
CallerRuns == walk.at \in {"idle", "callback"}

Touch(t) == /\ todo' = todo \ {t} /\ slipped' = slipped \ {t}
            /\ disturbed' = (disturbed \/ (walk.at = "callback" /\ t = walk.next))
            /\ UNCHANGED walk

timer_create(t) ==
    /\ CallerRuns /\ ~list.active[t]
    /\ list' = [list EXCEPT !.period[t] = 0, !.remaining[t] = 0, !.periodic[t] = FALSE,
                            !.created[t] = TRUE, !.next[t] = NULL]
    /\ age' = [age EXCEPT ![t] = 0]
    /\ Touch(t)

timer_start(t, p, periodic) ==
    /\ CallerRuns /\ list.created[t]
    /\ list' = start(list, t, p, periodic)
    /\ age' = [age EXCEPT ![t] = 0]
    /\ Touch(t)

timer_stop(t) ==
    /\ CallerRuns /\ list.active[t]
    /\ list' = timer_list_remove(list, t)
    /\ age' = [age EXCEPT ![t] = 0]
    /\ Touch(t)

-----------------------------------------------------------------------------
tick_begin ==
    /\ walk.at = "idle"
    /\ walk' = [at |-> "visit", iter |-> list.head, next |-> NULL]
    /\ todo' = {t \in Timer : list.active[t]}
    /\ age' = [t \in Timer |-> IF list.active[t] /\ t \notin slipped THEN age[t] + 1 ELSE 0]
    /\ UNCHANGED <<list, disturbed, slipped>>

count_down(n) == IF n > 0 THEN n - 1 ELSE 0

\* Mutant: a periodic timer starts over with the tick that fired it counted.
expire_short(l, t) ==
    IF l.periodic[t]
    THEN [l EXCEPT !.remaining[t] = IF l.period[t] > 1 THEN l.period[t] - 1 ELSE 1]
    ELSE timer_list_remove(l, t)

expire(l, t) ==
    IF l.periodic[t] THEN [l EXCEPT !.remaining[t] = l.period[t]]
    ELSE timer_list_remove(l, t)

\* Mutant: next is read after the timer was taken off the list.
saved_next_late(before, after, t) == after.next[t]

saved_next(before, after, t) == before.next[t]

\* One iteration up to the callback.
tick_visit(t) ==
    LET n == count_down(list.remaining[t])
        l == [list EXCEPT !.remaining[t] = n]
        after == IF n = 0 THEN expire(l, t) ELSE l
        next == saved_next(list, after, t)
    IN  /\ list' = after
        /\ walk' = IF n = 0 THEN [at |-> "callback", iter |-> t, next |-> next]
                   ELSE [walk EXCEPT !.iter = next]
        /\ age' = IF n = 0 THEN [age EXCEPT ![t] = 0] ELSE age
        /\ slipped' = IF n = 0 THEN slipped \ {t}
                      ELSE IF disturbed THEN slipped \cup ({t} \ todo) ELSE slipped

tick_step ==
    /\ walk.at = "visit" /\ walk.iter # NULL
    /\ tick_visit(walk.iter)
    /\ todo' = todo \ {walk.iter}
    /\ UNCHANGED disturbed

callback_return ==
    /\ walk.at = "callback"
    /\ walk' = [at |-> "visit", iter |-> walk.next, next |-> NULL]
    /\ UNCHANGED <<list, age, todo, disturbed, slipped>>

tick_end ==
    /\ walk.at = "visit" /\ walk.iter = NULL
    /\ walk' = Idle
    /\ todo' = {} /\ disturbed' = FALSE
    /\ slipped' = IF disturbed THEN slipped \cup todo ELSE slipped
    /\ UNCHANGED <<list, age>>

timer_tick_isr == tick_begin \/ tick_step \/ callback_return \/ tick_end

TimerInit ==
    /\ list = [head |-> NULL, next |-> [t \in Timer |-> NULL],
               active |-> [t \in Timer |-> FALSE], created |-> [t \in Timer |-> FALSE],
               period |-> [t \in Timer |-> 0], remaining |-> [t \in Timer |-> 0],
               periodic |-> [t \in Timer |-> FALSE]]
    /\ walk = Idle /\ age = [t \in Timer |-> 0]
    /\ todo = {} /\ disturbed = FALSE /\ slipped = {}

TimerNext ==
    \/ timer_tick_isr
    \/ \E t \in Timer : timer_create(t) \/ timer_stop(t)
    \/ \E t \in Timer, p \in Periods, b \in BOOLEAN : timer_start(t, p, b)

TimerSpec == TimerInit /\ [][TimerNext]_timerVars

\* The handler makes progress, and callbacks return.
TimerFairness == WF_timerVars(tick_step \/ tick_end) /\ WF_timerVars(callback_return)
TimerLiveSpec == TimerSpec /\ TimerFairness

-----------------------------------------------------------------------------
\* Whatever callbacks and tasks do, the list is a list: it ends, and it holds
\* exactly the timers whose active field says so.
TimerListSound ==
    /\ list \in ListState /\ walk \in WalkState
    /\ Chain(list, list.head) = {t \in Timer : list.active[t]} \cup {NULL}

\* Every tick counts each timer once: what the walk has still before it are
\* exactly the timers that were active when the tick began, are not counted
\* yet, and were neither stopped nor restarted by a callback -- unless a
\* callback has stopped or restarted the timer that the walk had saved.
WalkIsFair ==
    ~disturbed => CASE walk.at = "visit" -> Chain(list, walk.iter) \ {NULL} = todo
                    [] walk.at = "callback" -> Chain(list, walk.next) \ {NULL} = todo
                    [] OTHER -> TRUE

\* A timer fires on the period-th tick after it was started, and a periodic
\* one on every period-th tick after that, whichever timers are started,
\* stopped or fire meanwhile.  The exception is a timer that a walk whose saved
\* next was stopped or restarted has skipped or counted twice; it is on time
\* again from its next firing or start.
FiresOnTime ==
    walk.at = "idle" =>
        \A t \in Timer : list.active[t] =>
            /\ list.remaining[t] > 0
            /\ t \notin slipped => age[t] + list.remaining[t] = list.period[t]

\* The walk ends, however many timers its callbacks start, unless it is
\* disturbed: two callbacks that restart each other's timer with a period of
\* one tick would keep it going.
TickEnds == walk.at # "idle" ~> (walk.at = "idle" \/ disturbed)
=============================================================================
