------------------------------- MODULE MCEvent -------------------------------
(***************************************************************************)
(* EventGroup for model checking.  Tasks are interchangeable, and so are   *)
(* the bits if WaitBits does not tell them apart; wake_tick is only read   *)
(* while its task is on the blocked list.  Of due only the bits that are   *)
(* not wrong matter, for a bit leaves wrong with a new value in due, and   *)
(* of an event_clear in progress only the bits that it does not clear.     *)
(***************************************************************************)
EXTENDS EventGroup, TLC

EventSym == Permutations(App) \cup Permutations(Bit)

EventView == << [sched EXCEPT !.wake = [t \in Task |-> IF On(sched, t, BlockedList)
                                                       THEN @[t] ELSE 0]],
                scan, kstate, pc, arg, waitVars, flags, due \ wrong, wrong, missed,
                [t \in Task |-> [want[t] EXCEPT !.loaded = @ \ want[t].bits]],
                [t \in Task |-> stale[t] \ want[t].bits] >>
=============================================================================
