------------------------------- MODULE MCTasks -------------------------------
(***************************************************************************)
(* TaskApi for model checking: the tasks are interchangeable, and the      *)
(* wake_tick of a task that is not on the blocked list is never read again *)
(* before it is written, so it does not tell two states apart.             *)
(***************************************************************************)
EXTENDS TaskApi, TLC

Sym == Permutations(App)

View == << [sched EXCEPT !.wake = [t \in Task |-> IF On(sched, t, BlockedList)
                                                  THEN @[t] ELSE 0]],
           scan, kstate, pc, arg >>
=============================================================================
