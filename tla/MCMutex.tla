------------------------------- MODULE MCMutex -------------------------------
(***************************************************************************)
(* Mutex for model checking.  Tasks are interchangeable; wake_tick is only *)
(* read while its task is on the blocked list.                             *)
(***************************************************************************)
EXTENDS Mutex, TLC

MutexSym == Permutations(App)

MutexView == << [sched EXCEPT !.wake = [t \in Task |-> IF On(sched, t, BlockedList)
                                                       THEN @[t] ELSE 0]],
                scan, kstate, pc, arg, waitVars, mutexVars, late >>
=============================================================================
