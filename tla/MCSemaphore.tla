----------------------------- MODULE MCSemaphore -----------------------------
(***************************************************************************)
(* Semaphore for model checking.  Tasks are interchangeable; wake_tick is  *)
(* only read while its task is on the blocked list.                        *)
(***************************************************************************)
EXTENDS Semaphore, TLC

SemSym == Permutations(App)

SemView == << [sched EXCEPT !.wake = [t \in Task |-> IF On(sched, t, BlockedList)
                                                     THEN @[t] ELSE 0]],
              scan, kstate, pc, arg, waitVars, semVars >>
=============================================================================
