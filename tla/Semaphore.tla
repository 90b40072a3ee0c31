------------------------------ MODULE Semaphore ------------------------------
(***************************************************************************)
(* The counting semaphore of comLib/Semaphore.h on a variable that holds   *)
(* the count.  The Linux build ignores maxCount, so Post has no upper      *)
(* bound.                                                                  *)
(***************************************************************************)
EXTENDS Integers

\* Post(): sem_post.
Post(sem) == sem' = sem + 1

\* Wait(): sem_wait, retried when a signal interrupts it.
Wait(sem) ==
    /\ sem > 0
    /\ sem' = sem - 1

\* Wait(int nTimeout) that returns false.  sem_timedwait does not give up while
\* it can take a unit, however early its deadline.
WaitTimedOut(sem) ==
    /\ sem = 0
    /\ sem' = sem
=============================================================================
