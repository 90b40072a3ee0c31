------------------------------- MODULE MCTimers -------------------------------
(***************************************************************************)
(* The timers for TLC: three timers with a timer thread that is scheduled  *)
(* at once or may be scheduled late, or the arithmetic of their times.     *)
(***************************************************************************)
EXTENDS TimerQueue, TimeValue, TLC

VARIABLE on

timersVars == <<timerVars, timeVars, on>>

\* Seconds and microseconds on both sides of zero, and further than one second from it.
MCSeconds == -2 .. 1
MCMicros == {-1000000, -999999, -1, 0, 2500000}
MCMillis == {-1500, -1, 999}

TimersInit == TimerInit /\ TimeInit /\ on \in {"timers", "times"}

\* The timers never stop; a number of times is computed.
TimersNext ==
    /\ \/ on = "timers" /\ TimerNext /\ UNCHANGED timeVars
       \/ on = "times" /\ TimeNext /\ UNCHANGED timerVars
       \/ on = "times" /\ ops = MaxOps /\ UNCHANGED <<timerVars, timeVars>>
    /\ UNCHANGED on

TimersSpec == TimersInit /\ [][TimersNext]_timersVars

TaskSymmetry == Permutations(Tasks)
=============================================================================
