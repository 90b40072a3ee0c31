------------------------------- MODULE TimerSet -------------------------------
(***************************************************************************)
(* What the timer queue of comLib/dhntimer promises: a set of timers, of   *)
(* which the earliest is the one that fires, once it is due.  While a      *)
(* timer fires it is not in the set; it may come back at a later time.     *)
(***************************************************************************)
EXTENDS Integers

VARIABLES timers, firing, now

Init == timers = {} /\ firing = {} /\ now \in Nat

Add(n) ==
    /\ n \notin timers
    /\ timers' = timers \cup {n}
    /\ UNCHANGED <<firing, now>>

Remove(n) ==
    /\ timers' = timers \ {n}
    /\ UNCHANGED <<firing, now>>

Fire(n) ==
    /\ firing = {}
    /\ n.value <= now
    /\ \A m \in timers : n.value <= m.value
    /\ timers' = timers \ {n}
    /\ firing' = {n}
    /\ UNCHANGED now

Finish ==
    /\ firing' = {}
    /\ timers' = timers
    /\ UNCHANGED now

\* A timer that fires again does so at a time that has not come yet, by the clock
\* that its firing went by.
Repeat(n, again) ==
    /\ firing = {n}
    /\ again.id = n.id /\ again.value > n.value
    /\ firing' = {}
    /\ timers' = timers \cup {again}
    /\ UNCHANGED now

Pass ==
    /\ now' > now
    /\ UNCHANGED <<timers, firing>>

Next ==
    \/ \E n \in timers' : Add(n)
    \/ \E n \in timers : Remove(n) \/ Fire(n)
    \/ Finish
    \/ \E n \in firing, again \in timers' : Repeat(n, again)
    \/ Pass

Spec == Init /\ [][Next]_<<timers, firing, now>>
=============================================================================
