------------------------------ MODULE TimedWait ------------------------------
(***************************************************************************)
(* The absolute deadline that Semaphore::Wait(int) and                     *)
(* SingleEvent::Wait(int) compute from the wall clock and a timeout in     *)
(* milliseconds, and a wait that nobody ends: when does it give up?        *)
(***************************************************************************)
EXTENDS Integers

CONSTANTS Clocks,    \* the readings of CLOCK_REALTIME
          Timeouts   \* the arguments of Wait(int)

MsPerSec == 1000
NsPerMs == 1000 * 1000
NsPerSec == MsPerSec * NsPerMs

Nanoseconds == {n \in Nat : n < NsPerSec}
Instant == [tv_sec : Nat, tv_nsec : Nanoseconds]

ASSUME ClocksAreInstants == Clocks \subseteq Instant
ASSUME TimeoutsAreInts == Timeouts \subseteq Int

VARIABLES clock,                  \* CLOCK_REALTIME
          call, nTimeout, start, ts \* the call of Wait(int), when it began, its deadline

waitVars == <<clock, call, nTimeout, start, ts>>

\* Division and remainder of C truncate towards zero.
Quot(a, b) == IF a >= 0 THEN a \div b ELSE -((-a) \div b)
Rem(a, b) == IF a >= 0 THEN a % b ELSE -((-a) % b)

\* Mutant: the carry into the seconds is forgotten.
DeadlineNoCarry(now, n) ==
    LET tsMilliSec == now.tv_nsec \div NsPerMs
        ms == tsMilliSec + Rem(n, MsPerSec)
        sec == now.tv_sec + Quot(n, MsPerSec)
    IN  IF ms < MsPerSec
        THEN [tv_sec |-> sec, tv_nsec |-> now.tv_nsec + Rem(n, MsPerSec) * NsPerMs]
        ELSE [tv_sec |-> sec, tv_nsec |-> (ms - MsPerSec) * NsPerMs]

\* When the milliseconds carry, the nanoseconds below a millisecond are lost.
Deadline(now, n) ==
    LET tsMilliSec == now.tv_nsec \div NsPerMs
        ms == tsMilliSec + Rem(n, MsPerSec)
        sec == now.tv_sec + Quot(n, MsPerSec)
    IN  IF ms < MsPerSec
        THEN [tv_sec |-> sec, tv_nsec |-> now.tv_nsec + Rem(n, MsPerSec) * NsPerMs]
        ELSE [tv_sec |-> sec + 1, tv_nsec |-> (ms - MsPerSec) * NsPerMs]

Before(a, b) == a.tv_sec < b.tv_sec \/ (a.tv_sec = b.tv_sec /\ a.tv_nsec < b.tv_nsec)

WaitInit ==
    /\ clock \in Clocks
    /\ call = "idle"
    /\ nTimeout = 0
    /\ start = clock
    /\ ts = clock

Tick(now) ==
    /\ Before(clock, now)
    /\ clock' = now
    /\ UNCHANGED <<call, nTimeout, start, ts>>

Wait(n) ==
    /\ call = "idle"
    /\ call' = "waiting"
    /\ nTimeout' = n
    /\ start' = clock
    /\ ts' = Deadline(clock, n)
    /\ UNCHANGED clock

\* sem_timedwait and pthread_cond_timedwait give up at the deadline, and at once
\* when tv_nsec is out of range.
GiveUp ==
    /\ call = "waiting"
    /\ \/ ~ Before(clock, ts)
       \/ ts.tv_nsec \notin Nanoseconds
    /\ call' = "timedout"
    /\ UNCHANGED <<clock, nTimeout, start, ts>>

WaitNext ==
    \/ \E now \in Clocks : Tick(now)
    \/ \E n \in Timeouts : Wait(n)
    \/ GiveUp

WaitSpec == WaitInit /\ [][WaitNext]_waitVars

-----------------------------------------------------------------------------
\* The milliseconds from a to b, rounded down, when b is not before a; the
\* nanoseconds left over are ignored.
MilliSecBetween(a, b) ==
    (b.tv_sec - a.tv_sec) * MsPerSec + (b.tv_nsec - a.tv_nsec) \div NsPerMs

\* A Wait(int) with a timeout of zero or more that returned false waited for its
\* timeout, less a part of a millisecond.
NotEarly ==
    call = "timedout" /\ nTimeout >= 0 =>
        MilliSecBetween(start, clock) >= nTimeout - 1

\* The deadline of such a call is well formed and not later than asked for.
DeadlineExact ==
    call # "idle" /\ nTimeout >= 0 =>
        /\ ts \in Instant
        /\ MilliSecBetween(start, ts) <= nTimeout

\* Semaphore::Wait(int) is punctual: neither its deadline nor its return is wrong by a
\* millisecond.
Punctual == NotEarly /\ DeadlineExact
=============================================================================
