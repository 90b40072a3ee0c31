------------------------------ MODULE TimeValue ------------------------------
(***************************************************************************)
(* TimeValue (comLib/dhntimer/Time_Value.cpp), the times that the timer    *)
(* queue compares and adds: seconds and microseconds, kept in a normal     *)
(* form in which both have the same sign.  Two values are changed by the   *)
(* operators of the class, one from the other.  time_t and long are wide   *)
(* enough for every time that occurs.                                      *)
(***************************************************************************)
EXTENDS Integers

CONSTANTS Seconds, Micros, Millis,   \* arguments of the operators
          MaxOps                     \* bound on the number of operations

ASSUME ArgumentsAssumption == Seconds \subseteq Int /\ Micros \subseteq Int /\ Millis \subseteq Int

VARIABLES tv,          \* the two values
          exact,       \* the microseconds each of them stands for
          raw,         \* was it last changed by an operator that does not normalize
          ops

timeVars == <<tv, exact, raw, ops>>

Both == {1, 2}
ONE_SECOND_IN_USECS == 1000000
Time == [sec : Int, usec : Int]
T(s, u) == [sec |-> s, usec |-> u]

-----------------------------------------------------------------------------
\* The two loops: whole seconds go from the microseconds to the seconds.
Carried(t) ==
    LET S == ONE_SECOND_IN_USECS IN
    CASE t.usec >= S -> T(t.sec + t.usec \div S, t.usec % S)
      [] t.usec <= -S -> T(t.sec - (-t.usec) \div S, -((-t.usec) % S))
      [] OTHER -> t

\* Mutant: the signs are left as they are.
NormalizeLoops(t) == Carried(t)

normalize(t) ==
    LET c == Carried(t) IN
    CASE c.sec >= 1 /\ c.usec < 0 -> T(c.sec - 1, c.usec + ONE_SECOND_IN_USECS)
      [] c.sec < 0 /\ c.usec > 0 -> T(c.sec + 1, c.usec - ONE_SECOND_IN_USECS)
      [] OTHER -> c

\* msec(long), with the division of C, and msec().
FromMsec(ms) ==
    LET secs == IF ms >= 0 THEN ms \div 1000 ELSE -((-ms) \div 1000)
    IN  T(secs, (ms - secs * 1000) * 1000)
msec(t) == t.sec * 1000 + (IF t.usec >= 0 THEN t.usec \div 1000 ELSE -((-t.usec) \div 1000))

Greater(a, b) == a.sec > b.sec \/ (a.sec = b.sec /\ a.usec > b.usec)
GreaterEqual(a, b) == a.sec > b.sec \/ (a.sec = b.sec /\ a.usec >= b.usec)
Less(a, b) == Greater(b, a)
LessEqual(a, b) == GreaterEqual(b, a)
Equal(a, b) == a.sec = b.sec /\ a.usec = b.usec

-----------------------------------------------------------------------------
Value(t) == t.sec * ONE_SECOND_IN_USECS + t.usec

TimeInit ==
    /\ tv = [i \in Both |-> T(0, 0)] /\ exact = [i \in Both |-> 0]
    /\ raw = [i \in Both |-> FALSE] /\ ops = 0

\* Value i becomes t; what it should stand for is x.
Becomes(i, t, x, isRaw) ==
    /\ ops < MaxOps /\ ops' = ops + 1
    /\ tv' = [tv EXCEPT ![i] = t] /\ exact' = [exact EXCEPT ![i] = x]
    /\ raw' = [raw EXCEPT ![i] = isRaw]

set(i, s, u) == Becomes(i, normalize(T(s, u)), s * ONE_SECOND_IN_USECS + u, FALSE)
SetMsec(i, ms) == Becomes(i, FromMsec(ms), ms * 1000, FALSE)
Increment(i) == Becomes(i, normalize(T(tv[i].sec, tv[i].usec + 1)), exact[i] + 1, FALSE)
Decrement(i) == Becomes(i, normalize(T(tv[i].sec, tv[i].usec - 1)), exact[i] - 1, FALSE)
Add(i, j) ==
    Becomes(i, normalize(T(tv[i].sec + tv[j].sec, tv[i].usec + tv[j].usec)), exact[i] + exact[j], FALSE)
Subtract(i, j) ==
    Becomes(i, normalize(T(tv[i].sec - tv[j].sec, tv[i].usec - tv[j].usec)), exact[i] - exact[j], FALSE)
Assign(i, j) == Becomes(i, tv[j], exact[j], raw[j])

\* The operators with a time_t; += and -= leave the value as it comes.
AssignSeconds(i, s) == Becomes(i, T(s, 0), s * ONE_SECOND_IN_USECS, FALSE)
AddSeconds(i, s) == Becomes(i, T(tv[i].sec + s, tv[i].usec), exact[i] + s * ONE_SECOND_IN_USECS, TRUE)
SubtractSeconds(i, s) == Becomes(i, T(tv[i].sec - s, tv[i].usec), exact[i] - s * ONE_SECOND_IN_USECS, TRUE)

TimeNext ==
    \E i, j \in Both :
        \/ \E s \in Seconds, u \in Micros : set(i, s, u)
        \/ \E ms \in Millis : SetMsec(i, ms)
        \/ Increment(i) \/ Decrement(i)
        \/ Add(i, j) \/ Subtract(i, j) \/ Assign(i, j)
        \/ \E s \in Seconds : AssignSeconds(i, s) \/ AddSeconds(i, s) \/ SubtractSeconds(i, s)

TimeSpec == TimeInit /\ [][TimeNext]_timeVars

-----------------------------------------------------------------------------
Normal(t) ==
    /\ -ONE_SECOND_IN_USECS < t.usec /\ t.usec < ONE_SECOND_IN_USECS
    /\ t.sec >= 1 => t.usec >= 0
    /\ t.sec < 0 => t.usec <= 0

\* TimeValue: no operator loses a microsecond, whatever signs and carries its operands
\* have; every operator that normalizes gives the normal form, also from a value that
\* += or -= of seconds has left without it; and on normal values the comparisons, which
\* look at the seconds first, are those of the times.
TimesExact ==
    /\ \A i \in Both : Value(tv[i]) = exact[i] /\ (~raw[i] => Normal(tv[i]))
    /\ \A i, j \in Both :
          ~raw[i] /\ ~raw[j] =>
              /\ Greater(tv[i], tv[j]) <=> exact[i] > exact[j]
              /\ GreaterEqual(tv[i], tv[j]) <=> exact[i] >= exact[j]
              /\ Less(tv[i], tv[j]) <=> exact[i] < exact[j]
              /\ LessEqual(tv[i], tv[j]) <=> exact[i] <= exact[j]
              /\ Equal(tv[i], tv[j]) <=> exact[i] = exact[j]
    /\ \A ms \in Millis : msec(FromMsec(ms)) = ms

=============================================================================
