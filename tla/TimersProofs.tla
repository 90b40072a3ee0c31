---------------------------- MODULE TimersProofs ----------------------------
(***************************************************************************)
(* Proofs about the timers of comLib/dhntimer, for any number of spokes,   *)
(* resolution, tasks, delays and longest wait: the operators of TimeValue  *)
(* are exact (TimeValue.tla); no timer is late by more than the longest    *)
(* select, the earliest due timer and no other fires, the wheel keeps its  *)
(* order, and what was cancelled stays silent (TimerQueue.tla).            *)
(*                                                                         *)
(* TimerInv is inductive: it adds to the order of the wheel who owns a     *)
(* task (at most one timer, on the wheel or firing, and its task is not    *)
(* deleted) and how the clock lies to the end of the select and to every   *)
(* timer.  IdInv adds that every id, also of a cancelled timer, was given  *)
(* by a counter of the present or an earlier value; it needs that no       *)
(* counter overflows and no id is cut (CountersFit).                       *)
(***************************************************************************)
EXTENDS TimerQueue, TimeValue, TLAPS

-----------------------------------------------------------------------------
\* The loops of normalize keep the time and leave less than a second.
LEMMA CarriedExact ==
    ASSUME NEW t \in Time
    PROVE  /\ Carried(t) \in Time /\ Value(Carried(t)) = Value(t)
           /\ -ONE_SECOND_IN_USECS < Carried(t).usec /\ Carried(t).usec < ONE_SECOND_IN_USECS
  <1>1. CASE t.usec >= ONE_SECOND_IN_USECS
    BY <1>1 DEF Carried, Time, T, Value, ONE_SECOND_IN_USECS
  <1>2. CASE t.usec <= -ONE_SECOND_IN_USECS
    BY <1>2 DEF Carried, Time, T, Value, ONE_SECOND_IN_USECS
  <1>3. CASE -ONE_SECOND_IN_USECS < t.usec /\ t.usec < ONE_SECOND_IN_USECS
    BY <1>3 DEF Carried, Time, T, Value, ONE_SECOND_IN_USECS
  <1>4. QED BY <1>1, <1>2, <1>3 DEF Time, ONE_SECOND_IN_USECS

\* normalize keeps the time and gives the normal form, from any value.
LEMMA NormalizeExact ==
    ASSUME NEW t \in Time
    PROVE  normalize(t) \in Time /\ Value(normalize(t)) = Value(t) /\ Normal(normalize(t))
  BY CarriedExact DEF normalize, Time, T, Value, Normal, ONE_SECOND_IN_USECS

\* Milliseconds come back from the value they are put in.
LEMMA MsecExact ==
    ASSUME NEW ms \in Int
    PROVE  /\ FromMsec(ms) \in Time /\ Value(FromMsec(ms)) = ms * 1000 /\ Normal(FromMsec(ms))
           /\ msec(FromMsec(ms)) = ms
  <1>1. CASE ms >= 0
    <2> DEFINE s == ms \div 1000
               r == ms - s * 1000
    <2>1. s \in Int /\ r \in 0 .. 999 /\ ms = s * 1000 + r /\ FromMsec(ms) = T(s, r * 1000)
      BY <1>1 DEF FromMsec
    <2>2. s >= 0
      BY <1>1
    <2> HIDE DEF s, r
    <2>3. msec(T(s, r * 1000)) = s * 1000 + r
      <3>1. r * 1000 >= 0 /\ (r * 1000) \div 1000 = r
        BY <2>1
      <3>2. QED BY <2>1, <3>1 DEF msec, T
    <2>4. T(s, r * 1000) \in Time
      BY <2>1 DEF Time, T
    <2>5. Value(T(s, r * 1000)) = ms * 1000
      BY <2>1 DEF T, Value, ONE_SECOND_IN_USECS
    <2>6. Normal(T(s, r * 1000))
      BY <2>1, <2>2 DEF T, Normal, ONE_SECOND_IN_USECS
    <2>7. QED BY <2>1, <2>3, <2>4, <2>5, <2>6
  <1>2. CASE ms < 0
    <2> DEFINE s == -((-ms) \div 1000)
               r == ms - s * 1000
    <2>1. s \in Int /\ r \in -999 .. 0 /\ ms = s * 1000 + r /\ FromMsec(ms) = T(s, r * 1000)
      BY <1>2 DEF FromMsec
    <2>2. s <= 0
      BY <1>2
    <2> HIDE DEF s, r
    <2>3. msec(T(s, r * 1000)) = s * 1000 + r
      <3>1. (r * 1000 >= 0 => r = 0) /\ (-(r * 1000)) \div 1000 = -r /\ 0 \div 1000 = 0
        BY <2>1
      <3>2. QED BY <2>1, <3>1 DEF msec, T
    <2>4. T(s, r * 1000) \in Time
      BY <2>1 DEF Time, T
    <2>5. Value(T(s, r * 1000)) = ms * 1000
      BY <2>1 DEF T, Value, ONE_SECOND_IN_USECS
    <2>6. Normal(T(s, r * 1000))
      BY <2>1, <2>2 DEF T, Normal, ONE_SECOND_IN_USECS
    <2>7. QED BY <2>1, <2>3, <2>4, <2>5, <2>6
  <1>3. QED BY <1>1, <1>2

\* On normal values the comparisons are those of the times.
LEMMA OrderExact ==
    ASSUME NEW a \in Time, NEW b \in Time, Normal(a), Normal(b)
    PROVE  /\ Greater(a, b) <=> Value(a) > Value(b)
           /\ GreaterEqual(a, b) <=> Value(a) >= Value(b)
           /\ Equal(a, b) <=> Value(a) = Value(b)
  BY DEF Time, Normal, Value, Greater, GreaterEqual, Equal, ONE_SECOND_IN_USECS

TimeInv ==
    /\ tv \in [Both -> Time] /\ exact \in [Both -> Int] /\ raw \in [Both -> BOOLEAN]
    /\ \A i \in Both : Value(tv[i]) = exact[i] /\ (~raw[i] => Normal(tv[i]))

\* What a step must give for the invariant to stay.
LEMMA StepKeeps ==
    ASSUME TimeInv, NEW i \in Both, NEW t \in Time, NEW x \in Int, NEW isRaw \in BOOLEAN,
           Becomes(i, t, x, isRaw), Value(t) = x, ~isRaw => Normal(t)
    PROVE  TimeInv'
  <1>1. tv' \in [Both -> Time] /\ exact' \in [Both -> Int] /\ raw' \in [Both -> BOOLEAN]
    BY DEF TimeInv, Becomes
  <1>2. ASSUME NEW k \in Both PROVE Value(tv'[k]) = exact'[k] /\ (~raw'[k] => Normal(tv'[k]))
    BY DEF TimeInv, Becomes
  <1>3. QED BY <1>1, <1>2 DEF TimeInv

\* TimeValue for all arguments and any number of operations: TimesExact.
THEOREM TimesStayExact == TimeSpec => []TimesExact
  <1>1. TimeInit => TimeInv
    BY DEF TimeInit, TimeInv, Both, Time, T, Value, Normal, ONE_SECOND_IN_USECS
  <1>2. TimeInv /\ [TimeNext]_timeVars => TimeInv'
    <2> SUFFICES ASSUME TimeInv, [TimeNext]_timeVars PROVE TimeInv'
      OBVIOUS
    <2>1. CASE UNCHANGED timeVars
      BY <2>1 DEF timeVars, TimeInv
    <2>2. CASE TimeNext
      <3> PICK i \in Both, j \in Both :
            \/ \E s \in Seconds, u \in Micros : set(i, s, u)
            \/ \E ms \in Millis : SetMsec(i, ms)
            \/ Increment(i) \/ Decrement(i)
            \/ Add(i, j) \/ Subtract(i, j) \/ Assign(i, j)
            \/ \E s \in Seconds : AssignSeconds(i, s) \/ AddSeconds(i, s) \/ SubtractSeconds(i, s)
        BY <2>2 DEF TimeNext
      <3>i. /\ tv[i] \in Time /\ tv[i].sec \in Int /\ tv[i].usec \in Int
            /\ exact[i] \in Int /\ raw[i] \in BOOLEAN /\ Value(tv[i]) = exact[i]
        BY DEF TimeInv, Time
      <3>j. /\ tv[j] \in Time /\ tv[j].sec \in Int /\ tv[j].usec \in Int
            /\ exact[j] \in Int /\ raw[j] \in BOOLEAN
            /\ Value(tv[j]) = exact[j] /\ (~raw[j] => Normal(tv[j]))
        BY DEF TimeInv, Time
      <3>v. /\ exact[i] = tv[i].sec * ONE_SECOND_IN_USECS + tv[i].usec
            /\ exact[j] = tv[j].sec * ONE_SECOND_IN_USECS + tv[j].usec
        BY <3>i, <3>j, Zenon DEF Value
      <3>n. ASSUME NEW s \in Int, NEW u \in Int
            PROVE  /\ T(s, u) \in Time /\ Value(T(s, u)) = s * ONE_SECOND_IN_USECS + u
                   /\ normalize(T(s, u)) \in Time /\ Normal(normalize(T(s, u)))
                   /\ Value(normalize(T(s, u))) = s * ONE_SECOND_IN_USECS + u
        <4>1. T(s, u) \in Time /\ Value(T(s, u)) = s * ONE_SECOND_IN_USECS + u
          BY DEF T, Time, Value
        <4>2. QED BY <4>1, NormalizeExact
      <3>1. ASSUME NEW s \in Seconds, NEW u \in Micros, set(i, s, u) PROVE TimeInv'
        <4>1. s \in Int /\ u \in Int /\ s * ONE_SECOND_IN_USECS + u \in Int
          BY ArgumentsAssumption DEF ONE_SECOND_IN_USECS
        <4>2. QED BY <3>1, <3>n, <4>1, StepKeeps, Zenon DEF set
      <3>2. ASSUME NEW ms \in Millis, SetMsec(i, ms) PROVE TimeInv'
        <4> DEFINE t == FromMsec(ms)
                   x == ms * 1000
        <4>1. ms \in Int /\ x \in Int
          BY ArgumentsAssumption
        <4>2. t \in Time /\ Value(t) = x /\ Normal(t)
          BY <4>1, MsecExact
        <4>3. Becomes(i, t, x, FALSE)
          BY <3>2, Zenon DEF SetMsec
        <4> HIDE DEF t, x
        <4>4. QED BY <4>1, <4>2, <4>3, StepKeeps, Zenon
      <3>3. CASE Increment(i)
        <4> DEFINE seconds == tv[i].sec * ONE_SECOND_IN_USECS
        <4>0. exact[i] = seconds + tv[i].usec
          BY <3>v, Zenon
        <4>i. seconds \in Int
          BY <3>i DEF ONE_SECOND_IN_USECS
        <4> HIDE DEF seconds
        <4>1. exact[i] + 1 = seconds + (tv[i].usec + 1)
          BY <3>i, <4>0, <4>i
        <4> DEFINE t == normalize(T(tv[i].sec, tv[i].usec + 1))
        <4>2. t \in Time /\ Value(t) = exact[i] + 1 /\ exact[i] + 1 \in Int /\ Normal(t)
          BY <3>i, <3>n, <4>1 DEF seconds
        <4>3. QED BY <3>3, <4>2, StepKeeps, Zenon DEF Increment
      <3>4. CASE Decrement(i)
        <4> DEFINE seconds == tv[i].sec * ONE_SECOND_IN_USECS
        <4>0. exact[i] = seconds + tv[i].usec
          BY <3>v, Zenon
        <4>i. seconds \in Int
          BY <3>i DEF ONE_SECOND_IN_USECS
        <4> HIDE DEF seconds
        <4>1. exact[i] - 1 = seconds + (tv[i].usec - 1)
          BY <3>i, <4>0, <4>i
        <4> DEFINE t == normalize(T(tv[i].sec, tv[i].usec - 1))
        <4>2. t \in Time /\ Value(t) = exact[i] - 1 /\ exact[i] - 1 \in Int /\ Normal(t)
          BY <3>i, <3>n, <4>1 DEF seconds
        <4>3. QED BY <3>4, <4>2, StepKeeps, Zenon DEF Decrement
      <3>5. CASE Add(i, j)
        <4> DEFINE s1 == tv[i].sec
                   u1 == tv[i].usec
                   s2 == tv[j].sec
                   u2 == tv[j].usec
        <4>0. /\ s1 \in Int /\ u1 \in Int /\ exact[i] = s1 * ONE_SECOND_IN_USECS + u1
              /\ s2 \in Int /\ u2 \in Int /\ exact[j] = s2 * ONE_SECOND_IN_USECS + u2
          BY <3>i, <3>j, <3>v, Zenon
        <4> HIDE DEF s1, u1, s2, u2
        <4>1. exact[i] + exact[j] = (s1 + s2) * ONE_SECOND_IN_USECS + (u1 + u2)
          BY <4>0 DEF ONE_SECOND_IN_USECS
        <4> DEFINE t == normalize(T(s1 + s2, u1 + u2))
        <4>2. t \in Time /\ Value(t) = exact[i] + exact[j] /\ exact[i] + exact[j] \in Int /\ Normal(t)
          BY <3>i, <3>j, <3>n, <4>0, <4>1
        <4>3. QED BY <3>5, <4>2, StepKeeps, Zenon DEF Add, s1, u1, s2, u2
      <3>6. CASE Subtract(i, j)
        <4> DEFINE s1 == tv[i].sec
                   u1 == tv[i].usec
                   s2 == tv[j].sec
                   u2 == tv[j].usec
        <4>0. /\ s1 \in Int /\ u1 \in Int /\ exact[i] = s1 * ONE_SECOND_IN_USECS + u1
              /\ s2 \in Int /\ u2 \in Int /\ exact[j] = s2 * ONE_SECOND_IN_USECS + u2
          BY <3>i, <3>j, <3>v, Zenon
        <4> HIDE DEF s1, u1, s2, u2
        <4>1. exact[i] - exact[j] = (s1 - s2) * ONE_SECOND_IN_USECS + (u1 - u2)
          BY <4>0 DEF ONE_SECOND_IN_USECS
        <4> DEFINE t == normalize(T(s1 - s2, u1 - u2))
        <4>2. t \in Time /\ Value(t) = exact[i] - exact[j] /\ exact[i] - exact[j] \in Int /\ Normal(t)
          BY <3>i, <3>j, <3>n, <4>0, <4>1
        <4>3. QED BY <3>6, <4>2, StepKeeps, Zenon DEF Subtract, s1, u1, s2, u2
      <3>7. CASE Assign(i, j)
        BY <3>7, <3>j, StepKeeps DEF Assign
      <3>8. ASSUME NEW s \in Seconds, AssignSeconds(i, s) PROVE TimeInv'
        <4>1. s \in Int /\ s * ONE_SECOND_IN_USECS \in Int
          BY ArgumentsAssumption DEF ONE_SECOND_IN_USECS
        <4>2. T(s, 0) \in Time /\ Value(T(s, 0)) = s * ONE_SECOND_IN_USECS /\ Normal(T(s, 0))
          BY <4>1 DEF T, Time, Value, Normal, ONE_SECOND_IN_USECS
        <4>3. QED BY <3>8, <4>1, <4>2, StepKeeps, Zenon DEF AssignSeconds
      <3>9. ASSUME NEW s \in Seconds, AddSeconds(i, s) PROVE TimeInv'
        <4>1. s \in Int
          BY ArgumentsAssumption
        <4>2. exact[i] + s * ONE_SECOND_IN_USECS = (tv[i].sec + s) * ONE_SECOND_IN_USECS + tv[i].usec
          BY <3>i, <4>1 DEF Value, ONE_SECOND_IN_USECS
        <4>3. exact[i] + s * ONE_SECOND_IN_USECS \in Int
          BY <3>i, <4>1 DEF ONE_SECOND_IN_USECS
        <4> DEFINE t == T(tv[i].sec + s, tv[i].usec)
        <4>4. t \in Time /\ Value(t) = exact[i] + s * ONE_SECOND_IN_USECS
          BY <3>i, <3>n, <4>1, <4>2, <4>3
        <4>5. QED BY <3>9, <4>3, <4>4, StepKeeps, Zenon DEF AddSeconds
      <3>10. ASSUME NEW s \in Seconds, SubtractSeconds(i, s) PROVE TimeInv'
        <4>1. s \in Int
          BY ArgumentsAssumption
        <4>2. exact[i] - s * ONE_SECOND_IN_USECS = (tv[i].sec - s) * ONE_SECOND_IN_USECS + tv[i].usec
          BY <3>i, <4>1 DEF Value, ONE_SECOND_IN_USECS
        <4>3. exact[i] - s * ONE_SECOND_IN_USECS \in Int
          BY <3>i, <4>1 DEF ONE_SECOND_IN_USECS
        <4> DEFINE t == T(tv[i].sec - s, tv[i].usec)
        <4>4. t \in Time /\ Value(t) = exact[i] - s * ONE_SECOND_IN_USECS
          BY <3>i, <3>n, <4>1, <4>2, <4>3
        <4>5. QED BY <3>10, <4>3, <4>4, StepKeeps, Zenon DEF SubtractSeconds
      <3>11. QED BY <3>1, <3>2, <3>3, <3>4, <3>5, <3>6, <3>7, <3>8, <3>9, <3>10
    <2>3. QED BY <2>1, <2>2
  <1>3. TimeInv => TimesExact
    <2> SUFFICES ASSUME TimeInv PROVE TimesExact
      OBVIOUS
    <2>1. ASSUME NEW i \in Both, NEW j \in Both, ~raw[i], ~raw[j]
          PROVE  /\ Greater(tv[i], tv[j]) <=> exact[i] > exact[j]
                 /\ GreaterEqual(tv[i], tv[j]) <=> exact[i] >= exact[j]
                 /\ Equal(tv[i], tv[j]) <=> exact[i] = exact[j]
      BY <2>1, OrderExact DEF TimeInv
    <2>2. \A ms \in Millis : msec(FromMsec(ms)) = ms
      BY MsecExact, ArgumentsAssumption
    <2>3. ASSUME NEW i \in Both PROVE exact[i] \in Int
      BY DEF TimeInv
    <2>4. ASSUME NEW i \in Both, NEW j \in Both, ~raw[i], ~raw[j]
          PROVE  /\ Less(tv[i], tv[j]) <=> exact[i] < exact[j]
                 /\ LessEqual(tv[i], tv[j]) <=> exact[i] <= exact[j]
      BY <2>1, <2>3, <2>4 DEF Less, LessEqual
    <2>5. QED BY <2>1, <2>2, <2>4 DEF TimeInv, TimesExact
  <1>4. QED BY <1>1, <1>2, <1>3, PTL DEF TimeSpec

-----------------------------------------------------------------------------
Timer == [id : Int, task : Tasks, value : Nat, interval : Nat]

\* The beginning and the end of a list, and two lists in a row.
LEMMA Parts ==
    ASSUME NEW list \in Seq(Timer), NEW k \in 0 .. Len(list)
    PROVE  /\ SubSeq(list, 1, k) \in Seq(Timer) /\ Len(SubSeq(list, 1, k)) = k
           /\ \A i \in 1 .. k : SubSeq(list, 1, k)[i] = list[i]
           /\ SubSeq(list, k + 1, Len(list)) \in Seq(Timer)
           /\ Len(SubSeq(list, k + 1, Len(list))) = Len(list) - k
           /\ \A i \in 1 .. Len(list) - k : SubSeq(list, k + 1, Len(list))[i] = list[k + i]
  OBVIOUS

LEMMA InARow ==
    ASSUME NEW a \in Seq(Timer), NEW b \in Seq(Timer)
    PROVE  /\ a \o b \in Seq(Timer) /\ Len(a \o b) = Len(a) + Len(b)
           /\ \A i \in 1 .. Len(a) : (a \o b)[i] = a[i]
           /\ \A i \in 1 .. Len(b) : (a \o b)[Len(a) + i] = b[i]
  OBVIOUS

\* The elements of a list into which one was inserted.
LEMMA InsertedList ==
    ASSUME NEW list \in Seq(Timer), NEW k \in 0 .. Len(list), NEW n \in Timer
    PROVE  /\ Inserted(list, k, n) \in Seq(Timer)
           /\ Len(Inserted(list, k, n)) = Len(list) + 1
           /\ \A i \in 1 .. k : Inserted(list, k, n)[i] = list[i]
           /\ Inserted(list, k, n)[k + 1] = n
           /\ \A i \in k + 1 .. Len(list) : Inserted(list, k, n)[i + 1] = list[i]
  <1> DEFINE a == SubSeq(list, 1, k)
             b == SubSeq(list, k + 1, Len(list))
             c == a \o <<n>>
  <1>1. /\ a \in Seq(Timer) /\ Len(a) = k /\ \A i \in 1 .. k : a[i] = list[i]
        /\ b \in Seq(Timer) /\ Len(b) = Len(list) - k /\ \A i \in 1 .. Len(list) - k : b[i] = list[k + i]
    BY Parts
  <1> HIDE DEF a, b
  <1>2. /\ c \in Seq(Timer) /\ Len(c) = k + 1 /\ c[k + 1] = n
        /\ \A i \in 1 .. k : c[i] = list[i]
    BY <1>1
  <1>3. Inserted(list, k, n) = c \o b
    BY DEF Inserted, a, b
  <1> HIDE DEF c
  <1>4. /\ c \o b \in Seq(Timer) /\ Len(c \o b) = Len(c) + Len(b)
        /\ \A i \in 1 .. Len(c) : (c \o b)[i] = c[i]
        /\ \A i \in 1 .. Len(b) : (c \o b)[Len(c) + i] = b[i]
    <2>1. c \in Seq(Timer) /\ b \in Seq(Timer)
      BY <1>1, <1>2
    <2>2. QED BY <2>1, InARow
  <1>5. Len(list) \in Nat /\ k \in Int
    OBVIOUS
  <1>6. ASSUME NEW i \in k + 1 .. Len(list) PROVE (c \o b)[i + 1] = list[i]
    <2>1. i - k \in 1 .. Len(b) /\ Len(c) + (i - k) = i + 1 /\ k + (i - k) = i /\ i - k \in 1 .. Len(list) - k
      BY <1>1, <1>2, <1>5
    <2>2. (c \o b)[Len(c) + (i - k)] = b[i - k] /\ b[i - k] = list[k + (i - k)]
      BY <1>1, <1>4, <2>1
    <2>3. QED BY <2>1, <2>2, Zenon
  <1>7. QED BY <1>1, <1>2, <1>3, <1>4, <1>5, <1>6

\* The elements of a list from which one was removed.
LEMMA RemovedList ==
    ASSUME NEW list \in Seq(Timer), NEW k \in 1 .. Len(list)
    PROVE  /\ Removed(list, k) \in Seq(Timer)
           /\ Len(Removed(list, k)) = Len(list) - 1
           /\ \A i \in 1 .. k - 1 : Removed(list, k)[i] = list[i]
           /\ \A i \in k .. Len(list) - 1 : Removed(list, k)[i] = list[i + 1]
  <1> DEFINE a == SubSeq(list, 1, k - 1)
             b == SubSeq(list, k + 1, Len(list))
  <1>1. /\ a \in Seq(Timer) /\ Len(a) = k - 1 /\ \A i \in 1 .. k - 1 : a[i] = list[i]
        /\ b \in Seq(Timer) /\ Len(b) = Len(list) - k /\ \A i \in 1 .. Len(list) - k : b[i] = list[k + i]
    <2>1. k \in 0 .. Len(list) /\ k - 1 \in 0 .. Len(list)
      OBVIOUS
    <2>2. QED BY <2>1, Parts, Zenon
  <1>2. Removed(list, k) = a \o b
    BY DEF Removed
  <1> HIDE DEF a, b
  <1>3. /\ a \o b \in Seq(Timer) /\ Len(a \o b) = Len(a) + Len(b)
        /\ \A i \in 1 .. Len(a) : (a \o b)[i] = a[i]
        /\ \A i \in 1 .. Len(b) : (a \o b)[Len(a) + i] = b[i]
    <2>1. a \in Seq(Timer) /\ b \in Seq(Timer)
      BY <1>1
    <2>2. QED BY <2>1, InARow
  <1>4. Len(list) \in Nat /\ k \in Int
    OBVIOUS
  <1>5. ASSUME NEW i \in k .. Len(list) - 1 PROVE (a \o b)[i] = list[i + 1]
    <2>1. /\ i - k + 1 \in 1 .. Len(b) /\ Len(a) + (i - k + 1) = i /\ k + (i - k + 1) = i + 1
          /\ i - k + 1 \in 1 .. Len(list) - k
      BY <1>1, <1>4
    <2>2. (a \o b)[Len(a) + (i - k + 1)] = b[i - k + 1] /\ b[i - k + 1] = list[k + (i - k + 1)]
      BY <1>1, <1>3, <2>1
    <2>3. QED BY <2>1, <2>2
  <1>6. Len(a \o b) = Len(list) - 1 /\ \A i \in 1 .. k - 1 : (a \o b)[i] = list[i]
    BY <1>1, <1>3, <1>4
  <1>7. QED BY <1>2, <1>3, <1>5, <1>6, Zenon

\* One more than n are counted by n + 1.
LEMMA CountedMore ==
    ASSUME NEW S, NEW n \in Nat, NEW x, x \notin S, ExistsBijection(1 .. n, S)
    PROVE  ExistsBijection(1 .. n + 1, S \cup {x})
  <1>1. PICK f \in [1 .. n -> S] : /\ \A a, b \in 1 .. n : f[a] = f[b] => a = b
                                   /\ \A y \in S : \E a \in 1 .. n : f[a] = y
    BY Zenon DEF ExistsBijection, Bijection, Injection, Surjection, IsInjective
  <1> DEFINE g == [i \in 1 .. n + 1 |-> IF i = n + 1 THEN x ELSE f[i]]
  <1>2. g \in [1 .. n + 1 -> S \cup {x}]
    OBVIOUS
  <1>3. \A a, b \in 1 .. n + 1 : g[a] = g[b] => a = b
    BY <1>1
  <1>4. \A y \in S \cup {x} : \E a \in 1 .. n + 1 : g[a] = y
    BY <1>1
  <1>5. QED BY <1>2, <1>3, <1>4, Zenon DEF ExistsBijection, Bijection, Injection, Surjection, IsInjective

\* One fewer than n are counted by n - 1.
LEMMA CountedFewer ==
    ASSUME NEW S, NEW n \in Nat, NEW x \in S, ExistsBijection(1 .. n, S)
    PROVE  n > 0 /\ ExistsBijection(1 .. n - 1, S \ {x})
  <1>1. PICK f \in [1 .. n -> S] : /\ \A a, b \in 1 .. n : f[a] = f[b] => a = b
                                   /\ \A y \in S : \E a \in 1 .. n : f[a] = y
    BY Zenon DEF ExistsBijection, Bijection, Injection, Surjection, IsInjective
  <1>2. PICK c \in 1 .. n : f[c] = x
    BY <1>1
  <1> DEFINE g == [i \in 1 .. n - 1 |-> IF i = c THEN f[n] ELSE f[i]]
  <1>3. g \in [1 .. n - 1 -> S \ {x}]
    BY <1>1, <1>2
  <1>4. \A a, b \in 1 .. n - 1 : g[a] = g[b] => a = b
    BY <1>1
  <1>5. \A y \in S \ {x} : \E a \in 1 .. n - 1 : g[a] = y
    <2> TAKE y \in S \ {x}
    <2>1. PICK a \in 1 .. n : f[a] = y
      BY <1>1
    <2>2. a # c
      BY <2>1, <1>2
    <2>3. CASE a = n
      <3>1. c \in 1 .. n - 1 /\ g[c] = f[n]
        BY <2>2, <2>3
      <3>2. QED BY <2>1, <2>3, <3>1
    <2>4. CASE a # n
      <3>1. a \in 1 .. n - 1 /\ g[a] = f[a]
        BY <2>2, <2>4
      <3>2. QED BY <2>1, <3>1
    <2>5. QED BY <2>3, <2>4
  <1>6. g \in Bijection(1 .. n - 1, S \ {x})
    BY <1>3, <1>4, <1>5, Zenon DEF Bijection, Injection, Surjection, IsInjective
  <1>7. QED BY <1>2, <1>6 DEF ExistsBijection

\* Zero counts nothing.
LEMMA CountedNone ==
    ASSUME NEW S, NEW n \in Nat, ExistsBijection(1 .. n, S)
    PROVE  n = 0 <=> S = {}
  BY DEF ExistsBijection, Bijection, Injection, Surjection, IsInjective

\* Quotient and remainder.
LEMMA Divided ==
    ASSUME NEW c \in Nat \ {0}, NEW x \in Int
    PROVE  \E q \in Int : \E r \in 0 .. c - 1 : x \div c = q /\ x % c = r /\ x = c * q + r
  <1>1. x \div c \in Int /\ x % c \in 0 .. c - 1
    OBVIOUS
  <1>2. PICK q \in Int : x \div c = q
    BY <1>1
  <1>3. PICK r \in 0 .. c - 1 : x % c = r
    BY <1>1
  <1>4. x = c * q + r
    BY <1>2, <1>3
  <1>5. QED BY <1>2, <1>3, <1>4

\* Quotient and remainder are unique.
LEMMA Quotient ==
    ASSUME NEW c \in Nat \ {0}, NEW x \in Int, NEW q \in Int, NEW r \in 0 .. c - 1, x = c * q + r
    PROVE  x \div c = q /\ x % c = r
  OBVIOUS

\* Two numbers less than c apart with one remainder are the same.
LEMMA SameRemainder ==
    ASSUME NEW c \in Nat \ {0}, NEW x \in Int, NEW y \in Int,
           x % c = y % c, x <= y, y < x + c
    PROVE  x = y
  <1>1. PICK p \in Int, r \in 0 .. c - 1 : x % c = r /\ x = c * p + r
    BY Divided, Zenon
  <1>2. PICK q \in Int, t \in 0 .. c - 1 : y % c = t /\ y = c * q + t
    BY Divided, Zenon
  <1>3. y - x = c * (q - p)
    BY <1>1, <1>2
  <1>4. CASE q - p <= 0
    BY <1>3, <1>4
  <1>5. CASE q - p >= 1
    <2>1. c * (q - p) >= c
      BY <1>5
    <2>2. QED BY <1>3, <2>1
  <1>6. QED BY <1>4, <1>5

\* Spokes are counted round: a step from the remainder is a step from the number.
LEMMA StepRound ==
    ASSUME NEW c \in Nat \ {0}, NEW x \in Int, NEW i \in Int
    PROVE  ((x % c) + i) % c = (x + i) % c
  <1>1. PICK p \in Int, r \in 0 .. c - 1 : x % c = r /\ x = c * p + r
    BY Divided
  <1>2. PICK q \in Int, t \in 0 .. c - 1 : (r + i) % c = t /\ r + i = c * q + t
    <2> DEFINE y == r + i
    <2>1. y \in Int
      OBVIOUS
    <2> HIDE DEF y
    <2>2. \E q \in Int : \E t \in 0 .. c - 1 : y \div c = q /\ y % c = t /\ y = c * q + t
      BY <2>1, Divided, Zenon
    <2>3. QED BY <2>2 DEF y
  <1>3. x + i = c * (p + q) + t
    BY <1>1, <1>2
  <1>4. x + i \in Int /\ p + q \in Int
    OBVIOUS
  <1>5. (x + i) % c = t
    BY <1>3, <1>4, Quotient, Zenon
  <1>6. QED BY <1>1, <1>2, <1>5

\* A slot of the wheel's resolution holds the times that share a quotient.
Slot(t) == t \div wheel_time_
InSlot(t, q) == Slot(t) = q /\ wheel_time_ * q <= t /\ t < wheel_time_ * q + wheel_time_

\* The spoke of the slot q is i spokes after that of the slot p.
Spaced(p, q, i) == q % spoke_count_ = ((p % spoke_count_) + i) % spoke_count_

LEMMA SlotOf ==
    ASSUME NEW t \in Nat
    PROVE  \E q \in Int : InSlot(t, q)
  <1>1. PICK q \in Int, r \in 0 .. wheel_time_ - 1 : t \div wheel_time_ = q /\ t = wheel_time_ * q + r
    BY Divided, WheelAssumption
  <1>2. QED BY <1>1, WheelAssumption DEF InSlot, Slot

\* A time less than wheel_time_ after last is in its slot or the next.
LEMMA NextSlot ==
    ASSUME NEW last \in Nat, NEW u \in Nat, last <= u, u < last + wheel_time_,
           NEW q \in Int, InSlot(last, q), NEW a \in Int, InSlot(u, a)
    PROVE  a = q \/ a = q + 1
  <1> DEFINE w == wheel_time_
  <1>1. w \in Nat \ {0} /\ w * q <= last /\ last < w * q + w /\ w * a <= u /\ u < w * a + w /\ u < last + w
    BY WheelAssumption DEF InSlot
  <1> HIDE DEF w
  <1>2. w * (a - q) = w * a - w * q
    BY <1>1
  <1>3. ASSUME a - q <= -1 PROVE FALSE
    <2>1. w * (a - q) <= -w
      BY <1>1, <1>3
    <2>2. QED BY <1>1, <1>2, <2>1
  <1>4. ASSUME a - q >= 2 PROVE FALSE
    <2>1. w * (a - q) >= w + w
      BY <1>1, <1>4
    <2>2. QED BY <1>1, <1>2, <2>1
  <1>5. QED BY <1>3, <1>4

\* Which spokes a slot and the next one have.
LEMMA SlotSpoke ==
    ASSUME NEW q \in Int, NEW a \in Int, a = q \/ a = q + 1,
           NEW i \in Spokes, Spaced(q, a, i), spoke_count_ # 1
    PROVE  a = q + i
  <1> DEFINE c == spoke_count_
  <1>1. c \in Nat \ {0} /\ i \in 0 .. c - 1 /\ c # 1
    BY WheelAssumption DEF Spokes
  <1>0. a % c = ((q % c) + i) % c
    BY DEF Spaced
  <1> HIDE DEF c
  <1>2. a % c = (q + i) % c
    <2>1. i \in Int
      BY <1>1
    <2>2. QED BY <1>0, <1>1, <2>1, StepRound, Zenon
  <1>3. q + i \in Int /\ q + i >= q /\ q + i < q + c
    BY <1>1
  <1>4. CASE a = q
    BY <1>1, <1>2, <1>3, <1>4, SameRemainder, Zenon
  <1>5. CASE a = q + 1
    <2>1. CASE i >= 1
      <3>1. (q + 1) % c = (q + i) % c /\ q + 1 \in Int /\ q + 1 <= q + i /\ q + i < q + 1 + c
        BY <1>1, <1>2, <1>5, <2>1
      <3>2. q + 1 = q + i
        BY <1>1, <1>3, <3>1, SameRemainder, Zenon
      <3>3. QED BY <1>5, <3>2
    <2>2. CASE i = 0
      <3>1. q % c = (q + 1) % c /\ q + 1 \in Int /\ q <= q + 1 /\ q + 1 < q + c
        BY <1>1, <1>2, <1>5, <2>2
      <3>2. q = q + 1
        BY <1>1, <3>1, SameRemainder, Zenon
      <3>3. QED BY <3>2
    <2>3. QED BY <1>1, <2>1, <2>2
  <1>6. QED BY <1>4, <1>5

\* Of two times less than wheel_time_ after last, the one whose spoke comes first on
\* the way round the wheel is not later.
LEMMA NearerSpoke ==
    ASSUME NEW last \in Nat, NEW u \in Nat, NEW v \in Nat, NEW i \in Spokes, NEW j \in Spokes,
           last <= u, u < last + wheel_time_, last <= v, v < last + wheel_time_, i < j,
           calculate_spoke(u) = (calculate_spoke(last) + i) % spoke_count_,
           calculate_spoke(v) = (calculate_spoke(last) + j) % spoke_count_
    PROVE  u <= v
  <1>1. PICK q \in Int : InSlot(last, q)
    BY SlotOf
  <1>2. PICK a \in Int : InSlot(u, a)
    BY SlotOf
  <1>3. PICK b \in Int : InSlot(v, b)
    BY SlotOf
  <1>4. Spaced(q, a, i) /\ Spaced(q, b, j)
    BY <1>1, <1>2, <1>3, Zenon DEF Spaced, InSlot, Slot, calculate_spoke
  <1>5. (a = q \/ a = q + 1) /\ (b = q \/ b = q + 1)
    BY <1>1, <1>2, <1>3, NextSlot
  <1>6. i \in Int /\ j \in Int /\ i >= 0 /\ j > i /\ spoke_count_ # 1
    BY WheelAssumption DEF Spokes
  <1>7. a = q + i /\ b = q + j
    BY <1>4, <1>5, <1>6, SlotSpoke
  <1>8. a = q /\ b = q + 1
    BY <1>5, <1>6, <1>7
  <1> DEFINE w == wheel_time_
  <1>9. w \in Nat \ {0} /\ u < w * q + w /\ w * (q + 1) <= v
    BY <1>2, <1>3, <1>8, WheelAssumption DEF InSlot
  <1> HIDE DEF w
  <1>10. w * (q + 1) = w * q + w
    BY <1>9
  <1>11. QED BY <1>9, <1>10

-----------------------------------------------------------------------------
\* What is in a list.
In(x, list) == \E i \in 1 .. Len(list) : list[i] = x

\* schedule_i keeps a list sorted, adds the timer, and changes the first one only
\* when the timer is earlier.
LEMMA InsertedSorted ==
    ASSUME NEW list \in Seq(Timer), NEW spoke, SortedOn(list, spoke),
           NEW n \in Timer, calculate_spoke(n.value) = spoke, ~ In(n, list),
           NEW k \in 0 .. Len(list), Behind(list, k, n.value)
    PROVE  /\ Inserted(list, k, n) \in Seq(Timer)
           /\ Len(Inserted(list, k, n)) = Len(list) + 1
           /\ SortedOn(Inserted(list, k, n), spoke)
           /\ \A x : In(x, Inserted(list, k, n)) <=> In(x, list) \/ x = n
           /\ Inserted(list, k, n)[1] = IF list = <<>> \/ n.value < list[1].value THEN n ELSE list[1]
  <1> DEFINE new == Inserted(list, k, n)
  <1>1. /\ new \in Seq(Timer) /\ Len(new) = Len(list) + 1
        /\ \A i \in 1 .. k : new[i] = list[i]
        /\ new[k + 1] = n
        /\ \A i \in k + 1 .. Len(list) : new[i + 1] = list[i]
    BY InsertedList
  <1> HIDE DEF new
  <1>2. Len(list) \in Nat /\ \A i \in 1 .. Len(list) : list[i] \in Timer /\ list[i].value \in Nat
    <2>1. \A t \in Timer : t.value \in Nat
      BY DEF Timer
    <2>2. QED BY <2>1
  <1>3. n.value \in Nat
    BY DEF Timer
  \* A place of the new list has the timer or a place of the old list.
  <1>4. \A i \in 1 .. Len(new) : \/ i <= k /\ i \in 1 .. Len(list) /\ new[i] = list[i]
                                 \/ i = k + 1 /\ new[i] = n
                                 \/ i > k + 1 /\ i - 1 \in k + 1 .. Len(list) /\ new[i] = list[i - 1]
    <2> TAKE i \in 1 .. Len(new)
    <2>1. CASE i <= k
      BY <1>1, <1>2, <2>1
    <2>2. CASE i = k + 1
      BY <1>1, <2>2
    <2>3. CASE i > k + 1
      <3>1. i - 1 \in k + 1 .. Len(list) /\ i - 1 + 1 = i
        BY <1>1, <1>2, <2>3
      <3>2. new[i - 1 + 1] = list[i - 1]
        BY <1>1, <3>1
      <3>3. QED BY <2>3, <3>1, <3>2
    <2>4. QED BY <1>1, <1>2, <2>1, <2>2, <2>3
  <1>5. \A i \in 1 .. k : list[i].value <= n.value
    <2>1. CASE k = 0
      BY <2>1
    <2>2. CASE k > 0
      <3>1. k \in 1 .. Len(list) /\ list[k].value <= n.value
        BY <2>2 DEF Behind
      <3>2. \A i \in 1 .. k - 1 : list[i].value <= list[k].value
        BY <3>1 DEF SortedOn
      <3>3. QED BY <1>2, <1>3, <3>1, <3>2
    <2>3. QED BY <2>1, <2>2
  <1>6. \A i \in k + 1 .. Len(list) : n.value < list[i].value
    BY <1>2, <1>3 DEF Behind
  <1>7. SortedOn(new, spoke)
    <2>1. SUFFICES ASSUME NEW i \in 1 .. Len(new)
                   PROVE  /\ calculate_spoke(new[i].value) = spoke
                          /\ \A j \in 1 .. i - 1 : new[j].value <= new[i].value /\ new[j] # new[i]
      BY DEF SortedOn
    <2>2. calculate_spoke(new[i].value) = spoke
      <3>1. new[i] = n \/ \E j \in 1 .. Len(list) : new[i] = list[j]
        <4>1. \A j \in k + 1 .. Len(list) : j \in 1 .. Len(list)
          BY <1>2
        <4>2. QED BY <1>4, <4>1, Zenon
      <3>2. QED BY <3>1 DEF SortedOn
    <2>3. ASSUME NEW j \in 1 .. i - 1 PROVE new[j].value <= new[i].value /\ new[j] # new[i]
      <3>1. j \in 1 .. Len(new) /\ j < i
        BY <1>1, <1>2
      <3>2. CASE i <= k
        BY <1>4, <3>1, <3>2 DEF SortedOn
      <3>3. CASE i = k + 1
        <4>1. j \in 1 .. k /\ j \in 1 .. Len(list) /\ new[j] = list[j] /\ new[i] = n
          BY <1>4, <3>1, <3>3
        <4>2. list[j].value <= n.value /\ list[j] # n
          BY <1>5, <4>1, Zenon DEF In
        <4>3. QED BY <4>1, <4>2
      <3>4. CASE i > k + 1
        <4>1. i - 1 \in k + 1 .. Len(list) /\ i - 1 \in 1 .. Len(list) /\ new[i] = list[i - 1]
          BY <1>4, <3>4
        <4>2. CASE j <= k
          <5>1. j \in 1 .. i - 1 - 1 /\ new[j] = list[j]
            BY <1>4, <3>1, <3>4, <4>2
          <5>2. QED BY <4>1, <5>1 DEF SortedOn
        <4>3. CASE j = k + 1
          <5>1. new[j] = n
            BY <1>1, <4>3
          <5>2. n.value < list[i - 1].value
            BY <1>6, <4>1
          <5>3. QED BY <1>2, <1>3, <4>1, <5>1, <5>2
        <4>4. CASE j > k + 1
          <5>1. j - 1 \in 1 .. i - 1 - 1 /\ new[j] = list[j - 1]
            BY <1>4, <3>1, <4>4
          <5>2. QED BY <4>1, <5>1 DEF SortedOn
        <4>5. QED BY <4>2, <4>3, <4>4
      <3>5. QED BY <1>1, <1>2, <3>2, <3>3, <3>4
    <2>4. QED BY <2>2, <2>3
  <1>8. ASSUME NEW x PROVE In(x, new) <=> In(x, list) \/ x = n
    <2>1. In(x, new) => In(x, list) \/ x = n
      <3>1. \A j \in k + 1 .. Len(list) : j \in 1 .. Len(list)
        BY <1>2
      <3>2. QED BY <1>4, <3>1, Zenon DEF In
    <2>2. ASSUME NEW i \in 1 .. Len(list) PROVE In(list[i], new)
      <3>1. CASE i <= k
        BY <1>1, <1>2, <3>1 DEF In
      <3>2. CASE i > k
        <4>1. i + 1 \in 1 .. Len(new) /\ new[i + 1] = list[i]
          BY <1>1, <1>2, <3>2
        <4>2. QED BY <4>1 DEF In
      <3>3. QED BY <3>1, <3>2
    <2>3. In(n, new)
      <3>1. k + 1 \in 1 .. Len(new) /\ new[k + 1] = n
        BY <1>1, <1>2
      <3>2. QED BY <3>1 DEF In
    <2>4. QED BY <2>1, <2>2, <2>3, Zenon DEF In
  <1>9. new[1] = IF list = <<>> \/ n.value < list[1].value THEN n ELSE list[1]
    <2>1. CASE k = 0
      <3>1. new[1] = n
        BY <1>1, <2>1
      <3>2. list # <<>> => n.value < list[1].value
        BY <1>6, <2>1
      <3>3. QED BY <3>1, <3>2
    <2>2. CASE k > 0
      <3>1. 1 \in 1 .. k /\ list # <<>>
        BY <2>2
      <3>2. new[1] = list[1] /\ list[1].value <= n.value
        BY <1>1, <1>5, <3>1
      <3>3. ~ (n.value < list[1].value)
        BY <1>2, <1>3, <3>1, <3>2
      <3>4. QED BY <3>1, <3>2, <3>3
    <2>3. QED BY <2>1, <2>2
  <1>10. QED BY <1>1, <1>7, <1>8, <1>9 DEF new

\* unlink keeps a list sorted and takes away the timer, and only that.
LEMMA RemovedSorted ==
    ASSUME NEW list \in Seq(Timer), NEW spoke, SortedOn(list, spoke), NEW k \in 1 .. Len(list)
    PROVE  /\ Removed(list, k) \in Seq(Timer)
           /\ Len(Removed(list, k)) = Len(list) - 1
           /\ SortedOn(Removed(list, k), spoke)
           /\ \A x : In(x, Removed(list, k)) <=> In(x, list) /\ x # list[k]
           /\ k # 1 => Removed(list, k)[1] = list[1]
  <1> DEFINE new == Removed(list, k)
  <1>1. /\ new \in Seq(Timer) /\ Len(new) = Len(list) - 1
        /\ \A i \in 1 .. k - 1 : new[i] = list[i]
        /\ \A i \in k .. Len(list) - 1 : new[i] = list[i + 1]
    BY RemovedList
  <1> HIDE DEF new
  <1>2. Len(list) \in Nat /\ k \in Int
    OBVIOUS
  <1>3. \A i \in 1 .. Len(new) : \/ i < k /\ i \in 1 .. Len(list) /\ new[i] = list[i]
                                 \/ i >= k /\ i + 1 \in 1 .. Len(list) /\ new[i] = list[i + 1]
    <2> TAKE i \in 1 .. Len(new)
    <2>1. CASE i < k
      BY <1>1, <1>2, <2>1
    <2>2. CASE i >= k
      BY <1>1, <1>2, <2>2
    <2>3. QED BY <1>1, <1>2, <2>1, <2>2
  <1>4. SortedOn(new, spoke)
    <2>1. SUFFICES ASSUME NEW i \in 1 .. Len(new)
                   PROVE  /\ calculate_spoke(new[i].value) = spoke
                          /\ \A j \in 1 .. i - 1 : new[j].value <= new[i].value /\ new[j] # new[i]
      BY DEF SortedOn
    <2>2. calculate_spoke(new[i].value) = spoke
      BY <1>3 DEF SortedOn
    <2>3. ASSUME NEW j \in 1 .. i - 1 PROVE new[j].value <= new[i].value /\ new[j] # new[i]
      <3>1. j \in 1 .. Len(new) /\ j < i
        BY <1>1, <1>2
      <3>2. CASE i < k
        <4>1. ~ i >= k /\ ~ j >= k
          BY <1>2, <3>1, <3>2
        <4>2. i \in 1 .. Len(list) /\ new[j] = list[j] /\ new[i] = list[i]
          BY <1>3, <3>1, <4>1, Zenon
        <4>3. QED BY <4>2 DEF SortedOn
      <3>3. CASE i >= k /\ j < k
        <4>1. j \in 1 .. i + 1 - 1 /\ i + 1 \in 1 .. Len(list) /\ new[j] = list[j] /\ new[i] = list[i + 1]
          BY <1>3, <3>1, <3>3
        <4>2. QED BY <4>1 DEF SortedOn
      <3>4. CASE j >= k
        <4>1. j + 1 \in 1 .. i + 1 - 1 /\ i + 1 \in 1 .. Len(list) /\ new[j] = list[j + 1] /\ new[i] = list[i + 1]
          BY <1>2, <1>3, <3>1, <3>4
        <4>2. QED BY <4>1 DEF SortedOn
      <3>5. QED BY <1>1, <1>2, <3>2, <3>3, <3>4
    <2>4. QED BY <2>2, <2>3
  <1>5. \A i \in 1 .. Len(list) : i # k => list[i] # list[k]
    <2> TAKE i \in 1 .. Len(list)
    <2>1. CASE i < k
      <3>1. i \in 1 .. k - 1
        BY <1>2, <2>1
      <3>2. QED BY <3>1 DEF SortedOn
    <2>2. CASE i > k
      <3>1. k \in 1 .. i - 1
        BY <1>2, <2>2
      <3>2. QED BY <3>1 DEF SortedOn
    <2>3. QED BY <1>2, <2>1, <2>2
  <1>6. ASSUME NEW x PROVE In(x, new) <=> In(x, list) /\ x # list[k]
    <2>1. ASSUME NEW i \in 1 .. Len(new) PROVE In(new[i], list) /\ new[i] # list[k]
      BY <1>2, <1>3, <1>5 DEF In
    <2>2. ASSUME NEW i \in 1 .. Len(list), i # k PROVE In(list[i], new)
      <3>1. CASE i < k
        BY <1>1, <1>2, <3>1 DEF In
      <3>2. CASE i > k
        <4>1. i - 1 \in 1 .. Len(new) /\ i - 1 \in k .. Len(list) - 1 /\ i - 1 + 1 = i
          BY <1>1, <1>2, <3>2
        <4>2. new[i - 1] = list[i]
          BY <1>1, <4>1
        <4>3. QED BY <4>1, <4>2 DEF In
      <3>3. QED BY <1>2, <2>2, <3>1, <3>2
    <2>3. QED BY <2>1, <2>2, Zenon DEF In
  <1>7. k # 1 => new[1] = list[1]
    BY <1>1
  <1>8. QED BY <1>1, <1>4, <1>6, <1>7 DEF new

-----------------------------------------------------------------------------
WheelTypes ==
    /\ spokes_ \in [Spokes -> Seq(Timer)]
    /\ earliest_spoke_ \in Spokes
    /\ timer_count_ \in Nat

WheelInv == WheelTypes /\ WheelSorted /\ EarliestKept

\* What is on a wheel, and where.
LEMMA OnWheel ==
    ASSUME NEW w \in [Spokes -> Seq(Timer)], NEW x
    PROVE  x \in UNION {Range(w[s]) : s \in Spokes} <=> \E s \in Spokes : In(x, w[s])
  <1>1. ASSUME NEW s \in Spokes PROVE x \in Range(w[s]) <=> In(x, w[s])
    <2>1. w[s] \in Seq(Timer)
      OBVIOUS
    <2>2. DOMAIN w[s] = 1 .. Len(w[s])
      BY <2>1
    <2>3. QED BY <2>2, Zenon DEF Range, In
  <1>2. QED BY <1>1, Zenon

PlacesOf(w) == UNION {{s} \X (1 .. Len(w[s])) : s \in Spokes}

LEMMA PlaceOf ==
    ASSUME NEW w, NEW p
    PROVE  p \in PlacesOf(w) <=> \E s \in Spokes : \E i \in 1 .. Len(w[s]) : p = <<s, i>>
  BY DEF PlacesOf

\* A list that grows by one makes one more place.
LEMMA MorePlaces ==
    ASSUME NEW v \in [Spokes -> Seq(Timer)], NEW w \in [Spokes -> Seq(Timer)], NEW spoke \in Spokes,
           Len(w[spoke]) = Len(v[spoke]) + 1, \A s \in Spokes : s # spoke => w[s] = v[s]
    PROVE  /\ <<spoke, Len(w[spoke])>> \notin PlacesOf(v)
           /\ PlacesOf(w) = PlacesOf(v) \cup {<<spoke, Len(w[spoke])>>}
  <1>1. \A s \in Spokes : Len(v[s]) \in Nat /\ Len(w[s]) \in Nat
    OBVIOUS
  <1>2. <<spoke, Len(w[spoke])>> \notin PlacesOf(v)
    BY <1>1, PlaceOf
  <1>3. ASSUME NEW p \in PlacesOf(w) PROVE p \in PlacesOf(v) \/ p = <<spoke, Len(w[spoke])>>
    <2>0. PICK s \in Spokes : \E i \in 1 .. Len(w[s]) : p = <<s, i>>
      BY PlaceOf
    <2>1. PICK i \in 1 .. Len(w[s]) : p = <<s, i>>
      BY <2>0
    <2>2. CASE i \in 1 .. Len(v[s])
      BY <2>1, <2>2, PlaceOf
    <2>3. CASE i \notin 1 .. Len(v[s])
      BY <1>1, <2>1, <2>3
    <2>4. QED BY <2>2, <2>3
  <1>4. ASSUME NEW p \in PlacesOf(v) PROVE p \in PlacesOf(w)
    <2>0. PICK s \in Spokes : \E i \in 1 .. Len(v[s]) : p = <<s, i>>
      BY PlaceOf
    <2>1. PICK i \in 1 .. Len(v[s]) : p = <<s, i>>
      BY <2>0
    <2>2. i \in 1 .. Len(w[s])
      BY <1>1
    <2>3. QED BY <2>1, <2>2, PlaceOf
  <1>5. <<spoke, Len(w[spoke])>> \in PlacesOf(w)
    <2>1. Len(w[spoke]) \in 1 .. Len(w[spoke])
      BY <1>1
    <2>2. QED BY <2>1, PlaceOf
  <1>6. QED BY <1>2, <1>3, <1>4, <1>5, Zenon

\* A spoke is one of the wheel.
LEMMA SpokeType ==
    ASSUME NEW t \in Nat
    PROVE  calculate_spoke(t) \in Spokes
  BY WheelAssumption DEF calculate_spoke, Spokes

\* The first of a sorted list is not later than any of it.
LEMMA FirstOfList ==
    ASSUME NEW list \in Seq(Timer), NEW spoke, SortedOn(list, spoke), NEW x, In(x, list)
    PROVE  list # <<>> /\ Head(list) = list[1] /\ In(list[1], list) /\ list[1].value <= x.value
  <1>1. PICK i \in 1 .. Len(list) : list[i] = x
    BY DEF In
  <1>2. list # <<>> /\ Head(list) = list[1] /\ 1 \in 1 .. Len(list)
    BY <1>1
  <1>3. list[1] \in Timer
    BY <1>2
  <1>4. list[1].value \in Nat
    BY <1>3 DEF Timer
  <1>5. CASE i = 1
    BY <1>1, <1>2, <1>4, <1>5 DEF In
  <1>6. CASE i # 1
    <2>1. 1 \in 1 .. i - 1
      BY <1>6
    <2>2. list[1].value <= list[i].value
      BY <2>1 DEF SortedOn
    <2>3. QED BY <1>1, <1>2, <2>2 DEF In
  <1>7. QED BY <1>5, <1>6

\* is_empty tells the truth.
LEMMA NoneLinked ==
    ASSUME WheelInv, is_empty
    PROVE  Linked = {}
  <1>1. SUFFICES ASSUME NEW x \in Linked PROVE FALSE
    OBVIOUS
  <1>2. PICK s \in Spokes : In(x, spokes_[s])
    BY OnWheel, Zenon DEF Linked, WheelInv, WheelTypes
  <1>3. PICK i \in 1 .. Len(spokes_[s]) : spokes_[s][i] = x
    BY <1>2 DEF In
  <1>4. <<s, i>> \in PlacesOf(spokes_)
    BY PlaceOf
  <1>5. ExistsBijection(1 .. timer_count_, PlacesOf(spokes_)) /\ timer_count_ \in Nat
    BY DEF WheelInv, WheelTypes, WheelSorted, Places, PlacesOf
  <1>6. PlacesOf(spokes_) = {}
    BY <1>5, CountedNone, Zenon DEF is_empty
  <1>7. QED BY <1>4, <1>6

\* schedule_i adds the timer and keeps the wheel.
LEMMA Scheduled ==
    ASSUME WheelInv, NEW n \in Timer, n \notin Linked, schedule_i(n)
    PROVE  WheelInv' /\ Linked' = Linked \cup {n}
  <1> DEFINE spoke == calculate_spoke(n.value)
             list == spokes_[spoke]
  <1>1. n.value \in Nat
    BY DEF Timer
  <1>2. spoke \in Spokes
    BY <1>1, SpokeType
  <1>3. /\ earliest_spoke_' = IF is_empty \/ n.value < earliest_time THEN spoke ELSE earliest_spoke_
        /\ timer_count_' = timer_count_ + 1
    BY DEF schedule_i
  <1>4. PICK k \in 0 .. Len(list) : /\ Behind(list, k, n.value)
                                    /\ spokes_' = [spokes_ EXCEPT ![spoke] = Inserted(list, k, n)]
    BY Zenon DEF schedule_i
  <1> DEFINE new == Inserted(list, k, n)
  <1> HIDE DEF spoke
  <1>5. /\ spokes_ \in [Spokes -> Seq(Timer)] /\ list \in Seq(Timer)
        /\ earliest_spoke_ \in Spokes /\ timer_count_ \in Nat
    BY <1>2 DEF WheelInv, WheelTypes
  <1>6. \A x : x \in Linked <=> \E s \in Spokes : In(x, spokes_[s])
    BY <1>5, OnWheel, Zenon DEF Linked
  <1>7. /\ new \in Seq(Timer) /\ Len(new) = Len(list) + 1 /\ SortedOn(new, spoke)
        /\ \A x : In(x, new) <=> In(x, list) \/ x = n
        /\ new[1] = IF list = <<>> \/ n.value < list[1].value THEN n ELSE list[1]
    <2>1. SortedOn(list, spoke) /\ ~ In(n, list)
      BY <1>2, <1>6 DEF WheelInv, WheelSorted
    <2>2. calculate_spoke(n.value) = spoke
      BY DEF spoke
    <2> HIDE DEF list
    <2>3. QED BY <1>4, <1>5, <2>1, <2>2, InsertedSorted
  <1> HIDE DEF new
  <1>8. /\ spokes_' \in [Spokes -> Seq(Timer)] /\ spokes_'[spoke] = new
        /\ \A s \in Spokes : s # spoke => spokes_'[s] = spokes_[s]
    BY <1>2, <1>4, <1>5, <1>7, Zenon DEF new
  <1>9. WheelTypes'
    BY <1>2, <1>3, <1>5, <1>8 DEF WheelTypes
  <1>10. \A x : x \in Linked' <=> \E s \in Spokes : In(x, spokes_'[s])
    BY <1>8, OnWheel, Zenon DEF Linked
  <1>11. Linked' = Linked \cup {n}
    <2>1. ASSUME NEW x PROVE x \in Linked' <=> x \in Linked \/ x = n
      BY <1>2, <1>6, <1>7, <1>8, <1>10, Zenon
    <2>2. QED BY <2>1
  <1>12. WheelSorted'
    <2>1. \A s \in Spokes : SortedOn(spokes_'[s], s)
      BY <1>7, <1>8 DEF WheelInv, WheelSorted
    <2>2. ExistsBijection(1 .. timer_count_, PlacesOf(spokes_))
      BY DEF WheelInv, WheelSorted, Places, PlacesOf
    <2>3. /\ <<spoke, Len(new)>> \notin PlacesOf(spokes_)
          /\ PlacesOf(spokes_') = PlacesOf(spokes_) \cup {<<spoke, Len(new)>>}
      <3>1. Len(spokes_'[spoke]) = Len(spokes_[spoke]) + 1
        BY <1>7, <1>8, Zenon
      <3>2. /\ <<spoke, Len(spokes_'[spoke])>> \notin PlacesOf(spokes_)
            /\ PlacesOf(spokes_') = PlacesOf(spokes_) \cup {<<spoke, Len(spokes_'[spoke])>>}
        <4> HIDE DEF list
        <4>1. QED BY <1>2, <1>5, <1>8, <3>1, MorePlaces, Zenon
      <3>3. QED BY <1>8, <3>2, Zenon
    <2>4. ExistsBijection(1 .. timer_count_', PlacesOf(spokes_'))
      <3>1. ExistsBijection(1 .. timer_count_ + 1, PlacesOf(spokes_) \cup {<<spoke, Len(new)>>})
        BY <1>5, <2>2, <2>3, CountedMore, Zenon
      <3>2. QED BY <1>3, <2>3, <3>1, Zenon
    <2>5. QED BY <2>1, <2>4 DEF WheelSorted, Places, PlacesOf
  <1>13. EarliestKept'
    <2> DEFINE e == earliest_spoke_'
    <2>1. SUFFICES /\ spokes_'[e] # <<>>
                   /\ \A m \in Linked' : spokes_'[e][1].value <= m.value
      <3>1. e \in Spokes /\ spokes_'[e] \in Seq(Timer)
        BY <1>8, <1>9 DEF WheelTypes
      <3>2. spokes_'[e] # <<>> => Head(spokes_'[e]) = spokes_'[e][1]
        BY <3>1
      <3>3. QED BY <3>2 DEF EarliestKept, has_first, earliest_time
    <2>2. new # <<>>
      BY <1>7, <1>5
    <2>3. \A m \in Linked : m.value \in Nat
      <3>1. \A s \in Spokes : \A i \in 1 .. Len(spokes_[s]) : spokes_[s][i] \in Timer
        BY <1>5
      <3>2. \A m \in Linked : m \in Timer
        BY <1>6, <3>1 DEF In
      <3>3. QED BY <3>2 DEF Timer
    <2>4. CASE is_empty
      <3>1. Linked = {}
        BY <2>4, NoneLinked
      <3>2. list = <<>>
        <4>1. \A i \in 1 .. Len(list) : In(list[i], list)
          BY DEF In
        <4>2. 1 \notin 1 .. Len(list)
          BY <1>2, <1>6, <3>1, <4>1, Zenon
        <4>3. QED BY <1>5, <4>2
      <3>3. e = spoke /\ new[1] = n
        BY <1>3, <1>7, <2>4, <3>2
      <3>4. QED BY <1>1, <1>8, <1>11, <2>2, <3>1, <3>3
    <2>5. CASE ~ is_empty
      <3> DEFINE o == earliest_spoke_
                 first == spokes_[o][1]
      <3>1. /\ spokes_[o] # <<>> /\ earliest_time = first.value
            /\ first \in Linked /\ \A m \in Linked : first.value <= m.value
        <4>1. spokes_[o] # <<>> /\ spokes_[o] \in Seq(Timer)
          BY <1>5, <2>5 DEF WheelInv, EarliestKept, has_first
        <4>2. earliest_time = first.value /\ 1 \in 1 .. Len(spokes_[o])
          BY <4>1 DEF earliest_time, has_first
        <4>3. first \in Linked
          BY <1>5, <1>6, <4>2 DEF In
        <4>4. QED BY <2>5, <4>1, <4>2, <4>3 DEF WheelInv, EarliestKept
      <3>2. first.value \in Nat
        BY <2>3, <3>1
      <3> HIDE DEF first
      <3>3. CASE n.value < first.value
        <4>1. e = spoke
          BY <1>3, <3>1, <3>3
        <4>2. list # <<>> => n.value < list[1].value
          <5>1. list # <<>> => In(list[1], list)
            BY <1>5 DEF In
          <5>2. list # <<>> => list[1] \in Linked
            BY <1>2, <1>6, <5>1
          <5>3. QED BY <1>1, <2>3, <3>1, <3>2, <3>3, <5>2
        <4>3. new[1] = n
          BY <1>7, <4>2
        <4>4. \A m \in Linked : n.value <= m.value
          BY <1>1, <2>3, <3>1, <3>2, <3>3
        <4>5. QED BY <1>1, <1>8, <1>11, <2>2, <4>1, <4>3, <4>4
      <3>4. CASE ~ (n.value < first.value)
        <4>1. e = o
          BY <1>3, <2>5, <3>1, <3>4
        <4>2. spokes_'[o] # <<>> /\ spokes_'[o][1] = first
          <5>1. CASE o = spoke
            BY <1>7, <1>8, <2>2, <3>1, <3>4, <5>1 DEF first
          <5>2. CASE o # spoke
            BY <1>5, <1>8, <3>1, <5>2 DEF first
          <5>3. QED BY <5>1, <5>2
        <4>3. first.value <= n.value
          BY <1>1, <3>2, <3>4
        <4>4. QED BY <1>11, <3>1, <4>1, <4>2, <4>3
      <3>5. QED BY <3>3, <3>4
    <2>6. QED BY <2>4, <2>5
  <1>14. QED BY <1>9, <1>11, <1>12, <1>13 DEF WheelInv

\* The way round the wheel comes to every spoke.
LEMMA SpokeReached ==
    ASSUME NEW e \in Spokes, NEW s \in Spokes
    PROVE  \E j \in Spokes : (e + j) % spoke_count_ = s
  <1> DEFINE c == spoke_count_
  <1>1. c \in Nat \ {0} /\ e \in 0 .. c - 1 /\ s \in 0 .. c - 1 /\ Spokes = 0 .. c - 1
    BY WheelAssumption DEF Spokes
  <1> HIDE DEF c
  <1>2. CASE s >= e
    <2>1. e + (s - e) = c * 0 + s /\ s - e \in 0 .. c - 1 /\ e + (s - e) \in Int
      BY <1>1, <1>2
    <2>2. (e + (s - e)) % c = s
      BY <1>1, <2>1, Quotient
    <2>3. QED BY <1>1, <2>1, <2>2 DEF c
  <1>3. CASE s < e
    <2>1. e + (s - e + c) = c * 1 + s /\ s - e + c \in 0 .. c - 1 /\ e + (s - e + c) \in Int
      BY <1>1, <1>3
    <2>2. (e + (s - e + c)) % c = s
      BY <1>1, <2>1, Quotient
    <2>3. QED BY <1>1, <2>1, <2>2 DEF c
  <1>4. QED BY <1>1, <1>2, <1>3

\* Where the earliest of the others is, after the earliest timer was unlinked: the spoke
\* that recalc_earliest takes has it, of the near ones because of NearerSpoke.
LEMMA Recalculated ==
    ASSUME NEW last \in Nat, earliest_spoke_ \in Spokes, earliest_spoke_ = calculate_spoke(last),
           NEW w \in [Spokes -> Seq(Timer)], spokes_' = w,
           \A s \in Spokes : SortedOn(w[s], s),
           \A s \in Spokes : \A x : In(x, w[s]) => last <= x.value,
           ~ is_empty', recalc_earliest(last)
    PROVE  /\ earliest_spoke_' \in Spokes
           /\ w[earliest_spoke_'] # <<>>
           /\ \A s \in Spokes : \A x : In(x, w[s]) => w[earliest_spoke_'][1].value <= x.value
  <1> DEFINE at(i) == (earliest_spoke_ + i) % spoke_count_
             begin(i) == w[at(i)][1].value
             full == {i \in Spokes : w[at(i)] # <<>>}
             near == {i \in full : begin(i) < last + wheel_time_}
             first == {i \in full : \A j \in full : begin(i) <= begin(j)}
             taken == IF near # {} THEN near ELSE first
  <1>1. \A i \in Spokes : at(i) \in Spokes
    <2> TAKE i \in Spokes
    <2>1. spoke_count_ \in Nat \ {0} /\ earliest_spoke_ + i \in Int
      BY WheelAssumption DEF Spokes
    <2>2. \E q \in Int : \E r \in 0 .. spoke_count_ - 1 :
             /\ (earliest_spoke_ + i) \div spoke_count_ = q /\ at(i) = r
             /\ earliest_spoke_ + i = spoke_count_ * q + r
      BY <2>1, Divided, Zenon
    <2>3. QED BY <2>2, Zenon DEF Spokes
  <1>2. \A i \in Spokes : w[at(i)] # <<>> => Begins(at(i)) = begin(i)
    <2> TAKE i \in Spokes
    <2>1. w[at(i)] \in Seq(Timer)
      BY <1>1
    <2>2. w[at(i)] # <<>> => Head(w[at(i)]) = w[at(i)][1]
      BY <2>1
    <2>3. QED BY <2>2 DEF Begins
  <1>3. PICK i \in taken : (\A j \in taken : i <= j) /\ earliest_spoke_' = at(i)
    <2> DEFINE near_ == {h \in full : Begins(at(h)) < last + wheel_time_}
               first_ == {h \in full : \A j \in full : Begins(at(h)) <= Begins(at(j))}
    <2>1. near_ = near /\ first_ = first
      BY <1>2
    <2>2. \E h \in IF near_ # {} THEN near_ ELSE first_ :
             (\A j \in IF near_ # {} THEN near_ ELSE first_ : h <= j) /\ earliest_spoke_' = at(h)
      BY Zenon DEF recalc_earliest
    <2>3. QED BY <2>1, <2>2, Zenon
  <1> HIDE DEF taken, near, first, full, begin, at
  <1>4. i \in full /\ full \subseteq Spokes /\ at(i) \in Spokes
    BY <1>1, <1>3 DEF taken, near, first, full
  <1>5. \A s \in Spokes : w[s] # <<>> => 1 \in 1 .. Len(w[s]) /\ w[s][1] \in Timer
    <2> TAKE s \in Spokes
    <2>1. w[s] \in Seq(Timer)
      OBVIOUS
    <2>2. QED BY <2>1
  <1>6. \A j \in full : begin(j) \in Nat /\ last <= begin(j) /\ calculate_spoke(begin(j)) = at(j)
    <2> TAKE j \in full
    <2>1. at(j) \in Spokes /\ w[at(j)] # <<>>
      BY <1>1, <1>4 DEF full
    <2>2. 1 \in 1 .. Len(w[at(j)]) /\ w[at(j)][1] \in Timer
      BY <1>5, <2>1, Zenon
    <2>3. calculate_spoke(begin(j)) = at(j)
      BY <2>1, <2>2, Zenon DEF SortedOn, begin
    <2>4. In(w[at(j)][1], w[at(j)])
      BY <2>2, Zenon DEF In
    <2>5. begin(j) \in Nat
      BY <2>2 DEF Timer, begin
    <2>6. last <= begin(j)
      BY <2>1, <2>4, Zenon DEF begin
    <2>7. QED BY <2>3, <2>5, <2>6
  <1>7. \A j \in full : begin(i) <= begin(j)
    <2> TAKE j \in full
    <2>1. CASE near = {}
      BY <1>3, <2>1, Zenon DEF taken, first
    <2>2. CASE near # {} /\ j \notin near
      <3>1. begin(i) < last + wheel_time_ /\ ~ (begin(j) < last + wheel_time_)
        BY <1>3, <2>2, Zenon DEF taken, near
      <3>2. begin(i) \in Nat /\ begin(j) \in Nat /\ wheel_time_ \in Nat
        BY <1>4, <1>6, WheelAssumption
      <3>3. QED BY <3>1, <3>2
    <2>3. CASE j \in near
      <3>1. i \in near /\ i <= j
        BY <1>3, <2>3, Zenon DEF taken
      <3>2. begin(i) < last + wheel_time_ /\ begin(j) < last + wheel_time_
        BY <2>3, <3>1, Zenon DEF near
      <3>3. begin(i) \in Nat /\ begin(j) \in Nat /\ last <= begin(i) /\ last <= begin(j)
        BY <1>4, <1>6, Zenon
      <3>4. i \in Spokes /\ j \in Spokes /\ i \in Int /\ j \in Int
        BY <1>4 DEF Spokes
      <3>5. CASE i = j
        BY <3>3, <3>5
      <3>6. CASE i < j
        <4>1. /\ calculate_spoke(begin(i)) = (calculate_spoke(last) + i) % spoke_count_
              /\ calculate_spoke(begin(j)) = (calculate_spoke(last) + j) % spoke_count_
          BY <1>4, <1>6, Zenon DEF at
        <4>2. QED BY <3>2, <3>3, <3>4, <3>6, <4>1, NearerSpoke
      <3>7. QED BY <3>1, <3>4, <3>5, <3>6
    <2>4. QED BY <2>1, <2>2, <2>3
  <1>8. ASSUME NEW s \in Spokes, NEW x, In(x, w[s]) PROVE begin(i) <= x.value
    <2>1. PICK j \in Spokes : at(j) = s
      BY SpokeReached DEF at
    <2>2. w[s] # <<>> /\ w[s][1].value <= x.value
      BY <1>8, FirstOfList
    <2>3. j \in full /\ begin(j) <= x.value
      BY <2>1, <2>2 DEF full, begin
    <2>4. begin(i) <= begin(j) /\ begin(i) \in Nat /\ begin(j) \in Nat
      BY <1>4, <1>6, <1>7, <2>3, Zenon
    <2>5. x \in Timer
      <3>1. w[s] \in Seq(Timer)
        OBVIOUS
      <3>2. QED BY <1>8, <3>1 DEF In
    <2>6. x.value \in Nat
      BY <2>5 DEF Timer
    <2>7. QED BY <2>3, <2>4, <2>6
  <1>9. w[at(i)] # <<>>
    BY <1>4, Zenon DEF full
  <1>10. QED BY <1>3, <1>4, <1>8, <1>9, Zenon DEF begin

\* unlink takes the timer away and keeps the wheel.
LEMMA Unlinked ==
    ASSUME WheelInv, NEW spoke \in Spokes, NEW k \in 1 .. Len(spokes_[spoke]), Unlink(spoke, k)
    PROVE  /\ WheelInv'
           /\ spokes_[spoke][k] \in Linked
           /\ Linked' = Linked \ {spokes_[spoke][k]}
  <1> DEFINE list == spokes_[spoke]
             new == Removed(list, k)
             node == list[k]
             o == earliest_spoke_
  <1>1. /\ spokes_ \in [Spokes -> Seq(Timer)] /\ list \in Seq(Timer)
        /\ o \in Spokes /\ timer_count_ \in Nat /\ \A s \in Spokes : SortedOn(spokes_[s], s)
    BY DEF WheelInv, WheelTypes, WheelSorted
  <1>2. \A x : x \in Linked <=> \E s \in Spokes : In(x, spokes_[s])
    BY <1>1, OnWheel, Zenon DEF Linked
  <1>3. In(node, list) /\ node \in Linked /\ node \in Timer
    <2>1. In(node, list) /\ node \in Timer
      BY <1>1 DEF In
    <2>2. QED BY <1>2, <2>1
  <1>4. /\ new \in Seq(Timer) /\ Len(new) = Len(list) - 1 /\ SortedOn(new, spoke)
        /\ \A x : In(x, new) <=> In(x, list) /\ x # node
        /\ k # 1 => new[1] = list[1]
    BY <1>1, RemovedSorted
  <1>5. spokes_' = [spokes_ EXCEPT ![spoke] = new] /\ timer_count_' = timer_count_ - 1
    BY DEF Unlink
  <1> HIDE DEF new
  <1>6. /\ spokes_' \in [Spokes -> Seq(Timer)] /\ spokes_'[spoke] = new
        /\ \A s \in Spokes : s # spoke => spokes_'[s] = spokes_[s]
    BY <1>1, <1>4, <1>5
  <1>7. \A x : x \in Linked' <=> \E s \in Spokes : In(x, spokes_'[s])
    BY <1>6, OnWheel, Zenon DEF Linked
  <1>8. ASSUME NEW s \in Spokes, s # spoke PROVE ~ In(node, spokes_[s])
    BY <1>1, <1>3, <1>8 DEF SortedOn, In
  <1>9. Linked' = Linked \ {node}
    <2>1. ASSUME NEW x PROVE x \in Linked' <=> x \in Linked /\ x # node
      BY <1>2, <1>4, <1>6, <1>7, <1>8, Zenon
    <2>2. QED BY <2>1
  <1>10. \A s \in Spokes : SortedOn(spokes_'[s], s)
    BY <1>1, <1>4, <1>6, Zenon
  <1>11. timer_count_' \in Nat /\ ExistsBijection(1 .. timer_count_', PlacesOf(spokes_'))
    <2> DEFINE p == <<spoke, Len(list)>>
    <2>1. ExistsBijection(1 .. timer_count_, PlacesOf(spokes_))
      BY DEF WheelInv, WheelSorted, Places, PlacesOf
    <2>2. Len(list) = Len(new) + 1
      BY <1>1, <1>4
    <2>3. p \notin PlacesOf(spokes_') /\ PlacesOf(spokes_) = PlacesOf(spokes_') \cup {p}
      <3>1. /\ Len(spokes_[spoke]) = Len(spokes_'[spoke]) + 1
            /\ \A s \in Spokes : s # spoke => spokes_[s] = spokes_'[s]
        BY <1>6, <2>2
      <3>2. QED BY <1>1, <1>6, <3>1, MorePlaces, Zenon
    <2> HIDE DEF p
    <2>4. p \in PlacesOf(spokes_) /\ PlacesOf(spokes_') = PlacesOf(spokes_) \ {p}
      BY <2>3
    <2>5. timer_count_ > 0 /\ ExistsBijection(1 .. timer_count_ - 1, PlacesOf(spokes_) \ {p})
      BY <1>1, <2>1, <2>4, CountedFewer
    <2>6. timer_count_' \in Nat
      BY <1>1, <1>5, <2>5
    <2>7. QED BY <1>5, <2>4, <2>5, <2>6, Zenon
  <1>12. WheelSorted'
    BY <1>10, <1>11 DEF WheelSorted, Places, PlacesOf
  <1>13. spokes_[o] # <<>> /\ \A m \in Linked : spokes_[o][1].value <= m.value
    <2>1. ~ is_empty
      BY <1>3, NoneLinked
    <2>2. spokes_[o] \in Seq(Timer) /\ spokes_[o] # <<>>
      BY <1>1, <2>1 DEF WheelInv, EarliestKept, has_first
    <2>3. earliest_time = spokes_[o][1].value
      BY <2>2 DEF earliest_time, has_first
    <2>4. QED BY <2>1, <2>2, <2>3 DEF WheelInv, EarliestKept
  <1>14. earliest_spoke_' \in Spokes /\ (~ is_empty' => /\ spokes_'[earliest_spoke_'] # <<>>
             /\ \A m \in Linked' : spokes_'[earliest_spoke_'][1].value <= m.value)
    <2>1. CASE spoke = o /\ k = 1
      <3>1. recalc_earliest(node.value)
        BY <2>1 DEF Unlink
      <3>2. CASE is_empty'
        BY <1>1, <3>1, <3>2, Zenon DEF recalc_earliest
      <3>3. CASE ~ is_empty'
        <4>1. node.value \in Nat /\ o = calculate_spoke(node.value)
          BY <1>1, <1>3, <2>1 DEF Timer, SortedOn
        <4>2. \A s \in Spokes : \A x : In(x, spokes_'[s]) => node.value <= x.value
          BY <1>7, <1>9, <1>13, <2>1
        <4>3. /\ earliest_spoke_' \in Spokes /\ spokes_'[earliest_spoke_'] # <<>>
              /\ \A s \in Spokes : \A x : In(x, spokes_'[s]) => spokes_'[earliest_spoke_'][1].value <= x.value
          BY <1>1, <1>6, <1>10, <3>1, <3>3, <4>1, <4>2, Recalculated, Zenon
        <4>4. QED BY <1>7, <4>3, Zenon
      <3>4. QED BY <3>2, <3>3
    <2>2. CASE ~ (spoke = o /\ k = 1)
      <3>1. earliest_spoke_' = o
        BY <2>2 DEF Unlink
      <3>2. spokes_'[o] # <<>> /\ spokes_'[o][1] = spokes_[o][1]
        <4>1. CASE spoke = o
          <5>1. k > 1 /\ Len(list) > 1
            BY <1>1, <2>2, <4>1
          <5>2. new # <<>> /\ new[1] = list[1]
            BY <1>1, <1>4, <5>1
          <5>3. QED BY <1>6, <4>1, <5>2
        <4>2. CASE spoke # o
          BY <1>1, <1>6, <1>13, <4>2
        <4>3. QED BY <4>1, <4>2
      <3>3. QED BY <1>1, <1>9, <1>13, <3>1, <3>2
    <2>3. QED BY <2>1, <2>2
  <1>15. WheelTypes'
    BY <1>6, <1>11, <1>14 DEF WheelTypes
  <1>16. EarliestKept'
    <2> DEFINE e == earliest_spoke_'
    <2>1. e \in Spokes /\ spokes_'[e] \in Seq(Timer)
      BY <1>6, <1>14
    <2>2. spokes_'[e] # <<>> => Head(spokes_'[e]) = spokes_'[e][1]
      BY <2>1
    <2>3. QED BY <1>14, <2>2 DEF EarliestKept, has_first, earliest_time
  <1>17. QED BY <1>3, <1>9, <1>12, <1>15, <1>16 DEF WheelInv

-----------------------------------------------------------------------------
\* Every timer has a task of its own, which is neither new nor deleted.
Owned ==
    /\ \A m, n \in Linked : m.task = n.task => m = n
    /\ \A n \in Linked : task[n.task] \in {"used", "stopping"}
    /\ pc # "callback" => expired = NoTimer
    /\ pc = "callback" => /\ expired \in Timer
                          /\ task[expired.task] \in {"used", "stopping"}
                          /\ \A n \in Linked : n.task # expired.task

\* The timer thread goes by a time that has come, and a prompt one by the present: its
\* select ends before any timer is late.
Clocked ==
    /\ pc \in {"dispatch", "callback"} => cur_time <= timeofday
    /\ pc = "callback" => expired.value <= cur_time
    /\ prompt =>
          /\ pc \in {"dispatch", "callback"} => cur_time = timeofday
          /\ pc = "select" => /\ timeofday <= wake /\ wake <= timeofday + max_wait_time
                              /\ \A n \in Linked : wake <= n.value + max_wait_time
          /\ pc # "left" => \A n \in Linked : timeofday <= n.value + max_wait_time

TimerTypes ==
    /\ root_cnt \in [Spokes -> Nat]
    /\ timeofday \in Nat /\ wake \in Nat /\ cur_time \in Nat
    /\ task \in [Tasks -> {"new", "used", "stopping", "deleted"}]

TimerInv == WheelInv /\ TimerTypes /\ Owned /\ Clocked

\* Only timers are on the wheel.
LEMMA LinkedTimers ==
    ASSUME WheelInv
    PROVE  \A n \in Linked : n \in Timer /\ n.value \in Nat /\ n.id \in Int /\ n.task \in Tasks
  <1>1. \A s \in Spokes : \A i \in 1 .. Len(spokes_[s]) : spokes_[s][i] \in Timer
    BY DEF WheelInv, WheelTypes
  <1>2. \A n \in Linked : n \in Timer
    <2> TAKE n \in Linked
    <2>1. PICK s \in Spokes : In(n, spokes_[s])
      BY OnWheel, Zenon DEF Linked, WheelInv, WheelTypes
    <2>2. QED BY <1>1, <2>1 DEF In
  <1>3. QED BY <1>2 DEF Timer

\* What a step without the wheel leaves alone.
LEMMA WheelKept ==
    ASSUME WheelInv, UNCHANGED <<spokes_, earliest_spoke_, timer_count_>>
    PROVE  WheelInv' /\ Linked' = Linked
  <1>1. Linked' = Linked
    BY DEF Linked
  <1>2. is_empty' = is_empty /\ has_first' = has_first /\ earliest_time' = earliest_time /\ Places' = Places
    BY DEF is_empty, has_first, earliest_time, Places
  <1>3. QED BY <1>1, <1>2 DEF WheelInv, WheelTypes, WheelSorted, EarliestKept

\* The types of generate_timer_id.
LEMMA IdTypes ==
    ASSUME TimerTypes, NEW spoke \in Spokes
    PROVE  generate_timer_id(spoke).id \in Int /\ generate_timer_id(spoke).cnt \in Nat
  <1>1. \A x \in Int : ToInt(x) \in Int
    BY WheelAssumption DEF ToInt
  <1>2. spoke \in Int /\ spoke_count_ \in Int /\ root_cnt[spoke] \in Nat
    BY WheelAssumption DEF Spokes, TimerTypes
  <1>3. root_cnt[spoke] * spoke_count_ + spoke \in Int
    BY <1>2
  <1> DEFINE gen == generate_timer_id(spoke)
  <1>4. CASE root_cnt[spoke] < MaxCnt
    <2>1. gen.id = ToInt(root_cnt[spoke] * spoke_count_ + spoke) /\ gen.cnt = root_cnt[spoke] + 1
      BY <1>4 DEF generate_timer_id
    <2>2. QED BY <1>1, <1>2, <1>3, <2>1
  <1>5. CASE ~ (root_cnt[spoke] < MaxCnt) /\ spokes_[spoke] = <<>>
    <2>1. gen.id = spoke /\ gen.cnt = 1
      BY <1>5 DEF generate_timer_id
    <2>2. QED BY <1>2, <2>1
  <1>6. CASE ~ (root_cnt[spoke] < MaxCnt) /\ spokes_[spoke] # <<>>
    <2>1. gen = IdAfterOverflow(spoke)
      BY <1>6, Zenon DEF generate_timer_id
    <2>2. gen.id = -1 /\ gen.cnt = root_cnt[spoke]
      BY <2>1 DEF IdAfterOverflow
    <2>3. QED BY <1>2, <2>2
  <1>7. QED BY <1>4, <1>5, <1>6

\* A repeated timer is put at the first of its times after cur_time.
LEMMA SkippedLater ==
    ASSUME NEW v \in Nat, NEW cur \in Nat, NEW d \in Nat \ {0}
    PROVE  v + d * (1 + ((cur - v) \div d)) \in Nat /\ v + d * (1 + ((cur - v) \div d)) > cur
  <1>1. PICK q \in Int, r \in 0 .. d - 1 : (cur - v) \div d = q /\ cur - v = d * q + r
    BY Divided
  <1>2. d * (1 + q) = d + d * q
    OBVIOUS
  <1>3. v + d * (1 + q) \in Nat /\ v + d * (1 + q) > cur
    BY <1>1, <1>2
  <1>4. QED BY <1>1, <1>3

\* What addTimer does: it puts a timer with the new task on the wheel, if it has an id.
LEMMA ScheduleEffect ==
    ASSUME TimerInv, NEW t \in Tasks, NEW delay \in Delays, NEW repeat \in BOOLEAN,
           Schedule(t, delay, repeat)
    PROVE  /\ WheelInv'
           /\ \/ Linked' = Linked
              \/ \E n \in Timer : /\ n.task = t /\ n.value = timeofday + delay
                                  /\ n.id = generate_timer_id(calculate_spoke(timeofday + delay)).id
                                  /\ n \notin Linked /\ Linked' = Linked \cup {n}
  <1> DEFINE gen == generate_timer_id(calculate_spoke(timeofday + delay))
             n == [id |-> gen.id, task |-> t, value |-> timeofday + delay,
                   interval |-> IF repeat THEN delay ELSE 0]
  <1>1. delay \in Nat /\ timeofday + delay \in Nat
    BY TimerAssumption DEF TimerInv, TimerTypes
  <1>2. gen.id \in Int
    BY <1>1, SpokeType, IdTypes DEF TimerInv
  <1> HIDE DEF gen
  <1>3. n \in Timer
    BY <1>1, <1>2 DEF Timer
  <1>4. n \notin Linked
    <2>1. n.task = t /\ task[t] = "new"
      BY DEF Schedule
    <2>2. QED BY <2>1 DEF TimerInv, Owned
  <1>5. CASE gen.id # -1
    <2>1. schedule_i(n)
      BY <1>5 DEF Schedule, gen
    <2>2. WheelInv' /\ Linked' = Linked \cup {n}
      BY <1>3, <1>4, <2>1, Scheduled DEF TimerInv
    <2>3. n.task = t /\ n.value = timeofday + delay /\ n.id = gen.id
      OBVIOUS
    <2>4. QED BY <1>3, <1>4, <2>2, <2>3 DEF gen
  <1>6. CASE gen.id = -1
    BY <1>6, WheelKept, Zenon DEF Schedule, TimerInv, gen
  <1>7. QED BY <1>5, <1>6

\* What cancel_timer does: it takes a timer with the id off the wheel.
LEMMA CancelEffect ==
    ASSUME TimerInv, NEW id, Cancel(id)
    PROVE  WheelInv' /\ \E n \in Linked : n.id = id /\ Linked' = Linked \ {n}
  <1>1. PICK s \in Spokes : \E i \in 1 .. Len(spokes_[s]) : find_node(id, s, i) /\ Unlink(s, i)
    BY DEF Cancel
  <1>2. PICK i \in 1 .. Len(spokes_[s]) : find_node(id, s, i) /\ Unlink(s, i)
    BY <1>1
  <1>3. WheelInv' /\ spokes_[s][i] \in Linked /\ Linked' = Linked \ {spokes_[s][i]}
    BY <1>2, Unlinked, Zenon DEF TimerInv
  <1>4. QED BY <1>2, <1>3 DEF find_node

\* What dispatch_info_i does before the callback: it takes off the earliest timer, which
\* is due, and follows no null pointer.
LEMMA DispatchEffect ==
    ASSUME TimerInv, Dispatch
    PROVE  /\ WheelInv' /\ UNCHANGED crashed
           /\ expired' \in Linked /\ Linked' = Linked \ {expired'}
           /\ expired'.value <= cur_time /\ \A m \in Linked : expired'.value <= m.value
  <1> DEFINE e == earliest_spoke_
  <1>1. WheelInv /\ e \in Spokes /\ spokes_[e] \in Seq(Timer)
    BY DEF TimerInv, WheelInv, WheelTypes
  <1>2. has_first /\ \A m \in Linked : earliest_time <= m.value
    BY <1>1 DEF Dispatch, WheelInv, EarliestKept
  <1>3. spokes_[e] # <<>> /\ Head(spokes_[e]) = spokes_[e][1] /\ 1 \in 1 .. Len(spokes_[e])
    BY <1>1, <1>2 DEF has_first
  <1>4. /\ expired' = spokes_[e][1] /\ Unlink(e, 1) /\ UNCHANGED crashed
        /\ earliest_time = spokes_[e][1].value /\ earliest_time <= cur_time
    BY <1>2, <1>3, Zenon DEF Dispatch, earliest_time
  <1>5. WheelInv' /\ spokes_[e][1] \in Linked /\ Linked' = Linked \ {spokes_[e][1]}
    BY <1>1, <1>3, <1>4, Unlinked, Zenon
  <1>6. QED BY <1>2, <1>4, <1>5

\* What dispatch_info_i does after the callback: it puts a repeated timer back at a time
\* after cur_time, unless its task is to be deleted.
LEMMA ReturnEffect ==
    ASSUME TimerInv, CallbackReturns
    PROVE  /\ WheelInv'
           /\ \/ Linked' = Linked /\ (task' = task \/ task' = [task EXCEPT ![expired.task] = "deleted"])
              \/ \E n \in Timer : /\ n.task = expired.task /\ n.id = expired.id /\ n.value > cur_time
                                  /\ n \notin Linked /\ Linked' = Linked \cup {n} /\ task' = task
  <1>1. /\ pc = "callback" /\ expired \in Timer /\ cur_time \in Nat
        /\ \A n \in Linked : n.task # expired.task
    BY DEF TimerInv, Owned, TimerTypes, CallbackReturns
  <1>2. CASE expired.interval > 0 /\ task[expired.task] # "stopping"
    <2> DEFINE n == Skipped(expired)
               v == expired.value + expired.interval * (1 + ((cur_time - expired.value) \div expired.interval))
    <2>1. expired.value \in Nat /\ expired.interval \in Nat \ {0} /\ expired.id \in Int /\ expired.task \in Tasks
      BY <1>1, <1>2 DEF Timer
    <2>2. v \in Nat /\ v > cur_time
      BY <1>1, <2>1, SkippedLater, Zenon
    <2>3. n = [expired EXCEPT !.value = v]
      BY DEF Skipped
    <2> HIDE DEF n, v
    <2>4. /\ n \in Timer /\ n.task = expired.task /\ n.id = expired.id /\ n.value = v
      BY <1>1, <2>1, <2>2, <2>3 DEF Timer
    <2>5. n \notin Linked
      BY <1>1, <2>4
    <2>6. schedule_i(n) /\ task' = task
      BY <1>2 DEF CallbackReturns, n
    <2>7. WheelInv' /\ Linked' = Linked \cup {n}
      BY <2>4, <2>5, <2>6, Scheduled DEF TimerInv
    <2>8. QED BY <2>2, <2>4, <2>5, <2>6, <2>7
  <1>3. CASE ~ (expired.interval > 0 /\ task[expired.task] # "stopping")
    <2>1. /\ UNCHANGED <<spokes_, earliest_spoke_, timer_count_>>
          /\ task' = task \/ task' = [task EXCEPT ![expired.task] = "deleted"]
      BY <1>3 DEF CallbackReturns
    <2>2. QED BY <2>1, WheelKept DEF TimerInv
  <1>4. QED BY <1>2, <1>3

-----------------------------------------------------------------------------
LEMMA TimerStarts == TimerInit => TimerInv
  <1> SUFFICES ASSUME TimerInit PROVE TimerInv
    OBVIOUS
  <1>1. /\ spokes_ = [s \in Spokes |-> <<>>] /\ earliest_spoke_ = 0 /\ timer_count_ = 0
        /\ root_cnt = [s \in Spokes |-> 0]
    BY DEF TimerInit, Wheel
  <1>2. spokes_ \in [Spokes -> Seq(Timer)] /\ earliest_spoke_ \in Spokes /\ timer_count_ \in Nat
    BY <1>1, WheelAssumption DEF Spokes
  <1>3. \A s \in Spokes : SortedOn(spokes_[s], s)
    BY <1>1 DEF SortedOn
  <1>4. Places = {}
    BY <1>1 DEF Places
  <1>5. ExistsBijection(1 .. timer_count_, Places)
    <2>1. [i \in 1 .. 0 |-> i] \in Bijection(1 .. 0, {})
      BY DEF Bijection, Injection, Surjection, IsInjective
    <2>2. QED BY <1>1, <1>4, <2>1 DEF ExistsBijection
  <1>6. Linked = {}
    BY <1>1 DEF Linked, Range
  <1>7. WheelInv
    BY <1>1, <1>2, <1>3, <1>5 DEF WheelInv, WheelTypes, WheelSorted, EarliestKept, is_empty
  <1>8. TimerTypes
    BY <1>1 DEF TimerTypes, TimerInit
  <1>9. Owned /\ Clocked
    BY <1>6, TimerAssumption DEF Owned, Clocked, TimerInit
  <1>10. QED BY <1>7, <1>8, <1>9 DEF TimerInv

\* Every step of the timer thread and its callers keeps the inductive invariant.
LEMMA TimerSteps == TimerInv /\ [TimerNext]_timerVars => TimerInv'
  <1> SUFFICES ASSUME TimerInv, [TimerNext]_timerVars PROVE TimerInv'
    OBVIOUS
  <1>1. CASE UNCHANGED timerVars
    <2>1. /\ UNCHANGED <<spokes_, earliest_spoke_, timer_count_>>
          /\ UNCHANGED <<root_cnt, task, timeofday, pc, wake, cur_time, expired, prompt>>
      BY <1>1 DEF timerVars, wheelVars, runVars
    <2>2. WheelInv' /\ Linked' = Linked
      BY <2>1, WheelKept DEF TimerInv
    <2>3. QED BY <2>1, <2>2, Zenon DEF TimerInv, TimerTypes, Owned, Clocked
  <1>2. ASSUME NEW t \in Tasks, NEW delay \in Delays, NEW repeat \in BOOLEAN, Schedule(t, delay, repeat)
        PROVE  TimerInv'
    <2>. USE <1>2
    <2> DEFINE spoke == calculate_spoke(timeofday + delay)
    <2>1. WheelInv'
      BY ScheduleEffect, Zenon
    <2>2. delay \in Nat /\ timeofday \in Nat /\ timeofday + delay \in Nat /\ max_wait_time \in Nat
      BY TimerAssumption DEF TimerInv, TimerTypes
    <2>3. /\ task[t] = "new" /\ task' = [task EXCEPT ![t] = "used"]
          /\ root_cnt' = [root_cnt EXCEPT ![spoke] = generate_timer_id(spoke).cnt]
          /\ UNCHANGED <<timeofday, pc, wake, cur_time, expired, prompt>>
      BY DEF Schedule, runVars
    <2>4. task \in [Tasks -> {"new", "used", "stopping", "deleted"}]
      BY DEF TimerInv, TimerTypes
    <2>5. TimerTypes'
      <3>1. generate_timer_id(spoke).cnt \in Nat
        BY <2>2, SpokeType, IdTypes DEF TimerInv
      <3>2. QED BY <2>3, <2>4, <3>1, Zenon DEF TimerInv, TimerTypes
    <2>6. \A n \in Linked : n.task \in Tasks /\ n.task # t /\ task'[n.task] \in {"used", "stopping"}
      BY <2>3, <2>4, LinkedTimers DEF TimerInv, Owned
    <2>7. pc = "callback" => /\ expired \in Timer /\ expired.task # t
                             /\ task'[expired.task] \in {"used", "stopping"}
      <3>1. \A x \in Timer : x.task \in Tasks
        BY DEF Timer
      <3>2. QED BY <2>3, <2>4, <3>1, Zenon DEF TimerInv, Owned
    <2>8. task'[t] = "used"
      BY <2>3, <2>4
    <2>9. CASE Linked' = Linked
      BY <2>1, <2>3, <2>5, <2>6, <2>7, <2>9, Zenon DEF TimerInv, Owned, Clocked
    <2>10. ASSUME NEW n \in Timer, n.task = t, n.value = timeofday + delay, Linked' = Linked \cup {n}
           PROVE  TimerInv'
      <3>1. Owned'
        BY <2>3, <2>6, <2>7, <2>8, <2>10, Zenon DEF TimerInv, Owned
      <3>2. Clocked'
        <4>1. timeofday <= n.value + max_wait_time
          BY <2>2, <2>10
        <4>2. wake \in Nat /\ wake <= timeofday + max_wait_time => wake <= n.value + max_wait_time
          BY <2>2, <2>10
        <4>3. wake \in Nat
          BY DEF TimerInv, TimerTypes
        <4>4. QED BY <2>3, <2>10, <4>1, <4>2, <4>3 DEF TimerInv, Clocked
      <3>3. QED BY <2>1, <2>5, <3>1, <3>2 DEF TimerInv
    <2>11. QED BY <2>9, <2>10, ScheduleEffect, Zenon
  <1>3. ASSUME NEW n \in Linked, Cancel(n.id) PROVE TimerInv'
    <2>. USE <1>3
    <2>1. WheelInv' /\ Linked' \subseteq Linked
      BY CancelEffect
    <2>2. UNCHANGED <<root_cnt, task, timeofday, pc, wake, cur_time, expired, prompt>>
      BY DEF Cancel, runVars
    <2>3. TimerTypes'
      BY <2>2 DEF TimerInv, TimerTypes
    <2>4. Owned'
      BY <2>1, <2>2, Zenon DEF TimerInv, Owned
    <2>5. Clocked'
      BY <2>1, <2>2 DEF TimerInv, Clocked
    <2>6. QED BY <2>1, <2>3, <2>4, <2>5 DEF TimerInv
  <1>4. ASSUME NEW t \in Tasks, StopRepeated(t) PROVE TimerInv'
    <2>. USE <1>4
    <2>1. WheelInv' /\ Linked' = Linked
      BY WheelKept DEF TimerInv, StopRepeated, wheelVars
    <2>2. /\ UNCHANGED <<root_cnt, timeofday, pc, wake, cur_time, expired, prompt>>
          /\ task' = [task EXCEPT ![t] = "stopping"]
      BY DEF StopRepeated, wheelVars, runVars
    <2>3. TimerTypes'
      BY <2>2 DEF TimerInv, TimerTypes
    <2>4. \A x \in Timer : x.task \in Tasks
      BY DEF Timer
    <2>5. \A n \in Linked : n.task \in Tasks
      BY LinkedTimers DEF TimerInv
    <2>6. Owned'
      BY <2>1, <2>2, <2>4, <2>5, Zenon DEF TimerInv, Owned, TimerTypes
    <2>7. Clocked'
      BY <2>1, <2>2 DEF TimerInv, Clocked
    <2>8. QED BY <2>1, <2>3, <2>6, <2>7 DEF TimerInv
  \* The steps that touch neither the wheel nor a task.
  <1>5. CASE StopTimer \/ TimePasses \/ RunLeave \/ ExpireDone
    <2>. USE <1>5
    <2>1. UNCHANGED <<spokes_, earliest_spoke_, timer_count_, root_cnt, task, expired, prompt>>
      BY DEF StopTimer, TimePasses, RunLeave, ExpireDone, wheelVars, runVars
    <2>2. WheelInv' /\ Linked' = Linked
      BY <2>1, WheelKept DEF TimerInv
    <2>3. \A n \in Linked : n.value \in Nat
      BY LinkedTimers DEF TimerInv
    <2>4. timeofday \in Nat /\ wake \in Nat /\ cur_time \in Nat /\ max_wait_time \in Nat
      BY TimerAssumption DEF TimerInv, TimerTypes
    <2>5. TimerTypes'
      BY <2>1, <2>4 DEF TimerInv, TimerTypes, StopTimer, TimePasses, RunLeave, ExpireDone, runVars
    <2>6. Owned'
      BY <2>1, <2>2, Zenon DEF TimerInv, Owned, StopTimer, TimePasses, RunLeave, ExpireDone, runVars
    <2>7. Clocked'
      <3>1. CASE StopTimer
        BY <2>1, <2>2, <3>1 DEF TimerInv, Clocked, StopTimer, runVars
      <3>2. CASE TimePasses
        <4>1. /\ timeofday' = timeofday + 1 /\ UNCHANGED <<pc, wake, cur_time>>
              /\ prompt => pc = "select" /\ timeofday < wake
          BY <3>2 DEF TimePasses, runVars
        <4>2. pc \in {"dispatch", "callback"} => cur_time <= timeofday + 1
          BY <2>4 DEF TimerInv, Clocked
        <4>3. CASE ~ prompt
          BY <2>1, <4>1, <4>2, <4>3 DEF TimerInv, Clocked
        <4>4. CASE prompt
          <5>1. /\ pc = "select" /\ timeofday + 1 <= wake /\ wake <= timeofday + 1 + max_wait_time
                /\ \A n \in Linked : wake <= n.value + max_wait_time
            BY <2>4, <4>1, <4>4 DEF TimerInv, Clocked
          <5>2. \A n \in Linked : timeofday + 1 <= n.value + max_wait_time
            BY <2>3, <2>4, <5>1
          <5>3. QED BY <2>1, <2>2, <4>1, <5>1, <5>2 DEF Clocked
        <4>5. QED BY <4>3, <4>4
      <3>3. CASE RunLeave
        BY <2>1, <3>3 DEF RunLeave, Clocked
      <3>4. CASE ExpireDone
        BY <2>1, <2>2, <3>4 DEF TimerInv, ExpireDone, Clocked
      <3>5. QED BY <3>1, <3>2, <3>3, <3>4
    <2>8. QED BY <2>2, <2>5, <2>6, <2>7 DEF TimerInv
  \* The select of Timer::run ends before a timer on the wheel is late, and so soon that
  \* no timer added meanwhile can be.
  <1>6. CASE RunSelect
    <2>. USE <1>6
    <2>1. WheelInv' /\ Linked' = Linked
      BY WheelKept DEF TimerInv, RunSelect, wheelVars
    <2>2. /\ UNCHANGED <<root_cnt, task, timeofday, cur_time, expired, prompt>>
          /\ pc = "loop" /\ pc' = "select" /\ wake' = timeofday + calculate_timeout
      BY DEF RunSelect, wheelVars
    <2>3. \A n \in Linked : n.value \in Nat
      BY LinkedTimers DEF TimerInv
    <2>4. timeofday \in Nat /\ max_wait_time \in Nat
      BY TimerAssumption DEF TimerInv, TimerTypes
    <2>5. /\ calculate_timeout \in Nat /\ calculate_timeout <= max_wait_time
          /\ \A n \in Linked : \/ timeofday + calculate_timeout <= n.value
                               \/ calculate_timeout = 0
      <3>1. CASE is_empty
        BY <2>4, <3>1, NoneLinked DEF calculate_timeout, TimerInv
      <3>2. CASE ~ is_empty
        <4>1. earliest_time \in Nat /\ \A n \in Linked : earliest_time <= n.value
          <5>1. has_first /\ \A n \in Linked : earliest_time <= n.value
            BY <3>2 DEF TimerInv, WheelInv, EarliestKept
          <5>2. Head(spokes_[earliest_spoke_]) \in Timer
            BY <5>1 DEF TimerInv, WheelInv, WheelTypes, has_first
          <5>3. QED BY <5>1, <5>2 DEF earliest_time, Timer
        <4>2. QED BY <2>3, <2>4, <3>2, <4>1 DEF calculate_timeout
      <3>3. QED BY <3>1, <3>2
    <2>6. TimerTypes'
      BY <2>2, <2>4, <2>5 DEF TimerInv, TimerTypes
    <2>7. Owned'
      BY <2>1, <2>2 DEF TimerInv, Owned
    <2>8. Clocked'
      <3>1. ASSUME prompt
            PROVE  /\ timeofday <= wake' /\ wake' <= timeofday + max_wait_time
                   /\ \A n \in Linked : wake' <= n.value + max_wait_time
        BY <2>2, <2>3, <2>4, <2>5, <3>1 DEF TimerInv, Clocked
      <3>2. QED BY <2>1, <2>2, <3>1 DEF TimerInv, Clocked
    <2>9. QED BY <2>1, <2>6, <2>7, <2>8 DEF TimerInv
  <1>7. CASE Expire
    <2>. USE <1>7
    <2>1. WheelInv' /\ Linked' = Linked
      BY WheelKept DEF TimerInv, Expire, wheelVars
    <2>2. /\ UNCHANGED <<root_cnt, task, timeofday, expired, prompt>> /\ pc = "select"
          /\ \/ pc' = "loop" /\ cur_time' = 0
             \/ pc' = "dispatch" /\ cur_time' = timeofday
          /\ wake' = 0
      BY DEF Expire, wheelVars
    <2>3. timeofday \in Nat
      BY DEF TimerInv, TimerTypes
    <2>4. TimerTypes'
      BY <2>2, <2>3 DEF TimerInv, TimerTypes
    <2>5. Owned'
      BY <2>1, <2>2 DEF TimerInv, Owned
    <2>6. Clocked'
      BY <2>1, <2>2, <2>3 DEF TimerInv, Clocked
    <2>7. QED BY <2>1, <2>4, <2>5, <2>6 DEF TimerInv
  <1>8. CASE Dispatch
    <2>. USE <1>8
    <2>1. /\ WheelInv' /\ expired' \in Linked /\ Linked' = Linked \ {expired'}
          /\ expired'.value <= cur_time
      BY DispatchEffect
    <2>2. /\ UNCHANGED <<root_cnt, task, timeofday, wake, cur_time, prompt>>
          /\ pc = "dispatch" /\ pc' = "callback"
      BY DEF Dispatch
    <2>3. expired' \in Timer
      BY <2>1, LinkedTimers DEF TimerInv
    <2>4. TimerTypes'
      BY <2>2 DEF TimerInv, TimerTypes
    <2>5. Owned'
      BY <2>1, <2>2, <2>3, Zenon DEF TimerInv, Owned
    <2>6. Clocked'
      BY <2>1, <2>2 DEF TimerInv, Clocked
    <2>7. QED BY <2>1, <2>4, <2>5, <2>6 DEF TimerInv
  <1>9. CASE CallbackReturns
    <2>. USE <1>9
    <2>1. /\ UNCHANGED <<root_cnt, timeofday, wake, cur_time, prompt>>
          /\ pc = "callback" /\ pc' = "dispatch" /\ expired' = NoTimer
      BY DEF CallbackReturns
    <2>2. /\ expired \in Timer /\ expired.task \in Tasks /\ task[expired.task] \in {"used", "stopping"}
          /\ \A n \in Linked : n.task # expired.task
      BY <2>1 DEF TimerInv, Owned, Timer
    <2>3. /\ timeofday \in Nat /\ cur_time \in Nat /\ max_wait_time \in Nat
          /\ task \in [Tasks -> {"new", "used", "stopping", "deleted"}]
      BY TimerAssumption DEF TimerInv, TimerTypes
    <2>4. CASE Linked' = Linked /\ (task' = task \/ task' = [task EXCEPT ![expired.task] = "deleted"])
      <3>1. \A n \in Linked : n.task \in Tasks
        BY LinkedTimers DEF TimerInv
      <3>2. TimerTypes'
        BY <2>1, <2>2, <2>3, <2>4 DEF TimerInv, TimerTypes
      <3>3. \A n \in Linked : task'[n.task] = task[n.task]
        BY <2>2, <2>3, <2>4, <3>1
      <3>4. Owned'
        BY <2>1, <2>4, <3>3 DEF TimerInv, Owned
      <3>5. Clocked'
        BY <2>1, <2>4 DEF TimerInv, Clocked
      <3>6. QED BY <3>2, <3>4, <3>5, ReturnEffect DEF TimerInv
    <2>5. ASSUME NEW n \in Timer, n.task = expired.task, n.value > cur_time,
                 Linked' = Linked \cup {n}, task' = task
          PROVE  TimerInv'
      <3>1. TimerTypes'
        BY <2>1, <2>5 DEF TimerInv, TimerTypes
      <3>2. Owned'
        BY <2>1, <2>2, <2>5, Zenon DEF TimerInv, Owned
      <3>3. n.value \in Nat
        BY DEF Timer
      <3>4. Clocked'
        BY <2>1, <2>3, <2>5, <3>3 DEF TimerInv, Clocked
      <3>5. QED BY <3>1, <3>2, <3>4, ReturnEffect DEF TimerInv
    <2>6. QED BY <2>4, <2>5, ReturnEffect
  <1>10. QED BY <1>1, <1>2, <1>3, <1>4, <1>5, <1>6, <1>7, <1>8, <1>9 DEF TimerNext, TimerThread

LEMMA TimerInvariant == TimerSpec => []TimerInv
  BY TimerStarts, TimerSteps, PTL DEF TimerSpec

\* A prompt timer thread fires no timer later than one longest select of Timer::run after
\* it was due, whatever timers other threads and callbacks add and cancel while it waits
\* and although addTimer does not wake it.
THEOREM TimersPunctual == TimerSpec => []LateBound
  <1>1. TimerInv => LateBound
    <2> SUFFICES ASSUME TimerInv, prompt, pc # "left", NEW n \in Linked
                 PROVE  timeofday - n.value <= max_wait_time
      BY DEF LateBound
    <2>1. n.value \in Nat /\ timeofday \in Nat /\ max_wait_time \in Nat
      BY LinkedTimers, TimerAssumption DEF TimerInv, TimerTypes
    <2>2. timeofday <= n.value + max_wait_time
      BY DEF TimerInv, Clocked
    <2>3. QED BY <2>1, <2>2
  <1>2. QED BY <1>1, TimerInvariant, PTL

\* For every wheel, delays and callers: the wheel with its thread fires the earliest due
\* timer and no other, and a repeated timer comes back at a time after the one that
\* expire() goes by, so that it does not fire twice in one expire().
THEOREM TimersFire == TimerSpec => FiresAsPromised
  <1>1. TimerInit => Abstract!Init
    <2> SUFFICES ASSUME TimerInit PROVE Abstract!Init
      OBVIOUS
    <2>1. Linked = {}
      BY DEF TimerInit, Wheel, Linked, Range
    <2>2. QED BY <2>1 DEF TimerInit, Firing, Abstract!Init
  <1>2. TimerInv /\ [TimerNext]_timerVars => [Abstract!Next]_<<Linked, Firing, timeofday>>
    <2> SUFFICES ASSUME TimerInv, [TimerNext]_timerVars
                 PROVE  [Abstract!Next]_<<Linked, Firing, timeofday>>
      OBVIOUS
    <2>1. CASE UNCHANGED timerVars
      <3>1. UNCHANGED <<spokes_, earliest_spoke_, timer_count_, pc, expired, timeofday>>
        BY <2>1 DEF timerVars, wheelVars, runVars
      <3>2. QED BY <3>1, WheelKept DEF TimerInv, Firing
    <2>2. ASSUME NEW t \in Tasks, NEW delay \in Delays, NEW repeat \in BOOLEAN, Schedule(t, delay, repeat)
          PROVE  [Abstract!Next]_<<Linked, Firing, timeofday>>
      <3>1. UNCHANGED <<Firing, timeofday>>
        BY <2>2 DEF Schedule, runVars, Firing
      <3>2. CASE Linked' = Linked
        BY <3>1, <3>2
      <3>3. ASSUME NEW n, n \notin Linked, Linked' = Linked \cup {n}
            PROVE  Abstract!Next
        BY <3>1, <3>3 DEF Abstract!Next, Abstract!Add
      <3>4. QED BY <2>2, <3>2, <3>3, ScheduleEffect
    <2>3. ASSUME NEW m \in Linked, Cancel(m.id)
          PROVE  [Abstract!Next]_<<Linked, Firing, timeofday>>
      <3>1. UNCHANGED <<Firing, timeofday>>
        BY <2>3 DEF Cancel, runVars, Firing
      <3>2. PICK n \in Linked : Linked' = Linked \ {n}
        BY <2>3, CancelEffect
      <3>3. QED BY <3>1, <3>2 DEF Abstract!Next, Abstract!Remove
    <2>4. CASE TimePasses
      <3>1. Linked' = Linked /\ UNCHANGED Firing /\ timeofday' > timeofday
        BY <2>4, WheelKept DEF TimePasses, wheelVars, runVars, Firing, TimerInv, TimerTypes
      <3>2. QED BY <3>1 DEF Abstract!Next, Abstract!Pass
    <2>5. CASE (\E t \in Tasks : StopRepeated(t)) \/ StopTimer \/ RunSelect \/ RunLeave \/ Expire \/ ExpireDone
      <3>1. UNCHANGED <<spokes_, earliest_spoke_, timer_count_, expired, timeofday>>
        BY <2>5, Zenon DEF StopRepeated, StopTimer, RunSelect, RunLeave, Expire, ExpireDone, wheelVars, runVars
      <3>2. UNCHANGED Firing
        BY <2>5, <3>1, Zenon DEF StopRepeated, StopTimer, RunSelect, RunLeave, Expire, ExpireDone, runVars, Firing
      <3>3. QED BY <3>1, <3>2, WheelKept DEF TimerInv
    <2>6. CASE Dispatch
      <3>1. /\ expired' \in Linked /\ Linked' = Linked \ {expired'}
            /\ expired'.value <= cur_time /\ \A m \in Linked : expired'.value <= m.value
        BY <2>6, DispatchEffect
      <3>2. pc = "dispatch" /\ pc' = "callback" /\ UNCHANGED timeofday
        BY <2>6 DEF Dispatch
      <3>3. expired'.value <= timeofday
        <4>1. expired'.value \in Nat
          BY <3>1, LinkedTimers DEF TimerInv
        <4>2. QED BY <3>1, <3>2, <4>1 DEF TimerInv, TimerTypes, Clocked
      <3>4. Abstract!Fire(expired')
        BY <3>1, <3>2, <3>3 DEF Abstract!Fire, Firing
      <3>5. QED BY <3>1, <3>4 DEF Abstract!Next
    <2>7. CASE CallbackReturns
      <3>1. Firing = {expired} /\ Firing' = {} /\ UNCHANGED timeofday
        BY <2>7 DEF CallbackReturns, Firing
      <3>2. CASE Linked' = Linked
        BY <3>1, <3>2 DEF Abstract!Next, Abstract!Finish
      <3>3. ASSUME NEW n \in Timer, n.id = expired.id, n.value > cur_time, Linked' = Linked \cup {n}
            PROVE  Abstract!Next
        <4>1. expired \in Timer /\ expired.value <= cur_time /\ cur_time \in Nat
          BY <2>7, Zenon DEF TimerInv, TimerTypes, Owned, Clocked, CallbackReturns
        <4>2. n.value > expired.value
          BY <3>3, <4>1 DEF Timer
        <4>3. Abstract!Repeat(expired, n)
          BY <3>1, <3>3, <4>2 DEF Abstract!Repeat
        <4>4. QED BY <3>1, <3>3, <4>3, Zenon DEF Abstract!Next
      <3>4. QED BY <2>7, <3>2, <3>3, ReturnEffect
    <2>8. QED BY <2>1, <2>2, <2>3, <2>4, <2>5, <2>6, <2>7 DEF TimerNext, TimerThread
  <1>3. TimerInv /\ [TimerNext]_timerVars
           => [pc = "callback" /\ pc' = "dispatch" => \A n \in Linked' \ Linked : n.value > cur_time]_timerVars
    <2> SUFFICES ASSUME TimerInv, TimerNext, pc = "callback", pc' = "dispatch"
                 PROVE  \A n \in Linked' \ Linked : n.value > cur_time
      OBVIOUS
    <2>1. CallbackReturns
      BY Zenon DEF TimerNext, TimerThread, Schedule, Cancel, StopRepeated, StopTimer, TimePasses,
             RunSelect, RunLeave, Expire, ExpireDone, Dispatch, runVars
    <2>2. QED BY <2>1, ReturnEffect
  <1>4. QED BY <1>1, <1>2, <1>3, TimerInvariant, PTL
         DEF TimerSpec, FiresAsPromised, ImplementsTimerSet, SkipsPast, Abstract!Spec

-----------------------------------------------------------------------------
\* The id that the counter k of a spoke gives, and the number that is narrowed to int.
Number(spoke, k) == k * spoke_count_ + spoke
IdOf(spoke, k) == ToInt(Number(spoke, k))

\* As long as the counters fit, different counters give different ids.
Fits(k) == (k + 1) * spoke_count_ < 2 ^ IntBits

LEMMA IdsDiffer ==
    ASSUME NEW s \in Spokes, NEW r \in Spokes, NEW k \in Nat, NEW l \in Nat, Fits(k), Fits(l)
    PROVE  (IdOf(s, k) = IdOf(r, l) => s = r /\ k = l) /\ IdOf(s, k) # -1
  \* A number below the range of int is not cut so that it meets another, or -1.
  <1>ToIntApart. ASSUME NEW x \in Nat, NEW y \in Nat, x + 1 < 2 ^ IntBits, y + 1 < 2 ^ IntBits
                 PROVE  (ToInt(x) = ToInt(y) => x = y) /\ ToInt(x) # -1
    <2> DEFINE m == 2 ^ IntBits
               h == 2 ^ (IntBits - 1)
    <2>1. m \in Nat \ {0} /\ h \in Nat /\ x \in Nat /\ y \in Nat /\ x + 1 < m /\ y + 1 < m
      BY <1>ToIntApart, WheelAssumption
    <2>2. ToInt(x) = ((x + h) % m) - h /\ ToInt(y) = ((y + h) % m) - h
      BY DEF ToInt
    <2> HIDE DEF m, h
    <2>3. PICK p \in Int, t1 \in 0 .. m - 1 : (x + h) % m = t1 /\ x + h = m * p + t1
      <3> DEFINE n == x + h
      <3>1. m \in Nat \ {0} /\ n \in Int
        BY <2>1
      <3> HIDE DEF n
      <3>2. \E i \in Int : \E j \in 0 .. m - 1 : n \div m = i /\ n % m = j /\ n = m * i + j
        BY <3>1, Divided, Zenon
      <3>3. QED BY <3>2 DEF n
    <2>4. PICK q \in Int, t2 \in 0 .. m - 1 : (y + h) % m = t2 /\ y + h = m * q + t2
      <3> DEFINE n == y + h
      <3>1. m \in Nat \ {0} /\ n \in Int
        BY <2>1
      <3> HIDE DEF n
      <3>2. \E i \in Int : \E j \in 0 .. m - 1 : n \div m = i /\ n % m = j /\ n = m * i + j
        BY <3>1, Divided, Zenon
      <3>3. QED BY <3>2 DEF n
    <2>5. ASSUME NEW z \in Int, m * z < m, m * z > -m PROVE z = 0
      <3>1. CASE z >= 1
        <4>1. m * z >= m
          BY <2>1, <3>1
        <4>2. QED BY <2>1, <2>5, <4>1
      <3>2. CASE z <= -1
        <4>1. m * z <= -m
          BY <2>1, <3>2
        <4>2. QED BY <2>1, <2>5, <4>1
      <3>3. QED BY <3>1, <3>2
    <2>6. ASSUME ToInt(x) = ToInt(y) PROVE x = y
      <3>1. t1 = t2
        BY <2>1, <2>2, <2>3, <2>4, <2>6
      <3>2. m * (p - q) = x - y
        BY <2>1, <2>3, <2>4, <3>1
      <3>3. m * (p - q) < m /\ m * (p - q) > -m /\ p - q \in Int
        BY <2>1, <3>2
      <3>4. p - q = 0
        BY <2>5, <3>3
      <3>5. QED BY <2>1, <3>2, <3>4
    <2>7. ToInt(x) # -1
      <3>1. SUFFICES ASSUME t1 = h - 1 PROVE FALSE
        BY <2>1, <2>2, <2>3
      <3>2. m * p = x + 1
        BY <2>1, <2>3, <3>1
      <3>3. m * p < m /\ m * p > -m
        BY <2>1, <3>2
      <3>4. p = 0
        BY <2>5, <3>3
      <3>5. QED BY <2>1, <3>2, <3>4
    <2>8. QED BY <2>6, <2>7
  \* Spoke and counter are found from the number.
  <1>NumberApart. ASSUME NEW u \in Spokes, NEW v \in Spokes, NEW i \in Nat, NEW j \in Nat, Number(u, i) = Number(v, j)
                  PROVE  u = v /\ i = j
    <2>. USE <1>NumberApart
    <2> DEFINE c == spoke_count_
    <2>1. c \in Nat \ {0} /\ u \in 0 .. c - 1 /\ v \in 0 .. c - 1 /\ i * c + u = j * c + v
      BY WheelAssumption DEF Spokes, Number
    <2> HIDE DEF c
    <2>2. c * (i - j) = v - u
      BY <2>1
    <2>3. CASE i - j >= 1
      <3>1. c * (i - j) >= c
        BY <2>1, <2>3
      <3>2. QED BY <2>1, <2>2, <3>1
    <2>4. CASE i - j <= -1
      <3>1. c * (i - j) <= -c
        BY <2>1, <2>4
      <3>2. QED BY <2>1, <2>2, <3>1
    <2>5. CASE i = j
      BY <2>1, <2>5
    <2>6. QED BY <2>3, <2>4, <2>5
  <1>1. ASSUME NEW j \in Nat, Fits(j), NEW u \in Spokes
        PROVE  Number(u, j) \in Nat /\ Number(u, j) + 1 < 2 ^ IntBits
    <2> DEFINE c == spoke_count_
               m == 2 ^ IntBits
    <2>1. c \in Nat \ {0} /\ m \in Nat /\ u \in 0 .. c - 1 /\ (j + 1) * c < m
      BY <1>1, WheelAssumption DEF Spokes, Fits
    <2>2. (j + 1) * c = j * c + c /\ j * c \in Nat
      BY <2>1
    <2>3. j * c + u \in Nat /\ j * c + u + 1 < m
      <3> HIDE DEF c, m
      <3>1. QED BY <2>1, <2>2
    <2>4. QED BY <2>3 DEF Number
  <1>2. /\ Number(s, k) \in Nat /\ Number(s, k) + 1 < 2 ^ IntBits
        /\ Number(r, l) \in Nat /\ Number(r, l) + 1 < 2 ^ IntBits
    BY <1>1
  <1>3. (IdOf(s, k) = IdOf(r, l) => Number(s, k) = Number(r, l)) /\ IdOf(s, k) # -1
    BY <1>2, <1>ToIntApart DEF IdOf
  <1>4. QED BY <1>3, <1>NumberApart

\* An id that some counter has given.
Given(id, cnt) == \E s \in Spokes : \E k \in Nat : k < cnt[s] /\ id = IdOf(s, k)

\* The ids of the timers and of the cancelled ones were given, and no two are the same.
IdInv ==
    /\ ~ crashed
    /\ \A n \in Linked : Given(n.id, root_cnt) /\ n.id \notin cancelled
    /\ \A m, n \in Linked : m.id = n.id => m = n
    /\ \A id \in cancelled : Given(id, root_cnt)
    /\ pc = "callback" => /\ Given(expired.id, root_cnt) /\ expired.id \notin cancelled
                          /\ \A n \in Linked : n.id # expired.id

\* A counter that gives an id is not at its limit.
LEMMA GivenFits ==
    ASSUME TimerTypes, CountersFit, NEW s \in Spokes, NEW k \in Nat, k < root_cnt[s]
    PROVE  Fits(k)
  <1> DEFINE c == spoke_count_
             m == 2 ^ IntBits
             x == root_cnt[s]
  <1>1. c \in Nat \ {0} /\ m \in Nat /\ x \in Nat /\ k < x /\ x * c < m
    BY WheelAssumption DEF TimerTypes, CountersFit
  <1>2. (k + 1) * c < m
    <2> HIDE DEF c, m, x
    <2>1. (x - (k + 1)) * c >= 0 /\ (x - (k + 1)) * c = x * c - (k + 1) * c
      BY <1>1
    <2>2. (k + 1) * c \in Int /\ x * c \in Int
      BY <1>1
    <2>3. QED BY <1>1, <2>1, <2>2
  <1>3. QED BY <1>2 DEF Fits

\* -1 is never given.
LEMMA NeverGiven ==
    ASSUME TimerTypes, CountersFit, NEW id, Given(id, root_cnt)
    PROVE  id # -1
  BY GivenFits, IdsDiffer DEF Given

\* addTimer gives an id that was not given before.
LEMMA IdIsNew ==
    ASSUME TimerInv, CountersFit, CountersFit',
           NEW t \in Tasks, NEW delay \in Delays, NEW repeat \in BOOLEAN, Schedule(t, delay, repeat)
    PROVE  LET id == generate_timer_id(calculate_spoke(timeofday + delay)).id
           IN  /\ ~ crashed' /\ Given(id, root_cnt') /\ ~ Given(id, root_cnt)
               /\ \A old : Given(old, root_cnt) => Given(old, root_cnt')
  <1> DEFINE spoke == calculate_spoke(timeofday + delay)
             cnt == root_cnt[spoke]
             gen == generate_timer_id(spoke)
  <1>1. spoke \in Spokes
    <2>1. timeofday + delay \in Nat
      BY TimerAssumption DEF TimerInv, TimerTypes
    <2>2. QED BY <2>1, SpokeType
  <1>2. cnt \in Nat /\ cnt < MaxCnt /\ root_cnt \in [Spokes -> Nat]
    BY <1>1 DEF TimerInv, TimerTypes, CountersFit
  <1>3. gen = [id |-> ToInt(cnt * spoke_count_ + spoke), cnt |-> cnt + 1, crash |-> FALSE]
    BY <1>2, Zenon DEF generate_timer_id
  <1>4. gen.id = IdOf(spoke, cnt) /\ gen.cnt = cnt + 1 /\ gen.crash = FALSE
    <2> DEFINE id == ToInt(cnt * spoke_count_ + spoke)
    <2>1. gen = [id |-> id, cnt |-> cnt + 1, crash |-> FALSE]
      BY <1>3, Zenon
    <2> HIDE DEF gen, id, cnt
    <2>2. gen.id = id /\ gen.cnt = cnt + 1 /\ gen.crash = FALSE
      BY <2>1
    <2>3. QED BY <2>2, Zenon DEF id, IdOf, Number
  <1>5. crashed' = FALSE /\ root_cnt' = [root_cnt EXCEPT ![spoke] = cnt + 1]
    <2>1. crashed' = gen.crash /\ root_cnt' = [root_cnt EXCEPT ![spoke] = gen.cnt]
      BY Zenon DEF Schedule
    <2>2. QED BY <1>4, <2>1, Zenon
  <1> HIDE DEF spoke
  <1>6. Given(gen.id, root_cnt')
    <2>1. cnt < root_cnt'[spoke]
      BY <1>1, <1>2, <1>5
    <2>2. QED BY <1>1, <1>2, <1>4, <2>1 DEF Given
  <1>7. Fits(cnt)
    <2>1. root_cnt'[spoke] = cnt + 1 /\ root_cnt'[spoke] * spoke_count_ < 2 ^ IntBits
      BY <1>1, <1>2, <1>5 DEF CountersFit
    <2>2. QED BY <2>1, Zenon DEF Fits
  <1>8. ~ Given(gen.id, root_cnt)
    <2>1. SUFFICES ASSUME NEW s \in Spokes, NEW k \in Nat, k < root_cnt[s], gen.id = IdOf(s, k)
                   PROVE  FALSE
      BY DEF Given
    <2>2. Fits(k)
      BY <2>1, GivenFits DEF TimerInv
    <2>3. s = spoke /\ k = cnt
      <3>1. IdOf(s, k) = IdOf(spoke, cnt)
        BY <1>4, <2>1
      <3> HIDE DEF cnt, gen
      <3>2. QED BY <1>1, <1>2, <1>7, <2>2, <3>1, IdsDiffer
    <2>4. QED BY <1>2, <2>1, <2>3
  <1>9. ASSUME NEW old, Given(old, root_cnt) PROVE Given(old, root_cnt')
    <2>1. PICK s \in Spokes, k \in Nat : k < root_cnt[s] /\ old = IdOf(s, k)
      BY <1>9 DEF Given
    <2>2. k < root_cnt'[s]
      BY <1>1, <1>2, <1>5, <2>1
    <2>3. QED BY <2>1, <2>2, Zenon DEF Given
  <1>10. QED BY <1>5, <1>6, <1>8, <1>9, Zenon DEF spoke

\* Every step keeps the ids apart, as long as the counters fit.
LEMMA IdSteps ==
    ASSUME TimerInv, IdInv, CountersFit, CountersFit', [TimerNext]_timerVars
    PROVE  IdInv'
  <1>1. CASE UNCHANGED timerVars
    <2>1. UNCHANGED <<spokes_, earliest_spoke_, timer_count_, root_cnt, crashed, pc, expired, cancelled>>
      BY <1>1 DEF timerVars, wheelVars, runVars
    <2>2. QED BY <2>1, WheelKept, Zenon DEF TimerInv, IdInv
  <1>2. ASSUME NEW t \in Tasks, NEW delay \in Delays, NEW repeat \in BOOLEAN, Schedule(t, delay, repeat)
        PROVE  IdInv'
    <2> DEFINE id == generate_timer_id(calculate_spoke(timeofday + delay)).id
    <2>1. /\ ~ crashed' /\ Given(id, root_cnt') /\ ~ Given(id, root_cnt)
          /\ \A old : Given(old, root_cnt) => Given(old, root_cnt')
      BY <1>2, IdIsNew
    <2>2. UNCHANGED <<pc, expired, cancelled>>
      BY <1>2, Zenon DEF Schedule, runVars
    <2>3. CASE Linked' = Linked
      BY <2>1, <2>2, <2>3, Zenon DEF IdInv
    <2> HIDE DEF id
    <2>4. ASSUME NEW n, n.id = id, Linked' = Linked \cup {n} PROVE IdInv'
      <3>1. id \notin cancelled /\ (\A m \in Linked : m.id # id) /\ (pc = "callback" => expired.id # id)
        BY <2>1, Zenon DEF IdInv
      <3>2. QED BY <2>1, <2>2, <2>4, <3>1, Zenon DEF IdInv
    <2>5. QED BY <1>2, <2>3, <2>4, ScheduleEffect, Zenon DEF id
  <1>3. ASSUME NEW m \in Linked, Cancel(m.id) PROVE IdInv'
    <2>1. UNCHANGED <<root_cnt, crashed, pc, expired>> /\ cancelled' = cancelled \cup {m.id}
      BY <1>3 DEF Cancel, runVars
    <2>2. PICK n \in Linked : n.id = m.id /\ Linked' = Linked \ {n}
      BY <1>3, CancelEffect
    <2>3. n = m
      BY <2>2 DEF IdInv
    <2>4. QED BY <2>1, <2>2, <2>3, Zenon DEF IdInv
  <1>4. CASE (\E t \in Tasks : StopRepeated(t)) \/ StopTimer \/ TimePasses \/ RunSelect \/ RunLeave \/ Expire \/ ExpireDone
    <2>1. UNCHANGED <<spokes_, earliest_spoke_, timer_count_, root_cnt, crashed, expired, cancelled>>
      BY <1>4, Zenon DEF StopRepeated, StopTimer, TimePasses, RunSelect, RunLeave, Expire, ExpireDone, wheelVars, runVars
    <2>2. pc' = "callback" => pc = "callback"
      BY <1>4, Zenon DEF StopRepeated, StopTimer, TimePasses, RunSelect, RunLeave, Expire, ExpireDone, runVars
    <2>3. QED BY <2>1, <2>2, WheelKept, Zenon DEF TimerInv, IdInv
  <1>5. CASE Dispatch
    <2>1. expired' \in Linked /\ Linked' = Linked \ {expired'} /\ UNCHANGED crashed
      BY <1>5, DispatchEffect
    <2>2. UNCHANGED <<root_cnt, cancelled>>
      BY <1>5 DEF Dispatch
    <2>3. QED BY <2>1, <2>2, Zenon DEF IdInv
  <1>6. CASE CallbackReturns
    <2>1. UNCHANGED <<root_cnt, crashed, cancelled>> /\ pc = "callback" /\ pc' = "dispatch"
      BY <1>6 DEF CallbackReturns
    <2>2. CASE Linked' = Linked
      BY <2>1, <2>2, Zenon DEF IdInv
    <2>3. ASSUME NEW n, n.id = expired.id, Linked' = Linked \cup {n} PROVE IdInv'
      BY <2>1, <2>3, Zenon DEF IdInv
    <2>4. QED BY <1>6, <2>2, <2>3, ReturnEffect
  <1>7. QED BY <1>1, <1>2, <1>3, <1>4, <1>5, <1>6 DEF TimerNext, TimerThread

LEMMA IdsStart == TimerInit => IdInv
  <1> SUFFICES ASSUME TimerInit PROVE IdInv
    OBVIOUS
  <1>1. Linked = {}
    BY DEF TimerInit, Wheel, Linked, Range
  <1>2. QED BY <1>1, Zenon DEF TimerInit, Wheel, IdInv

LEMMA IdInvariant == TimerSpec /\ []CountersFit => []IdInv
  <1>1. TimerInv /\ IdInv /\ CountersFit /\ CountersFit' /\ [TimerNext]_timerVars => IdInv'
    BY IdSteps
  <1>2. QED BY <1>1, IdsStart, TimerInvariant, PTL DEF TimerSpec

\* For every wheel, delays and callers, as long as the counters of the spokes fit: the
\* lists stay sorted and counted, the earliest timer stays where get_first_i looks for it,
\* no two timers have one id and no null pointer is followed.
THEOREM WheelStaysSound == TimerSpec /\ []CountersFit => []WheelSound
  <1>1. TimerInv /\ IdInv => WheelSound
    BY DEF TimerInv, WheelInv, IdInv, WheelSound, UniqueIds, IdsApart
  <1>2. QED BY <1>1, TimerInvariant, IdInvariant, PTL

\* For every wheel, delays and callers, as long as the counters of the spokes fit: a
\* cancelled timer neither fires nor comes back, and no callback is called on a task that
\* was deleted.
THEOREM CancelledStaySilent == TimerSpec /\ []CountersFit => []StaysSilent
  <1>1. TimerInv /\ IdInv /\ CountersFit => StaysSilent
    <2> SUFFICES ASSUME TimerInv, IdInv, CountersFit PROVE StaysSilent
      OBVIOUS
    <2>1. CancelFinal
      <3>1. pc # "callback" => expired.id = -1
        BY DEF TimerInv, Owned, NoTimer
      <3>2. -1 \notin cancelled
        BY NeverGiven DEF IdInv, TimerInv
      <3>3. QED BY <3>1, <3>2 DEF CancelFinal, IdInv
    <2>2. TaskAlive
      BY TimerAssumption DEF TaskAlive, TimerInv, Owned, NoTimer
    <2>3. QED BY <2>1, <2>2 DEF StaysSilent
  <1>2. QED BY <1>1, TimerInvariant, IdInvariant, PTL
=============================================================================
