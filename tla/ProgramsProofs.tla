--------------------------- MODULE ProgramsProofs ---------------------------
(***************************************************************************)
(* The three example programs of Programs.tla keep their promises: the     *)
(* alarm list, the pipeline and the back-off over three mutexes.  Each     *)
(* part has its inductive invariant, a lemma for each action that can      *)
(* disturb it, and the theorem at the end combines them.                   *)
(***************************************************************************)
EXTENDS Programs, FiniteSetTheorems, SequenceTheorems, TLAPS

-----------------------------------------------------------------------------
\* alarm_cond.c: the list and the wait for its first alarm.

AlarmType ==
    /\ now \in Nat /\ now > 0
    /\ alarm_list \in Seq(Alarms)
    /\ time \in [Alarms -> Nat]
    /\ current_alarm \in Nat
    /\ alarmPc \in {"start", "loop", "wait", "timedwait", "woken"}

\* Alarms in the list have a time.
Timed == \A a \in Listed : time[a] > 0

\* When the thread waits for an alarm, current_alarm is the earliest time of all, and it
\* is the time of that alarm unless a signal is on its way.
Watched ==
    /\ alarmPc = "wait" => (alarm_list = <<>> /\ current_alarm = 0) \/ signalled
    /\ alarmPc \in {"timedwait", "woken"} =>
          /\ alarm \in Alarms
          /\ 0 < current_alarm /\ current_alarm <= time[alarm]
          /\ \A a \in Listed : current_alarm <= time[a]
    /\ alarmPc = "timedwait" => current_alarm = time[alarm] \/ signalled

AlarmInv == AlarmType /\ ListSorted /\ Timed /\ Watched

LEMMA Inserted ==
    ASSUME NEW L \in Seq(Alarms), NEW a \in Alarms, NEW n \in 0 .. Len(L)
    PROVE  /\ Behind(L, n, a) \in Seq(Alarms) /\ Len(Behind(L, n, a)) = Len(L) + 1
           /\ \A k \in 1 .. Len(L) + 1 :
                 Behind(L, n, a)[k] = IF k <= n THEN L[k] ELSE IF k = n + 1 THEN a ELSE L[k - 1]
  <1>. DEFINE F == SubSeq(L, 1, n)
              B == SubSeq(L, n + 1, Len(L))
              A == F \o <<a>>
  <1>0. Len(L) \in Nat /\ n \in Nat /\ n <= Len(L)
    BY LenProperties
  <1>l. \A k \in 1 .. Len(L) : L[k] \in Alarms
    BY LenProperties
  <1>1. F \in Seq(Alarms) /\ Len(F) = n /\ \A k \in 1 .. n : F[k] = L[k]
    BY <1>0
  <1>2. /\ B \in Seq(Alarms) /\ Len(B) = Len(L) - n
        /\ \A k \in 1 .. Len(L) - n : B[k] = L[n + k]
    BY <1>0
  <1>. HIDE DEF F, B
  <1>3. /\ A \in Seq(Alarms) /\ Len(A) = n + 1
        /\ \A k \in 1 .. n + 1 : A[k] = IF k <= n THEN L[k] ELSE a
    BY <1>0, <1>1
  <1>. HIDE DEF A
  <1>5. /\ A \o B \in Seq(Alarms) /\ Len(A \o B) = Len(A) + Len(B)
        /\ \A k \in 1 .. Len(A) + Len(B) :
              (A \o B)[k] = IF k <= Len(A) THEN A[k] ELSE B[k - Len(A)]
    BY <1>2, <1>3, ConcatProperties, Zenon
  <1>. DEFINE Q == A \o B
  <1>q. Q = Behind(L, n, a)
    BY DEF Behind, A, F, B
  <1>6. /\ Q \in Seq(Alarms) /\ Len(Q) = Len(A) + Len(B)
        /\ \A k \in 1 .. Len(A) + Len(B) : Q[k] = IF k <= Len(A) THEN A[k] ELSE B[k - Len(A)]
    BY <1>5
  <1>. HIDE DEF Q
  <1>7. Len(A) + Len(B) = Len(L) + 1
    BY <1>0, <1>2, <1>3
  <1>8. ASSUME NEW k \in 1 .. Len(L) + 1
        PROVE  Q[k] = IF k <= n THEN L[k] ELSE IF k = n + 1 THEN a ELSE L[k - 1]
    <2>1. CASE k <= n + 1
      <3>1. Q[k] = A[k] /\ k \in 1 .. n + 1
        BY <1>0, <1>3, <1>6, <1>7, <2>1
      <3>. QED
        BY <1>0, <1>3, <3>1
    <2>2. CASE k > n + 1
      <3>1. Q[k] = B[k - (n + 1)]
        BY <1>0, <1>3, <1>6, <1>7, <2>2
      <3>2. k - (n + 1) \in 1 .. Len(L) - n /\ n + (k - (n + 1)) = k - 1
        BY <1>0, <2>2
      <3>. QED
        BY <1>0, <1>2, <2>2, <3>1, <3>2
    <2>. QED
      BY <1>0, <2>1, <2>2
  <1>. QED
    BY <1>6, <1>7, <1>8, <1>q

\* Numbers are sorted up to N; q is d with x put behind place n, the last of the smaller.
SortedTo(d, N) == \A i, j \in 1 .. N : i < j => d[i] <= d[j]
PutBehind(d, N, n, x, q) ==
    /\ n \in Nat /\ n <= N
    /\ \A k \in 1 .. n : d[k] < x
    /\ n < N => d[n + 1] >= x
    /\ \A k \in 1 .. N + 1 :
          q[k] = IF k <= n THEN d[k] ELSE IF k = n + 1 THEN x ELSE d[k - 1]

LEMMA InsertSorted ==
    ASSUME NEW N \in Nat, NEW d \in [1 .. N -> Nat], NEW x \in Nat, SortedTo(d, N),
           NEW n, NEW q, PutBehind(d, N, n, x, q)
    PROVE  SortedTo(q, N + 1)
  <1>. USE DEF PutBehind
  <1>. SUFFICES ASSUME NEW i \in 1 .. N + 1, NEW j \in 1 .. N + 1, i < j
                PROVE  q[i] <= q[j]
    BY DEF SortedTo
  <1>. USE DEF SortedTo
  <1>1. \A k \in 1 .. N : k > n => x <= d[k]
    <2>. SUFFICES ASSUME NEW k \in 1 .. N, k > n PROVE x <= d[k]
      OBVIOUS
    <2>1. n + 1 \in 1 .. N /\ n < N /\ d[n + 1] \in Nat /\ d[k] \in Nat
      OBVIOUS
    <2>2. k = n + 1 \/ d[n + 1] <= d[k]
      BY <2>1
    <2>. QED
      BY <2>1, <2>2
  <1>2. CASE j <= n
    <2>1. i \in 1 .. N /\ j \in 1 .. N /\ q[i] = d[i] /\ q[j] = d[j]
      BY <1>2
    <2>. QED
      BY <2>1
  <1>3. CASE j = n + 1
    <2>1. i \in 1 .. n /\ i \in 1 .. N /\ q[i] = d[i] /\ q[j] = x /\ d[i] \in Nat
      BY <1>3
    <2>. QED
      BY <2>1
  <1>4. CASE j > n + 1
    <2>1. j - 1 \in 1 .. N /\ j - 1 > n /\ q[j] = d[j - 1]
      BY <1>4
    <2>2. CASE i <= n
      <3>1. i \in 1 .. N /\ i < j - 1 /\ q[i] = d[i]
        BY <2>1, <2>2
      <3>. QED
        BY <2>1, <3>1
    <2>3. CASE i = n + 1
      <3>1. q[i] = x
        BY <2>3
      <3>. QED
        BY <1>1, <2>1, <3>1
    <2>4. CASE i > n + 1
      <3>1. i - 1 \in 1 .. N /\ i - 1 < j - 1 /\ q[i] = d[i - 1]
        BY <2>1, <2>4
      <3>. QED
        BY <2>1, <3>1
    <2>. QED
      BY <2>2, <2>3, <2>4
  <1>. QED
    BY <1>2, <1>3, <1>4

\* alarm_insert keeps the order of the list by the times due, and adds the alarm.
LEMMA InsertKeeps ==
    ASSUME alarm_list \in Seq(Alarms), NEW a \in Alarms, NEW due \in [Alarms -> Nat],
           \A i, j \in DOMAIN alarm_list : i < j => due[alarm_list[i]] <= due[alarm_list[j]],
           alarm_insert(a, due)
    PROVE  /\ alarm_list' \in Seq(Alarms)
           /\ \A i, j \in DOMAIN alarm_list' : i < j => due[alarm_list'[i]] <= due[alarm_list'[j]]
           /\ Listed' \subseteq Listed \cup {a}
  <1>. DEFINE N == Len(alarm_list)
              d == [k \in 1 .. N |-> due[alarm_list[k]]]
              q == [k \in 1 .. N + 1 |-> due[alarm_list'[k]]]
  <1>0. DOMAIN alarm_list = 1 .. N /\ N \in Nat /\ \A k \in 1 .. N : alarm_list[k] \in Alarms
    BY LenProperties
  <1>1. PICK n \in 0 .. N :
            /\ \A k \in 1 .. n : due[alarm_list[k]] < due[a]
            /\ n < Len(alarm_list) => due[alarm_list[n + 1]] >= due[a]
            /\ alarm_list' = Behind(alarm_list, n, a)
    BY DEF alarm_insert
  <1>2. /\ alarm_list' \in Seq(Alarms) /\ Len(alarm_list') = N + 1
        /\ \A k \in 1 .. N + 1 :
              alarm_list'[k] = IF k <= n THEN alarm_list[k]
                               ELSE IF k = n + 1 THEN a ELSE alarm_list[k - 1]
    <2>1. /\ Behind(alarm_list, n, a) \in Seq(Alarms)
          /\ Len(Behind(alarm_list, n, a)) = N + 1
          /\ \A k \in 1 .. N + 1 :
                Behind(alarm_list, n, a)[k] = IF k <= n THEN alarm_list[k]
                                              ELSE IF k = n + 1 THEN a ELSE alarm_list[k - 1]
      BY Inserted
    <2>. QED
      BY <1>1, <2>1
  <1>3. DOMAIN alarm_list' = 1 .. N + 1
    BY <1>2, LenProperties
  <1>. HIDE DEF N
  <1>4. ASSUME NEW i \in 1 .. N + 1, NEW j \in 1 .. N + 1, i < j
        PROVE  due[alarm_list'[i]] <= due[alarm_list'[j]]
    <2>1. d \in [1 .. N -> Nat] /\ due[a] \in Nat
      BY <1>0
    <2>2. \A k, l \in 1 .. N : k < l => d[k] <= d[l]
      BY <1>0
    <2>a. \A k \in 1 .. n : d[k] < due[a]
      BY <1>0, <1>1
    <2>b. n < N => d[n + 1] >= due[a]
      <3>1. n < N => n + 1 \in 1 .. N
        BY <1>0
      <3>. QED
        BY <1>1, <3>1 DEF N
    <2>3. \A k \in 1 .. N + 1 :
              q[k] = IF k <= n THEN d[k] ELSE IF k = n + 1 THEN due[a] ELSE d[k - 1]
      BY <1>0, <1>1, <1>2
    <2>4. n \in Nat /\ n <= N
      BY <1>0, <1>1
    <2>5. q[i] = due[alarm_list'[i]] /\ q[j] = due[alarm_list'[j]]
      OBVIOUS
    <2>6. SortedTo(d, N) /\ PutBehind(d, N, n, due[a], q)
      BY <2>2, <2>a, <2>b, <2>3, <2>4, Zenon DEF SortedTo, PutBehind
    <2>. HIDE DEF d, q
    <2>7. SortedTo(q, N + 1)
      BY <1>0, <2>1, <2>6, InsertSorted, Zenon
    <2>. QED
      BY <1>4, <2>5, <2>7 DEF SortedTo
  <1>5. ASSUME NEW k \in 1 .. N + 1 PROVE alarm_list'[k] \in Listed \cup {a}
    <2>1. \A l \in 1 .. N : alarm_list[l] \in Listed
      BY <1>0 DEF Listed
    <2>3. k <= n => k \in 1 .. N
      BY <1>0, <1>1
    <2>4. k > n + 1 => k - 1 \in 1 .. N
      BY <1>0, <1>1
    <2>5. CASE k <= n
      BY <1>2, <2>1, <2>3, <2>5
    <2>6. CASE k = n + 1
      BY <1>0, <1>1, <1>2, <2>6
    <2>7. CASE k > n + 1
      <3>1. alarm_list'[k] = alarm_list[k - 1]
        BY <1>0, <1>1, <1>2, <2>7
      <3>. QED
        BY <2>1, <2>4, <2>7, <3>1
    <2>. QED
      BY <1>0, <1>1, <2>5, <2>6, <2>7
  <1>. QED
    BY <1>2, <1>3, <1>4, <1>5 DEF Listed

\* What is left when the first alarm is taken is due no earlier.
LEMMA TakeKeeps ==
    ASSUME AlarmType, ListSorted, Timed, alarm_list # <<>>, alarm_list' = Tail(alarm_list),
           UNCHANGED time
    PROVE  /\ Head(alarm_list) \in Alarms /\ time[Head(alarm_list)] > 0
           /\ alarm_list' \in Seq(Alarms) /\ ListSorted' /\ Timed'
           /\ \A a \in Listed' : time[Head(alarm_list)] <= time[a]
  <1>. DEFINE N == Len(alarm_list)
  <1>0. /\ alarm_list \in Seq(Alarms) /\ DOMAIN alarm_list = 1 .. N /\ N \in Nat /\ N > 0
        /\ time \in [Alarms -> Nat] /\ \A k \in 1 .. N : alarm_list[k] \in Alarms
    BY LenProperties, EmptySeq DEF AlarmType
  <1>1. Head(alarm_list) \in Alarms /\ Head(alarm_list) = alarm_list[1]
    BY <1>0
  <1>2. /\ alarm_list' \in Seq(Alarms) /\ Len(alarm_list') = N - 1
        /\ \A k \in 1 .. N - 1 : alarm_list'[k] = alarm_list[k + 1]
    BY <1>0, HeadTailProperties
  <1>3. DOMAIN alarm_list' = 1 .. N - 1
    BY <1>2, LenProperties
  <1>. HIDE DEF N
  <1>4. ASSUME NEW k \in 1 .. N - 1
        PROVE  /\ k + 1 \in 1 .. N /\ 1 \in 1 .. N /\ alarm_list'[k] = alarm_list[k + 1]
               /\ alarm_list'[k] \in Listed /\ time[alarm_list[1]] <= time[alarm_list'[k]]
    <2>1. k + 1 \in 1 .. N /\ 1 \in 1 .. N /\ 1 < k + 1
      BY <1>0
    <2>2. alarm_list'[k] = alarm_list[k + 1]
      BY <1>2
    <2>. QED
      BY <1>0, <2>1, <2>2, Zenon DEF Listed, ListSorted
  <1>5. ListSorted'
    <2>. SUFFICES ASSUME NEW i \in 1 .. N - 1, NEW j \in 1 .. N - 1, i < j
                  PROVE  time[alarm_list'[i]] <= time[alarm_list'[j]]
      BY <1>3, Zenon DEF ListSorted
    <2>1. i + 1 \in DOMAIN alarm_list /\ j + 1 \in DOMAIN alarm_list /\ i + 1 < j + 1
      BY <1>0
    <2>. QED
      BY <1>4, <2>1 DEF ListSorted
  <1>6. \A a \in Listed' : a \in Listed /\ time[alarm_list[1]] <= time[a]
    BY <1>3, <1>4, Zenon DEF Listed
  <1>7. time[Head(alarm_list)] > 0
    BY <1>0, <1>1 DEF Timed, Listed
  <1>. QED
    BY <1>1, <1>2, <1>5, <1>6, <1>7 DEF Timed

LEMMA EnterKeeps ==
    ASSUME AlarmInv, NEW a \in Alarms, NEW seconds \in Seconds, Enter(a, seconds)
    PROVE  AlarmInv'
  <1>. DEFINE due == now + seconds
  <1>0. /\ alarmPc \in {"start", "wait", "timedwait"} /\ time[a] = 0
        /\ time' = [time EXCEPT ![a] = due] /\ alarm_insert(a, time')
        /\ UNCHANGED <<now, alarmPc, alarm, fired>>
    BY DEF Enter, AlarmMutexFree
  <1>t. AlarmType /\ time \in [Alarms -> Nat] /\ alarm_list \in Seq(Alarms) /\ current_alarm \in Nat
    BY DEF AlarmInv, AlarmType
  <1>1. due \in Nat /\ due > 0
    BY SecondsAreNat DEF AlarmInv, AlarmType
  <1>2. time' \in [Alarms -> Nat] /\ time'[a] = due /\ \A b \in Alarms \ {a} : time'[b] = time[b]
    BY <1>0, <1>1, <1>t
  <1>3. \A b \in Listed : b \in Alarms /\ b # a /\ time'[b] = time[b] /\ time[b] \in Nat
    <2>1. \A b \in Listed : b \in Alarms
      BY <1>t, LenProperties DEF Listed
    <2>2. \A b \in Listed : b # a
      BY <1>0 DEF AlarmInv, Timed
    <2>. QED
      BY <1>2, <1>t, <2>1, <2>2
  <1>4. \A i, j \in DOMAIN alarm_list : i < j => time'[alarm_list[i]] <= time'[alarm_list[j]]
    BY <1>3 DEF AlarmInv, ListSorted, Listed
  <1>5. /\ alarm_list' \in Seq(Alarms) /\ Listed' \subseteq Listed \cup {a}
        /\ \A i, j \in DOMAIN alarm_list' :
              i < j => time'[alarm_list'[i]] <= time'[alarm_list'[j]]
    <2>. DEFINE d == time'
    <2>1. d \in [Alarms -> Nat] /\ alarm_insert(a, d)
      BY <1>0, <1>2
    <2>2. \A i, j \in DOMAIN alarm_list : i < j => d[alarm_list[i]] <= d[alarm_list[j]]
      BY <1>4
    <2>. HIDE DEF d
    <2>3. /\ alarm_list' \in Seq(Alarms) /\ Listed' \subseteq Listed \cup {a}
          /\ \A i, j \in DOMAIN alarm_list' : i < j => d[alarm_list'[i]] <= d[alarm_list'[j]]
      BY <1>t, <2>1, <2>2, InsertKeeps
    <2>. QED
      BY <2>3 DEF d
  <1>6. CASE current_alarm = 0 \/ due < current_alarm
    <2>1. current_alarm' = due /\ (signalled' <=> signalled \/ alarmPc \in {"wait", "timedwait"})
      BY <1>0, <1>2, <1>6, Zenon DEF alarm_insert, CondSignal
    <2>2. AlarmType'
      BY <1>0, <1>1, <1>2, <1>5, <2>1 DEF AlarmInv, AlarmType
    <2>3. Timed' /\ ListSorted'
      BY <1>1, <1>2, <1>3, <1>5 DEF AlarmInv, Timed, ListSorted
    <2>4. Watched'
      <3>1. CASE alarmPc \in {"start", "wait"}
        BY <1>0, <2>1, <3>1 DEF Watched
      <3>2. CASE alarmPc = "timedwait"
        <4>1. alarm \in Alarms /\ 0 < current_alarm /\ current_alarm <= time[alarm]
              /\ \A b \in Listed : current_alarm <= time[b]
          BY <3>2 DEF AlarmInv, Watched
        <4>2. alarm # a /\ time'[alarm] = time[alarm] /\ time[alarm] \in Nat
          BY <1>0, <1>t, <1>2, <4>1
        <4>3. due < current_alarm
          BY <1>6, <1>t, <4>1
        <4>4. due <= time[alarm] /\ \A b \in Listed' : due <= time'[b]
          <5>1. due <= time[alarm]
            BY <1>1, <1>t, <4>1, <4>2, <4>3
          <5>2. \A b \in Listed : due <= time'[b]
            BY <1>1, <1>3, <1>t, <4>1, <4>3
          <5>3. due <= time'[a]
            BY <1>1, <1>2
          <5>. HIDE DEF due
          <5>. QED
            BY <1>5, <5>1, <5>2, <5>3
        <4>. QED
          BY <1>0, <1>1, <2>1, <3>2, <4>1, <4>2, <4>4 DEF Watched
      <3>. QED
        BY <1>0, <3>1, <3>2
    <2>. QED
      BY <2>2, <2>3, <2>4 DEF AlarmInv
  <1>7. CASE ~(current_alarm = 0 \/ due < current_alarm)
    <2>1. current_alarm' = current_alarm /\ signalled' = signalled
      BY <1>0, <1>2, <1>7 DEF alarm_insert
    <2>2. AlarmType'
      BY <1>0, <1>1, <1>2, <1>5, <2>1 DEF AlarmInv, AlarmType
    <2>3. Timed' /\ ListSorted'
      BY <1>1, <1>2, <1>3, <1>5 DEF AlarmInv, Timed, ListSorted
    <2>4. Watched'
      <3>1. CASE alarmPc \in {"start", "wait"}
        BY <1>0, <1>7, <2>1, <3>1 DEF AlarmInv, Watched
      <3>2. CASE alarmPc = "timedwait"
        <4>1. alarm \in Alarms /\ 0 < current_alarm /\ current_alarm <= time[alarm]
              /\ (\A b \in Listed : current_alarm <= time[b])
              /\ (current_alarm = time[alarm] \/ signalled)
          BY <3>2 DEF AlarmInv, Watched
        <4>2. alarm # a /\ time'[alarm] = time[alarm]
          BY <1>0, <1>t, <1>2, <4>1
        <4>3. \A b \in Listed' : current_alarm <= time'[b]
          BY <1>1, <1>2, <1>3, <1>5, <1>7, <1>t, <4>1
        <4>. QED
          BY <1>0, <2>1, <3>2, <4>1, <4>2, <4>3 DEF Watched
      <3>. QED
        BY <1>0, <3>1, <3>2
    <2>. QED
      BY <2>2, <2>3, <2>4 DEF AlarmInv
  <1>. QED
    BY <1>6, <1>7

\* Loop and AlarmWoken: after Take the thread waits for the earliest alarm, or goes on.
LEMMA TakingKeeps ==
    ASSUME AlarmInv, NEW current \in Nat, Take(current), UNCHANGED <<now, time>>
    PROVE  AlarmInv'
  <1>. DEFINE a == Head(alarm_list)
  <1>1. /\ a \in Alarms /\ time[a] > 0 /\ alarm_list' \in Seq(Alarms) /\ ListSorted' /\ Timed'
        /\ \A b \in Listed' : time[a] <= time[b]
    BY TakeKeeps DEF Take, AlarmInv
  <1>2. AlarmType'
    BY <1>1 DEF AlarmInv, AlarmType, Take
  <1>3. Watched'
    <2>1. CASE time[a] > now
      <3>1. current_alarm' = time[a] /\ alarm' = a /\ alarmPc' = "timedwait"
        BY <2>1 DEF Take
      <3>. HIDE DEF a
      <3>2. time[a] \in Nat
        BY <1>1 DEF AlarmInv, AlarmType
      <3>. QED
        BY <1>1, <3>1, <3>2 DEF Watched
    <2>2. CASE ~(time[a] > now)
      <3>1. alarmPc' = "loop"
        BY <2>2 DEF Take
      <3>. QED
        BY <3>1 DEF Watched
    <2>. QED
      BY <2>1, <2>2
  <1>. QED
    BY <1>1, <1>2, <1>3 DEF AlarmInv

LEMMA EarlierKeeps == ASSUME AlarmInv, Earlier PROVE AlarmInv'
  <1>t. AlarmType /\ time \in [Alarms -> Nat] /\ alarm_list \in Seq(Alarms) /\ current_alarm \in Nat
    BY DEF AlarmInv, AlarmType
  <1>1. /\ alarmPc = "woken" /\ UNCHANGED <<now, time>> /\ alarm \in Alarms
        /\ 0 < current_alarm /\ current_alarm <= time[alarm]
        /\ \A b \in Listed : current_alarm <= time[b]
    BY DEF Earlier, AlarmInv, Watched
  <1>2. CASE current_alarm = time[alarm]
    <2>1. alarmPc' = "timedwait" /\ UNCHANGED <<alarm_list, current_alarm, signalled, alarm>>
      BY <1>2 DEF Earlier
    <2>2. Listed' = Listed
      BY <2>1 DEF Listed
    <2>3. AlarmType' /\ ListSorted' /\ Timed'
      BY <1>1, <2>1, <2>2 DEF AlarmInv, AlarmType, ListSorted, Timed
    <2>4. Watched'
      BY <1>1, <1>2, <2>1, <2>2 DEF Watched
    <2>. QED
      BY <2>3, <2>4 DEF AlarmInv
  <1>3. CASE current_alarm # time[alarm]
    <2>1. alarm_insert(alarm, time) /\ alarmPc' = "loop"
      BY <1>3 DEF Earlier
    <2>2. /\ alarm_list' \in Seq(Alarms) /\ Listed' \subseteq Listed \cup {alarm}
          /\ \A i, j \in DOMAIN alarm_list' : i < j => time[alarm_list'[i]] <= time[alarm_list'[j]]
      BY <1>t, <1>1, <2>1, InsertKeeps DEF AlarmInv, ListSorted
    <2>3. current_alarm' \in Nat
      BY <1>t, <1>1, <2>1 DEF alarm_insert
    <2>4. AlarmType'
      BY <1>1, <2>1, <2>2, <2>3 DEF AlarmInv, AlarmType
    <2>5. time[alarm] \in Nat /\ time[alarm] > 0
      BY <1>1, <1>t
    <2>6. ListSorted' /\ Timed'
      BY <1>1, <2>2, <2>5 DEF AlarmInv, ListSorted, Timed
    <2>7. Watched'
      BY <2>1 DEF Watched
    <2>. QED
      BY <2>4, <2>6, <2>7 DEF AlarmInv
  <1>. QED
    BY <1>2, <1>3

LEMMA AlarmKeeps == AlarmInv /\ [AlarmNext]_alarmVars => AlarmInv'
  <1>. SUFFICES ASSUME AlarmInv, [AlarmNext]_alarmVars PROVE AlarmInv'
    OBVIOUS
  <1>. USE DEF AlarmInv
  <1>1. CASE AlarmTick
    BY <1>1, SMTT(30) DEF AlarmTick, AlarmType, ListSorted, Timed, Watched, Listed
  <1>2. CASE AlarmStart
    BY <1>2 DEF AlarmStart, AlarmType, ListSorted, Timed, Watched, Listed
  <1>3. CASE Empty
    BY <1>3 DEF Empty, AlarmType, ListSorted, Timed, Watched, Listed
  <1>4. CASE Loop
    BY <1>4, TakingKeeps DEF Loop
  <1>5. CASE AlarmWoken
    BY <1>5, TakingKeeps DEF AlarmWoken, AlarmType
  <1>6. CASE TimedOut
    BY <1>6 DEF TimedOut, AlarmType, ListSorted, Timed, Watched, Listed
  <1>7. CASE TimedWoken
    BY <1>7 DEF TimedWoken, AlarmType, ListSorted, Timed, Watched, Listed
  <1>8. CASE UNCHANGED alarmVars
    BY <1>8 DEF alarmVars, AlarmType, ListSorted, Timed, Watched, Listed
  <1>. QED
    BY <1>1, <1>2, <1>3, <1>4, <1>5, <1>6, <1>7, <1>8, EnterKeeps, EarlierKeeps
    DEF AlarmNext, alarm_thread

LEMMA AlarmBegins == AlarmInit => AlarmInv
  BY DEF AlarmInit, AlarmInv, AlarmType, ListSorted, Timed, Watched, Listed

LEMMA AlarmNoneLost == AlarmInv => NoWakeupLost
  BY DEF AlarmInv, Watched, NoWakeupLost

-----------------------------------------------------------------------------
\* pipe.c: the stages of the pipeline.

PipeType ==
    /\ data_ready \in [Stage -> {0, 1}] /\ data \in [Stage -> Int]
    /\ pipePc \in [Stages -> {"start", "wait", "send"}]
    /\ woken \in [Stages -> BOOLEAN]
    /\ active \in Nat /\ started \in Nat
    /\ main \in {"idle", "send", "result"}
    /\ results \in Seq(Int)

\* A stage that has a value has one that main put in, with 1 added by every stage before;
\* newer values are in earlier stages, and only what was passed on is as old as what the
\* next stage has; results are older than what the last stage has.
Sending == \A i \in Stages : pipePc[i] = "send" => data_ready[i] = 1
Genuine == \A i \in Stage : data_ready[i] = 1 => \E k \in 1 .. started : data[i] = Value(k) + i
Newer == \A i \in Stages : /\ data[i + 1] <= data[i] + 1
                           /\ data_ready[i] = 1 => data[i + 1] <= data[i]
Newest == data[0] <= Value(started)
Older == \A j \in DOMAIN results : /\ results[j] <= data[stages]
                                   /\ data_ready[stages] = 1 => results[j] < data[stages]

Ready == {i \in Stage : data_ready[i] = 1}

\* active counts the values in the pipeline or more, the one that main is about to put in
\* or to take out included.
Counted == Cardinality(Ready) + (IF main = "send" THEN 1 ELSE 0)
             <= active + (IF main = "result" THEN 1 ELSE 0)

PipeInv == PipeType /\ Sending /\ Genuine /\ Newer /\ Newest /\ Older /\ InOrder /\ Counted

LEMMA Bounds ==
    /\ 0 \in Stage /\ stages \in Stage /\ Stages \subseteq Stage
    /\ \A i \in Stages : i + 1 \in Stage
    /\ \A i \in Stage : i \in Nat
    /\ \A i \in Stage : i # stages => i \in Stages
  BY StagesAreNat DEF Stage, Stages

LEMMA ValueGrows == ASSUME NEW k \in Nat
                    PROVE  Value(k) \in Nat /\ Value(k + 1) = Value(k) + stages + 1
  BY StagesAreNat DEF Value

LEMMA ReadyFinite ==
    ASSUME NEW S \in SUBSET Stage
    PROVE  IsFiniteSet(S) /\ Cardinality(S) \in Nat
  <1>1. 0 \in Int /\ stages \in Int
    BY StagesAreNat
  <1>2. IsFiniteSet(Stage)
    BY <1>1, FS_Interval DEF Stage
  <1>. QED
    BY <1>2, FS_Subset, FS_CardinalityType

\* A flag that is set or cleared is one more or one less.
LEMMA ReadySet ==
    ASSUME NEW S \in SUBSET Stage, NEW i
    PROVE  /\ Cardinality(S \cup {i}) <= Cardinality(S) + 1
           /\ i \in S => Cardinality(S \ {i}) = Cardinality(S) - 1
  <1>1. IsFiniteSet(S) /\ Cardinality(S) \in Nat
    BY ReadyFinite
  <1>2. Cardinality(S \cup {i}) = IF i \in S THEN Cardinality(S) ELSE Cardinality(S) + 1
    BY <1>1, FS_AddElement
  <1>3. Cardinality(S \ {i}) = IF i \in S THEN Cardinality(S) - 1 ELSE Cardinality(S)
    BY <1>1, FS_RemoveElement
  <1>. QED
    BY <1>1, <1>2, <1>3

\* Look leaves values and flags alone.
LEMMA LookKeeps == ASSUME PipeInv, NEW i \in Stages, Look(i) PROVE PipeInv'
  <1>. USE DEF PipeInv
  <1>1. PipeType'
    BY Bounds DEF PipeType, Look
  <1>2. Sending'
    BY Bounds DEF PipeType, Look, Sending
  <1>3. Genuine' /\ Newer' /\ Newest' /\ Older' /\ InOrder' /\ Counted'
    BY DEF Look, Genuine, Newer, Newest, Older, InOrder, Counted, Ready
  <1>. QED
    BY <1>1, <1>2, <1>3

LEMMA PassKept == ASSUME PipeInv, NEW i \in Stages, Pass(i) PROVE PipeInv'
  <1>. USE DEF PipeInv
  <1>0. /\ pipePc[i] = "send" /\ data_ready[i] = 1 /\ StageMutexFree(i + 1)
        /\ data' = [data EXCEPT ![i + 1] = data[i] + 1]
        /\ data_ready' = [[data_ready EXCEPT ![i] = 0] EXCEPT ![i + 1] = 1]
        /\ woken' = IF i + 1 \in Stages /\ pipePc[i + 1] = "wait"
                    THEN [woken EXCEPT ![i + 1] = TRUE] ELSE woken
        /\ pipePc' = [pipePc EXCEPT ![i] = "wait"]
        /\ UNCHANGED <<active, main, started, results>>
    BY DEF Pass, pipe_send, Sending
  <1>t. /\ data_ready \in [Stage -> {0, 1}] /\ data \in [Stage -> Int]
        /\ pipePc \in [Stages -> {"start", "wait", "send"}]
        /\ woken \in [Stages -> BOOLEAN] /\ started \in Nat /\ results \in Seq(Int)
    BY DEF PipeType
  <1>b. i \in Nat /\ i \in Stage /\ i + 1 \in Stage
    BY Bounds
  <1>r. \A j \in Stage : data_ready'[j] = IF j = i + 1 THEN 1 ELSE IF j = i THEN 0 ELSE data_ready[j]
    BY <1>0, <1>t, <1>b
  <1>d. \A j \in Stage : data'[j] = IF j = i + 1 THEN data[i] + 1 ELSE data[j]
    BY <1>0, <1>t, <1>b
  <1>1. PipeType'
    <2>1. data_ready' \in [Stage -> {0, 1}] /\ data' \in [Stage -> Int]
      BY <1>0, <1>t, <1>b
    <2>2. pipePc' \in [Stages -> {"start", "wait", "send"}] /\ woken' \in [Stages -> BOOLEAN]
      BY <1>0, <1>t
    <2>. QED
      BY <1>0, <2>1, <2>2, Zenon DEF PipeType
  <1>2. Sending'
    BY <1>0, <1>t, <1>r, Bounds DEF Sending, StageMutexFree
  <1>3. Genuine'
    <2>1. PICK k \in 1 .. started : data[i] = Value(k) + i
      BY <1>0, <1>b DEF Genuine
    <2>2. data'[i + 1] = Value(k) + (i + 1)
      BY <1>d, <1>b, <2>1, ValueGrows, <1>t
    <2>. QED
      BY <1>0, <1>r, <1>d, <2>2 DEF Genuine
  <1>4. Newer'
    <2>. SUFFICES ASSUME NEW j \in Stages
                  PROVE  /\ data'[j + 1] <= data'[j] + 1
                         /\ data_ready'[j] = 1 => data'[j + 1] <= data'[j]
      BY DEF Newer
    <2>1. j \in Nat /\ j \in Stage /\ j + 1 \in Stage
      BY Bounds
    <2>2. /\ data[j + 1] <= data[j] + 1 /\ (data_ready[j] = 1 => data[j + 1] <= data[j])
          /\ data[i + 1] <= data[i]
      BY <1>0 DEF Newer
    <2>3. data[i] \in Int /\ data[i + 1] \in Int /\ data[j] \in Int /\ data[j + 1] \in Int
      BY <1>t, <1>b, <2>1
    <2>4. CASE j = i
      BY <1>r, <1>d, <1>b, <2>3, <2>4
    <2>5. CASE j = i + 1
      BY <1>r, <1>d, <1>b, <2>1, <2>2, <2>3, <2>5
    <2>6. CASE j # i /\ j # i + 1
      BY <1>r, <1>d, <1>b, <2>1, <2>2, <2>3, <2>6
    <2>. QED
      BY <2>4, <2>5, <2>6
  <1>5. Newest'
    BY <1>0, <1>d, <1>b, Bounds DEF Newest, Value
  <1>6. Older'
    <2>1. CASE i + 1 = stages
      <3>1. data'[stages] = data[i] + 1 /\ data[stages] <= data[i]
        BY <1>0, <1>d, <1>b, <2>1 DEF Newer
      <3>2. data[stages] \in Int /\ data[i] \in Int /\ \A j \in DOMAIN results : results[j] \in Int
        BY <1>t, <1>b, <2>1
      <3>. QED
        BY <1>0, <3>1, <3>2 DEF Older
    <2>2. CASE i + 1 # stages
      <3>1. i # stages /\ data'[stages] = data[stages] /\ data_ready'[stages] = data_ready[stages]
        BY <1>d, <1>r, <2>2, StagesAreNat, Bounds DEF Stages
      <3>. QED
        BY <1>0, <3>1 DEF Older
    <2>. QED
      BY <2>1, <2>2
  <1>7. InOrder'
    BY <1>0 DEF InOrder, Outcome, Value
  <1>8. Counted'
    <2>1. i \in Ready
      BY <1>0, <1>b DEF Ready
    <2>2. Ready' = (Ready \ {i}) \cup {i + 1}
      <3>1. \A j \in Stage : data_ready'[j] = 1 <=> (j = i + 1 \/ (j # i /\ data_ready[j] = 1))
        BY <1>r, <1>b
      <3>. QED
        BY <3>1, <1>b, Zenon DEF Ready
    <2>3. Ready \in SUBSET Stage /\ (Ready \ {i}) \in SUBSET Stage
      BY DEF Ready
    <2>4. /\ Cardinality(Ready \ {i}) = Cardinality(Ready) - 1
          /\ Cardinality((Ready \ {i}) \cup {i + 1}) <= Cardinality(Ready \ {i}) + 1
      BY <2>1, <2>3, ReadySet, Zenon
    <2>5. Cardinality(Ready') <= Cardinality(Ready)
      BY <2>2, <2>3, <2>4, ReadyFinite
    <2>6. Ready' \in SUBSET Stage
      BY DEF Ready
    <2>. QED
      BY <1>0, <2>3, <2>5, <2>6, ReadyFinite, SMTT(30) DEF Counted, PipeType
  <1>. QED
    BY <1>1, <1>2, <1>3, <1>4, <1>5, <1>6, <1>7, <1>8

LEMMA StartSendKeeps == ASSUME PipeInv, StartSend PROVE PipeInv'
  <1>. USE DEF PipeInv
  <1>0. /\ main = "send" /\ main' = "idle" /\ started' = started + 1 /\ StageMutexFree(0)
        /\ data' = [data EXCEPT ![0] = Value(started + 1)]
        /\ data_ready' = [data_ready EXCEPT ![0] = 1]
        /\ woken' = IF 0 \in Stages /\ pipePc[0] = "wait"
                    THEN [woken EXCEPT ![0] = TRUE] ELSE woken
        /\ UNCHANGED <<pipePc, active, results>>
    BY DEF StartSend, pipe_send
  <1>t. /\ data_ready \in [Stage -> {0, 1}] /\ data \in [Stage -> Int]
        /\ pipePc \in [Stages -> {"start", "wait", "send"}]
        /\ woken \in [Stages -> BOOLEAN] /\ started \in Nat /\ results \in Seq(Int)
    BY DEF PipeType
  <1>v. /\ Value(started) \in Int /\ Value(started + 1) \in Int
        /\ Value(started) < Value(started + 1)
    <2>1. Value(started) \in Nat /\ Value(started + 1) = Value(started) + stages + 1
      BY <1>t, ValueGrows, Zenon
    <2>. QED
      BY <2>1, StagesAreNat
  <1>r. \A j \in Stage : data_ready'[j] = IF j = 0 THEN 1 ELSE data_ready[j]
    BY <1>0, <1>t
  <1>d. \A j \in Stage : data'[j] = IF j = 0 THEN Value(started + 1) ELSE data[j]
    BY <1>0, <1>t
  <1>1. PipeType'
    <2>1. data_ready' \in [Stage -> {0, 1}] /\ data' \in [Stage -> Int]
      BY <1>0, <1>t, <1>v, Bounds
    <2>2. woken' \in [Stages -> BOOLEAN] /\ started' \in Nat
      BY <1>0, <1>t
    <2>. QED
      BY <1>0, <2>1, <2>2 DEF PipeType
  <1>2. Sending'
    BY <1>0, <1>t, <1>r, Bounds DEF Sending
  <1>3. Genuine'
    <2>1. started + 1 \in 1 .. started' /\ data'[0] = Value(started + 1) + 0
      BY <1>0, <1>t, <1>d, <1>v, Bounds
    <2>2. 1 .. started \subseteq 1 .. started'
      BY <1>0, <1>t
    <2>. QED
      BY <1>r, <1>d, <2>1, <2>2 DEF Genuine, Value
  <1>4. Newer'
    <2>. SUFFICES ASSUME NEW j \in Stages
                  PROVE  /\ data'[j + 1] <= data'[j] + 1
                         /\ data_ready'[j] = 1 => data'[j + 1] <= data'[j]
      BY DEF Newer
    <2>1. j \in Nat /\ j \in Stage /\ j + 1 \in Stage /\ j + 1 # 0
      BY Bounds
    <2>2. data[j + 1] <= data[j] + 1 /\ (data_ready[j] = 1 => data[j + 1] <= data[j])
      BY DEF Newer
    <2>3. data[j] \in Int /\ data[j + 1] \in Int
      BY <1>t, <2>1
    <2>4. CASE j = 0
      BY <1>r, <1>d, <1>v, <2>1, <2>2, <2>3, <2>4 DEF Newest
    <2>5. CASE j # 0
      BY <1>r, <1>d, <2>1, <2>2, <2>3, <2>5
    <2>. QED
      BY <2>4, <2>5
  <1>5. Newest'
    BY <1>0, <1>d, <1>v, Bounds DEF Newest, Value
  <1>6. Older'
    <2>0. \A j \in DOMAIN results : results[j] \in Int
      BY <1>t
    <2>1. data[stages] \in Int /\ data[0] \in Int
      BY <1>t, Bounds
    <2>2. CASE stages = 0
      BY <1>0, <1>r, <1>d, <1>v, <2>0, <2>1, <2>2, Bounds DEF Older, Newest
    <2>3. CASE stages # 0
      BY <1>0, <1>r, <1>d, <2>3, Bounds DEF Older
    <2>. QED
      BY <2>2, <2>3
  <1>7. InOrder'
    <2>1. 1 .. started \subseteq 1 .. started'
      BY <1>0, <1>t
    <2>. QED
      BY <1>0, <2>1 DEF InOrder, Outcome, Value
  <1>8. Counted'
    <2>1. Ready' = Ready \cup {0}
      BY <1>r, Bounds DEF Ready
    <2>2. Ready \in SUBSET Stage /\ Ready' \in SUBSET Stage
      BY DEF Ready
    <2>3. Cardinality(Ready') <= Cardinality(Ready) + 1
      BY <2>1, <2>2, ReadySet, Zenon
    <2>. QED
      BY <1>0, <2>2, <2>3, ReadyFinite DEF Counted, PipeType
  <1>. QED
    BY <1>1, <1>2, <1>3, <1>4, <1>5, <1>6, <1>7, <1>8

\* The counting steps of pipe_start and pipe_result.
LEMMA CountingKeeps == ASSUME PipeInv, pipe_start \/ pipe_result PROVE PipeInv'
  <1>. USE DEF PipeInv
  <1>1. PipeType'
    BY DEF PipeType, pipe_start, pipe_result
  <1>2. Sending' /\ Genuine' /\ Newer' /\ Newest' /\ Older' /\ InOrder'
    BY DEF pipe_start, pipe_result, Sending, Genuine, Newer, Newest, Older, InOrder
  <1>3. Counted'
    <2>1. Ready' = Ready /\ Cardinality(Ready) \in Nat
      BY ReadyFinite DEF pipe_start, pipe_result, Ready
    <2>. QED
      BY <2>1 DEF pipe_start, pipe_result, Counted, PipeType
  <1>. QED
    BY <1>1, <1>2, <1>3

LEMMA ResultTakeKeeps == ASSUME PipeInv, ResultTake PROVE PipeInv'
  <1>. USE DEF PipeInv
  <1>0. /\ main = "result" /\ main' = "idle" /\ data_ready[stages] = 1
        /\ data_ready' = [data_ready EXCEPT ![stages] = 0]
        /\ results' = Append(results, data[stages])
        /\ UNCHANGED <<data, pipePc, woken, active, started>>
    BY DEF ResultTake
  <1>t. /\ data_ready \in [Stage -> {0, 1}] /\ data \in [Stage -> Int]
        /\ started \in Nat /\ results \in Seq(Int) /\ Len(results) \in Nat
    BY DEF PipeType
  <1>r. \A j \in Stage : data_ready'[j] = IF j = stages THEN 0 ELSE data_ready[j]
    BY <1>0, <1>t
  <1>d. data[stages] \in Int
    BY <1>t, Bounds
  <1>s. /\ DOMAIN results' = 1 .. Len(results) + 1 /\ DOMAIN results = 1 .. Len(results)
        /\ \A j \in 1 .. Len(results) : results'[j] = results[j] /\ results[j] \in Int
        /\ results'[Len(results) + 1] = data[stages]
    BY <1>0, <1>t, <1>d
  <1>1. PipeType'
    <2>1. data_ready' \in [Stage -> {0, 1}]
      BY <1>0, <1>t, Zenon
    <2>2. results' \in Seq(Int)
      BY <1>0, <1>t, <1>d
    <2>. QED
      BY <1>0, <2>1, <2>2 DEF PipeType
  <1>2. Sending'
    BY <1>0, <1>r, Bounds, StagesAreNat DEF Sending, Stages
  <1>3. Genuine'
    BY <1>0, <1>r DEF Genuine, Value
  <1>4. Newer'
    BY <1>0, <1>r, Bounds DEF Newer
  <1>5. Newest'
    BY <1>0 DEF Newest, Value
  <1>6. Older'
    BY <1>0, <1>r, <1>s, <1>d, Bounds DEF Older
  <1>7. InOrder'
    <2>1. \A j \in 1 .. Len(results) : results[j] < data[stages]
      BY <1>0, <1>s DEF Older
    <2>2. \E k \in 1 .. started : data[stages] = Outcome(k)
      BY <1>0, Bounds DEF Genuine, Outcome
    <2>3. \A j \in DOMAIN results' : \E k \in 1 .. started' : results'[j] = Outcome(k)'
      BY <1>0, <1>s, <2>2 DEF InOrder, Outcome, Value
    <2>4. \A j, l \in DOMAIN results' : j < l => results'[j] < results'[l]
      BY <1>s, <1>t, <2>1 DEF InOrder
    <2>. QED
      BY <2>3, <2>4 DEF InOrder
  <1>8. Counted'
    <2>1. Ready' = Ready \ {stages} /\ stages \in Ready
      BY <1>0, <1>r, Bounds DEF Ready
    <2>2. Ready \in SUBSET Stage
      BY DEF Ready
    <2>3. Cardinality(Ready') = Cardinality(Ready) - 1 /\ Cardinality(Ready) \in Nat
      BY <2>1, <2>2, ReadySet, ReadyFinite
    <2>. QED
      BY <1>0, <2>3 DEF Counted, PipeType
  <1>. QED
    BY <1>1, <1>2, <1>3, <1>4, <1>5, <1>6, <1>7, <1>8

LEMMA PipeKeeps == PipeInv /\ [PipeNext]_pipeVars => PipeInv'
  <1>1. ASSUME PipeInv, UNCHANGED pipeVars PROVE PipeInv'
    BY <1>1 DEF PipeInv, pipeVars, PipeType, Sending, Genuine, Newer, Newest, Older, InOrder,
                Counted, Ready, Outcome, Value
  <1>. QED
    BY <1>1, LookKeeps, PassKept, StartSendKeeps, CountingKeeps, ResultTakeKeeps
    DEF PipeNext, pipe_stage

LEMMA PipeBegins == PipeInit => PipeInv
  <1>. SUFFICES ASSUME PipeInit PROVE PipeInv
    OBVIOUS
  <1>1. PipeType /\ Sending /\ Genuine /\ Older /\ InOrder
    BY DEF PipeInit, PipeType, Sending, Genuine, Older, InOrder
  <1>2. Newer
    BY Bounds DEF PipeInit, Newer
  <1>3. Newest
    BY Bounds, ValueGrows DEF PipeInit, Newest
  <1>4. Counted
    <2>1. Ready = {}
      BY DEF PipeInit, Ready
    <2>. QED
      BY <2>1, FS_EmptySet DEF PipeInit, Counted
  <1>. QED
    BY <1>1, <1>2, <1>3, <1>4 DEF PipeInv

LEMMA PipeEmptyExact == PipeInv => EmptyIsEmpty
  <1>1. Ready \in SUBSET Stage /\ Ready = {i \in Stage : data_ready[i] = 1}
    BY DEF Ready
  <1>. QED
    BY <1>1, ReadyFinite DEF PipeInv, PipeType, Counted, EmptyIsEmpty

-----------------------------------------------------------------------------
\* backoff.c: three mutexes locked in two orders.

BackoffType ==
    /\ owner \in [Mutexes -> Routines \cup {"free"}]
    /\ backoffPc \in [Routines -> {"lock", "try", "backoff", "unlock", "done"}]
    /\ at \in [Routines -> 0 .. 2]

\* A thread has only mutexes that it has locked and not yet given back.
HasWhatItLocked ==
    \A t \in Routines, m \in Mutexes :
        owner[m] = t => /\ backoffPc[t] \in {"try", "backoff", "unlock"}
                        /\ backoffPc[t] = "try" => Order(t, m) < at[t]
                        /\ backoffPc[t] = "backoff" => Order(t, m) <= at[t]
                        /\ backoffPc[t] = "unlock" => at[t] <= m

BackoffInv == BackoffType /\ HasWhatItLocked

LEMMA OrderIsOwnInverse ==
    ASSUME NEW t \in Routines, NEW m \in Mutexes
    PROVE  Order(t, m) \in Mutexes /\ Order(t, Order(t, m)) = m
  BY DEF Order, Mutexes

LEMMA BackoffKeeps == BackoffInv /\ [BackoffNext]_backoffVars => BackoffInv'
  <1>. SUFFICES ASSUME BackoffInv, [BackoffNext]_backoffVars PROVE BackoffInv'
    OBVIOUS
  <1>. USE DEF BackoffInv, BackoffType, BackoffGoto
  <1>1. ASSUME NEW t \in Routines, lock_first(t) PROVE BackoffInv'
    <2>1. BackoffType'
      BY <1>1, OrderIsOwnInverse DEF lock_first, Mutexes
    <2>2. HasWhatItLocked'
      BY <1>1, OrderIsOwnInverse, SMTT(30) DEF lock_first, HasWhatItLocked, Order, Mutexes, Routines
    <2>. QED
      BY <2>1, <2>2
  <1>2. ASSUME NEW t \in Routines, trylock(t) PROVE BackoffInv'
    <2>1. BackoffType'
      BY <1>2, OrderIsOwnInverse DEF trylock, Mutexes
    <2>2. HasWhatItLocked'
      BY <1>2, SMTT(30) DEF trylock, HasWhatItLocked, Order, Mutexes, Routines
    <2>. QED
      BY <2>1, <2>2
  <1>3. ASSUME NEW t \in Routines, EBUSY(t) PROVE BackoffInv'
    <2>1. BackoffType'
      BY <1>3 DEF EBUSY
    <2>2. HasWhatItLocked'
      BY <1>3 DEF EBUSY, HasWhatItLocked, Order, Mutexes, Routines
    <2>. QED
      BY <2>1, <2>2
  <1>4. ASSUME NEW t \in Routines, BackOff(t) PROVE BackoffInv'
    <2>1. BackoffType'
      BY <1>4, OrderIsOwnInverse DEF BackOff, Mutexes
    <2>2. HasWhatItLocked'
      BY <1>4, SMTT(30) DEF BackOff, HasWhatItLocked, Order, Mutexes, Routines
    <2>. QED
      BY <2>1, <2>2
  <1>5. ASSUME NEW t \in Routines, Unlock(t) PROVE BackoffInv'
    <2>1. BackoffType'
      BY <1>5 DEF Unlock, Mutexes
    <2>2. HasWhatItLocked'
      BY <1>5, SMTT(30) DEF Unlock, HasWhatItLocked, Order, Mutexes, Routines
    <2>. QED
      BY <2>1, <2>2
  <1>6. CASE UNCHANGED backoffVars
    BY <1>6 DEF backoffVars, HasWhatItLocked
  <1>. QED
    BY <1>1, <1>2, <1>3, <1>4, <1>5, <1>6 DEF BackoffNext

\* Whoever has the mutex that a thread waits for can go on.
LEMMA BackoffGoesOn == BackoffInv => WaitsWithNothing /\ NeverStuck
  <1>. SUFFICES ASSUME BackoffInv PROVE WaitsWithNothing /\ NeverStuck
    OBVIOUS
  <1>1. WaitsWithNothing
    BY DEF BackoffInv, HasWhatItLocked, WaitsWithNothing
  <1>2. ASSUME NEW t \in Routines, backoffPc[t] = "lock", owner[Order(t, 0)] # "free"
        PROVE  \E u \in Routines : backoffPc[u] \in {"try", "backoff", "unlock"}
    <2>1. owner[Order(t, 0)] \in Routines /\ Order(t, 0) \in Mutexes
      BY <1>2, OrderIsOwnInverse DEF BackoffInv, BackoffType, Mutexes
    <2>. QED
      BY <2>1 DEF BackoffInv, HasWhatItLocked
  <1>3. NeverStuck
    BY <1>2 DEF NeverStuck, BackoffInv, BackoffType
  <1>. QED
    BY <1>1, <1>3

LEMMA BackoffStart == BackoffInit => BackoffInv
  BY DEF BackoffInit, BackoffInv, BackoffType, HasWhatItLocked, Routines

-----------------------------------------------------------------------------
(* The three example programs keep their promises, for any number of stages,
   of alarms, of seconds asked for and of iterations: the pipeline's results
   come out in the order main put them in and "empty" is only printed when
   nothing is in flight (pipe.c:203-240); a thread of backoff.c never waits
   for a mutex while it has one and some thread can always go on
   (backoff.c:40-130); the alarm list stays sorted and no alarm that becomes
   the earliest is left without a wakeup (alarm_cond.c:35-70, 85-140). *)
THEOREM ProgramsCorrect == AlarmSpec /\ PipeSpec /\ BackoffSpec => []ProgramsSound
  <1>1. AlarmSpec => []AlarmInv
    BY AlarmBegins, AlarmKeeps, PTL DEF AlarmSpec
  <1>2. PipeSpec => []PipeInv
    BY PipeBegins, PipeKeeps, PTL DEF PipeSpec
  <1>3. BackoffSpec => []BackoffInv
    BY BackoffStart, BackoffKeeps, PTL DEF BackoffSpec
  <1>4. AlarmInv /\ PipeInv /\ BackoffInv => ProgramsSound
    BY AlarmNoneLost, PipeEmptyExact, BackoffGoesOn DEF AlarmInv, PipeInv, ProgramsSound
  <1>. QED
    BY <1>1, <1>2, <1>3, <1>4, PTL
=============================================================================
