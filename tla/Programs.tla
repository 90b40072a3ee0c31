------------------------------- MODULE Programs -------------------------------
(***************************************************************************)
(* Three programs of thread_posix/ that share state: the alarm clock of    *)
(* demo4/alarm_cond.c, the pipeline of demo5/pipe.c and the back-off of    *)
(* demo3/backoff.c.                                                        *)
(***************************************************************************)
EXTENDS Integers, Sequences, FiniteSets

CONSTANTS Alarms, NoAlarm,
          Seconds,         \* the delays that are entered
          MaxTime,         \* bound on the clock
          stages,
          MaxStarts,       \* bound on the values that are started
          ITERATIONS

ASSUME SecondsAreNat == Seconds \subseteq Nat
ASSUME StagesAreNat == stages \in Nat

-----------------------------------------------------------------------------
(* alarm_cond.c.  main puts alarms into a list ordered by time;            *)
(* alarm_thread takes the first one and waits for its time on a condition  *)
(* variable, which main signals when an earlier alarm comes.  alarm_thread *)
(* has alarm_mutex except while it waits, so main runs only then.          *)

VARIABLES now,
          alarm_list,
          time,            \* alarm -> when it is due, 0 before it is entered
          current_alarm,   \* the time that is waited for; 0 for none
          alarmPc,              \* alarm_thread: "start", "loop", "wait", "timedwait", "woken"
          alarm,           \* the alarm it has taken from the list
          signalled,       \* a signal has reached it and it waits for the mutex
          fired

alarmVars == <<now, alarm_list, time, current_alarm, alarmPc, alarm, signalled, fired>>

AlarmMutexFree == alarmPc \in {"start", "wait", "timedwait"}

AlarmInit ==
    /\ now = 1
    /\ alarm_list = <<>>
    /\ time = [a \in Alarms |-> 0]
    /\ current_alarm = 0
    /\ alarmPc = "start" /\ alarm = NoAlarm /\ signalled = FALSE
    /\ fired = {}

AlarmTick ==
    /\ now < MaxTime
    /\ now' = now + 1
    /\ UNCHANGED <<alarm_list, time, current_alarm, alarmPc, alarm, signalled, fired>>

-----------------------------------------------------------------------------
\* pthread_cond_signal: lost when nobody waits.
CondSignal == signalled' = (signalled \/ alarmPc \in {"wait", "timedwait"})

\* The list with a behind its place n.
Behind(list, n, a) == SubSeq(list, 1, n) \o <<a>> \o SubSeq(list, n + 1, Len(list))

\* Alarm a goes before the first alarm of the list that is not due earlier.
alarm_insert(a, due) ==
    /\ \E n \in 0 .. Len(alarm_list) :
          /\ \A k \in 1 .. n : due[alarm_list[k]] < due[a]
          /\ n < Len(alarm_list) => due[alarm_list[n + 1]] >= due[a]
          /\ alarm_list' = Behind(alarm_list, n, a)
    /\ IF current_alarm = 0 \/ due[a] < current_alarm
       THEN current_alarm' = due[a] /\ CondSignal
       ELSE UNCHANGED <<current_alarm, signalled>>

\* main enters an alarm.
Enter(a, seconds) ==
    /\ AlarmMutexFree
    /\ time[a] = 0
    /\ now + seconds <= MaxTime
    /\ time' = [time EXCEPT ![a] = now + seconds]
    /\ alarm_insert(a, time')
    /\ UNCHANGED <<now, alarmPc, alarm, fired>>

-----------------------------------------------------------------------------
(* alarm_thread *)

AlarmStart ==
    /\ alarmPc = "start"
    /\ alarmPc' = "loop"
    /\ UNCHANGED <<now, alarm_list, time, current_alarm, alarm, signalled, fired>>

\* The list is empty: wait.
Empty ==
    /\ alarmPc = "loop" /\ alarm_list = <<>>
    /\ current_alarm' = 0
    /\ alarmPc' = "wait"
    /\ UNCHANGED <<now, alarm_list, time, alarm, signalled, fired>>

\* The thread takes the first alarm, which is over or is waited for; current is
\* current_alarm until then.
Take(current) ==
    LET a == Head(alarm_list)
    IN  /\ alarm_list # <<>>
        /\ alarm_list' = Tail(alarm_list)
        /\ IF time[a] > now
           THEN /\ current_alarm' = time[a] /\ alarm' = a /\ alarmPc' = "timedwait"
                /\ UNCHANGED fired
           ELSE /\ fired' = fired \cup {a} /\ current_alarm' = current /\ alarmPc' = "loop"
                /\ UNCHANGED alarm

Loop ==
    /\ alarmPc = "loop"
    /\ Take(0)
    /\ UNCHANGED <<now, time, signalled>>

\* pthread_cond_wait returns.  Without a signal there is nothing to wake up for: a
\* spurious wakeup finds the same list and waits again.
AlarmWoken ==
    /\ alarmPc = "wait" /\ signalled
    /\ signalled' = FALSE
    /\ Take(current_alarm)
    /\ UNCHANGED <<now, time>>

TimedOut ==
    /\ alarmPc = "timedwait" /\ now >= time[alarm]
    /\ fired' = fired \cup {alarm}
    /\ alarm' = NoAlarm /\ alarmPc' = "loop" /\ signalled' = FALSE
    /\ UNCHANGED <<now, alarm_list, time, current_alarm>>

TimedWoken ==
    /\ alarmPc = "timedwait" /\ signalled
    /\ signalled' = FALSE
    /\ alarmPc' = "woken"
    /\ UNCHANGED <<now, alarm_list, time, current_alarm, alarm, fired>>

\* Mutant: the alarm that was waited for is not put back.
EarlierForgets ==
    /\ alarmPc = "woken"
    /\ IF current_alarm = time[alarm]
       THEN alarmPc' = "timedwait" /\ UNCHANGED <<alarm_list, current_alarm, signalled, alarm>>
       ELSE /\ alarmPc' = "loop" /\ alarm' = NoAlarm
            /\ UNCHANGED <<alarm_list, current_alarm, signalled>>
    /\ UNCHANGED <<now, time, fired>>

\* When an earlier alarm has come, the one that was waited for goes back into the list.
Earlier ==
    /\ alarmPc = "woken"
    /\ IF current_alarm = time[alarm]
       THEN alarmPc' = "timedwait" /\ UNCHANGED <<alarm_list, current_alarm, signalled, alarm>>
       ELSE alarm_insert(alarm, time) /\ alarmPc' = "loop" /\ alarm' = NoAlarm
    /\ UNCHANGED <<now, time, fired>>

alarm_thread == AlarmStart \/ Empty \/ Loop \/ AlarmWoken \/ TimedOut \/ TimedWoken \/ Earlier

AlarmNext ==
    \/ \E a \in Alarms, seconds \in Seconds : Enter(a, seconds)
    \/ alarm_thread
    \/ AlarmTick

AlarmSpec == AlarmInit /\ [][AlarmNext]_alarmVars

-----------------------------------------------------------------------------
Listed == {alarm_list[i] : i \in DOMAIN alarm_list}

\* alarm_thread never sleeps past an alarm: while it waits and no signal is on its way,
\* nothing in the list is due before what it waits for.
NoWakeupLost ==
    ~signalled =>
        /\ alarmPc = "wait" => alarm_list = <<>>
        /\ alarmPc = "timedwait" => \A a \in Listed : time[alarm] <= time[a]

\* The list is ordered by time, although alarms are put back into it.
ListSorted ==
    \A i, j \in DOMAIN alarm_list : i < j => time[alarm_list[i]] <= time[alarm_list[j]]

\* Alarms that were entered and have yet to go off.
Due == {a \in Alarms : time[a] # 0} \ fired

-----------------------------------------------------------------------------
(* pipe.c: stages 0 .. stages, each with a value and a flag under its      *)
(* mutex; the thread of stage i adds 1 to its value and sends it to stage  *)
(* i + 1, with the mutex of its own stage held; main puts values into      *)
(* stage 0 and takes results from the last stage, which has no thread.     *)
(* The wait for an empty stage in pipe_send is compiled out.               *)

VARIABLES data_ready, data,    \* per stage
          pipePc,                  \* per thread: "start", "wait" or "send"
          woken,               \* avail of the stage was signalled to its thread
          active,
          main,                \* "idle", "send" or "result"
          started,             \* number of values started
          results              \* what pipe_result returned

pipeVars == <<data_ready, data, pipePc, woken, active, main, started, results>>

Stage == 0 .. stages
Stages == 0 .. stages - 1

\* A thread has its mutex except before it starts and while it waits.
StageMutexFree(i) == i \in Stages => pipePc[i] # "send"

\* The values are apart by more than the stages add.
Value(k) == k * (stages + 1)

PipeInit ==
    /\ data_ready = [i \in Stage |-> 0]
    /\ data = [i \in Stage |-> 0]
    /\ pipePc = [i \in Stages |-> "start"]
    /\ woken = [i \in Stages |-> FALSE]
    /\ active = 0
    /\ main = "idle"
    /\ started = 0
    /\ results = <<>>

-----------------------------------------------------------------------------
\* What pipe_send does to stage i, whether or not it has a value.
pipe_send(i, value, ready) ==
    /\ StageMutexFree(i)
    /\ data' = [data EXCEPT ![i] = value]
    /\ data_ready' = [ready EXCEPT ![i] = 1]
    /\ woken' = IF i \in Stages /\ pipePc[i] = "wait" THEN [woken EXCEPT ![i] = TRUE] ELSE woken

\* The thread of stage i gets its mutex, when it starts or after a signal, and looks at
\* data_ready.
Look(i) ==
    /\ pipePc[i] = "start" \/ (pipePc[i] = "wait" /\ woken[i])
    /\ woken' = [woken EXCEPT ![i] = FALSE]
    /\ pipePc' = [pipePc EXCEPT ![i] = IF data_ready[i] = 1 THEN "send" ELSE "wait"]
    /\ UNCHANGED <<data_ready, data, active, main, started, results>>

\* Mutant: the flag of the stage is not cleared.
PassKeeps(i) ==
    /\ pipePc[i] = "send"
    /\ pipe_send(i + 1, data[i] + 1, data_ready)
    /\ UNCHANGED pipePc
    /\ UNCHANGED <<active, main, started, results>>

\* It sends the value on and clears its flag, still with its mutex.
Pass(i) ==
    /\ pipePc[i] = "send"
    /\ pipe_send(i + 1, data[i] + 1, [data_ready EXCEPT ![i] = 0])
    /\ pipePc' = [pipePc EXCEPT ![i] = "wait"]
    /\ UNCHANGED <<active, main, started, results>>

pipe_stage(i) == Look(i) \/ Pass(i)

-----------------------------------------------------------------------------
pipe_start ==
    /\ main = "idle" /\ started < MaxStarts
    /\ active' = active + 1
    /\ main' = "send"
    /\ UNCHANGED <<data_ready, data, pipePc, woken, started, results>>

StartSend ==
    /\ main = "send"
    /\ pipe_send(0, Value(started + 1), data_ready)
    /\ started' = started + 1
    /\ main' = "idle"
    /\ UNCHANGED <<pipePc, active, results>>

\* pipe_result, which returns 0 when nothing is active.
pipe_result ==
    /\ main = "idle" /\ active > 0
    /\ active' = active - 1
    /\ main' = "result"
    /\ UNCHANGED <<data_ready, data, pipePc, woken, started, results>>

ResultTake ==
    /\ main = "result" /\ data_ready[stages] = 1
    /\ results' = Append(results, data[stages])
    /\ data_ready' = [data_ready EXCEPT ![stages] = 0]
    /\ main' = "idle"
    /\ UNCHANGED <<data, pipePc, woken, active, started>>

PipeNext ==
    \/ \E i \in Stages : pipe_stage(i)
    \/ pipe_start \/ StartSend \/ pipe_result \/ ResultTake

PipeSpec == PipeInit /\ [][PipeNext]_pipeVars

-----------------------------------------------------------------------------
Outcome(k) == Value(k) + stages

\* Value k is at the end of the pipeline or has been returned.
Arrived(k) ==
    \/ data_ready[stages] = 1 /\ data[stages] = Outcome(k)
    \/ \E i \in DOMAIN results : results[i] = Outcome(k)

\* Results come out in the order in which the values went in, each at most once and
\* with 1 added by every stage; the overwriting in pipe_send loses values but mixes
\* none.
InOrder ==
    /\ \A i \in DOMAIN results : \E k \in 1 .. started : results[i] = Outcome(k)
    /\ \A i, j \in DOMAIN results : i < j => results[i] < results[j]

\* pipe_result calls the pipeline empty only when no stage has a value.
EmptyIsEmpty ==
    main # "result" => Cardinality({i \in Stage : data_ready[i] = 1}) <= active

\* The last value is there: nothing overwrote it and no signal was lost on the way.
LastArrived == started > 0 => Arrived(started)

-----------------------------------------------------------------------------
(* backoff.c: two threads that lock three mutexes in opposite orders.  A   *)
(* thread waits only for its first mutex; when pthread_mutex_trylock of a  *)
(* later one finds it taken, the thread unlocks in the order back,         *)
(* beginning with the mutex it did not get.  Unlocking a default mutex     *)
(* that another thread has is undefined; the pthread library of Linux then *)
(* makes it free.                                                          *)

VARIABLES owner,       \* mutex -> the thread that locked it, or "free"
          backoffPc,          \* "lock", "try", "backoff", "unlock" or "done"
          at,          \* how far a thread is in its order
          iterate

backoffVars == <<owner, backoffPc, at, iterate>>

Routines == {"forward", "backward"}
Mutexes == 0 .. 2

\* The mutex at place i of a thread's order.
Order(t, i) == IF t = "forward" THEN i ELSE 2 - i

BackoffInit ==
    /\ owner = [m \in Mutexes |-> "free"]
    /\ backoffPc = [t \in Routines |-> "lock"]
    /\ at = [t \in Routines |-> 0]
    /\ iterate = [t \in Routines |-> 0]

-----------------------------------------------------------------------------
BackoffGoto(t, point, i) ==
    backoffPc' = [backoffPc EXCEPT ![t] = point] /\ at' = [at EXCEPT ![t] = i]

lock_first(t) ==
    /\ backoffPc[t] = "lock"
    /\ owner[Order(t, 0)] = "free"
    /\ owner' = [owner EXCEPT ![Order(t, 0)] = t]
    /\ BackoffGoto(t, "try", 1)
    /\ UNCHANGED iterate

trylock(t) ==
    /\ backoffPc[t] = "try"
    /\ owner[Order(t, at[t])] = "free"
    /\ owner' = [owner EXCEPT ![Order(t, at[t])] = t]
    /\ IF at[t] = 2 THEN BackoffGoto(t, "unlock", 0) ELSE BackoffGoto(t, "try", at[t] + 1)
    /\ UNCHANGED iterate

EBUSY(t) ==
    /\ backoffPc[t] = "try"
    /\ owner[Order(t, at[t])] # "free"
    /\ BackoffGoto(t, "backoff", at[t])
    /\ UNCHANGED <<owner, iterate>>

BackOff(t) ==
    /\ backoffPc[t] = "backoff"
    /\ owner' = [owner EXCEPT ![Order(t, at[t])] = "free"]
    /\ IF at[t] = 0 THEN BackoffGoto(t, "lock", 0) ELSE BackoffGoto(t, "backoff", at[t] - 1)
    /\ UNCHANGED iterate

\* Both threads unlock 0, 1 and 2 in this order.
Unlock(t) ==
    /\ backoffPc[t] = "unlock"
    /\ owner' = [owner EXCEPT ![at[t]] = "free"]
    /\ IF at[t] < 2 THEN BackoffGoto(t, "unlock", at[t] + 1) /\ UNCHANGED iterate
       ELSE /\ iterate' = [iterate EXCEPT ![t] = iterate[t] + 1]
            /\ BackoffGoto(t, IF iterate[t] + 1 = ITERATIONS THEN "done" ELSE "lock", 0)

BackoffNext ==
    \E t \in Routines : lock_first(t) \/ trylock(t) \/ EBUSY(t) \/ BackOff(t) \/ Unlock(t)

BackoffSpec == BackoffInit /\ [][BackoffNext]_backoffVars

-----------------------------------------------------------------------------
\* Why the program cannot deadlock: a thread that waits for a mutex has none.  The
\* loop that backs off gives all of them back.
WaitsWithNothing ==
    \A t \in Routines : backoffPc[t] = "lock" => \A m \in Mutexes : owner[m] # t

\* The two threads never both wait, though they lock in opposite orders: unless both are
\* done, one of them is inside an iteration or finds its first mutex free.
NeverStuck ==
    \/ \A t \in Routines : backoffPc[t] = "done"
    \/ \E t \in Routines : /\ backoffPc[t] # "done"
                          /\ backoffPc[t] = "lock" => owner[Order(t, 0)] = "free"

-----------------------------------------------------------------------------
\* Pipeline: results come out in order, each at most once and complete, and pipe_result
\* calls the pipeline empty only when no stage has a value.  Back-off: a thread that
\* waits for a mutex has none, and the two threads never both wait.  Alarms: the list is
\* ordered by time although alarms are put back into it, and alarm_thread never sleeps
\* past an alarm.
ProgramsSound ==
    /\ InOrder /\ EmptyIsEmpty
    /\ WaitsWithNothing /\ NeverStuck
    /\ ListSorted /\ NoWakeupLost
=============================================================================
