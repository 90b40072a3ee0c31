------------------------------ MODULE TimerQueue ------------------------------
(***************************************************************************)
(* The timers of comLib/dhntimer: the thread that runs Timer::run of       *)
(* DHNTimer_T.h and expires timers with TimerQueue::expire of              *)
(* DHNTimerQueue.h, on the wheel of DHNTimerWheel.h, while other threads   *)
(* and the callbacks themselves add and cancel timers.  The recursive      *)
(* m_mutex is held by the timer thread from expire() to its return,        *)
(* callbacks included; every other call runs under it and is one step.     *)
(*                                                                         *)
(* The wheel has spoke_count_ lists of timers, each sorted by expiry time, *)
(* and the index of the list whose first timer is the earliest of all.  A  *)
(* list is the sequence of its nodes without the root; root_cnt is the     *)
(* counter the root keeps.  The other field of a root, act1, is only set   *)
(* behind a null pointer that generate_timer_id follows first, so it stays *)
(* 0.  Times are in milliseconds, and a timer is a record.                 *)
(***************************************************************************)
EXTENDS Integers, Sequences, Functions

CONSTANTS spoke_bits_, res_bits_,
          LongBits, IntBits           \* widths of long and int

VARIABLES spokes_, earliest_spoke_, timer_count_,
          root_cnt,                   \* per spoke: the counter for timer ids
          crashed                     \* a null pointer was followed

wheelVars == <<spokes_, earliest_spoke_, timer_count_, root_cnt, crashed>>

spoke_count_ == 2 ^ spoke_bits_
Spokes == 0 .. spoke_count_ - 1
wheel_time_ == 2 ^ res_bits_
MaxCnt == 2 ^ (LongBits - spoke_bits_) - 1

ASSUME WheelAssumption ==
    /\ spoke_count_ \in Nat \ {0} /\ wheel_time_ \in Nat \ {0}
    /\ 2 ^ IntBits \in Nat \ {0} /\ 2 ^ (IntBits - 1) \in Nat

Linked == UNION {Range(spokes_[s]) : s \in Spokes}

calculate_spoke(t) == (t \div wheel_time_) % spoke_count_

\* A long converted to int keeps its low bits.
ToInt(x) == ((x + 2 ^ (IntBits - 1)) % 2 ^ IntBits) - 2 ^ (IntBits - 1)

Wheel ==
    /\ spokes_ = [s \in Spokes |-> <<>>]
    /\ earliest_spoke_ = 0
    /\ timer_count_ = 0
    /\ root_cnt = [s \in Spokes |-> 0]
    /\ crashed = FALSE

is_empty == timer_count_ = 0

\* get_first_i returns a null pointer when the earliest spoke has no timer, and
\* earliest_time is then zero.
has_first == spokes_[earliest_spoke_] # <<>>
earliest_time == IF has_first THEN Head(spokes_[earliest_spoke_]).value ELSE 0

-----------------------------------------------------------------------------
\* generate_timer_id: the id, -1 when there is none, and the new counters.
\* The search after an overflow follows the null pointer find_spoke_node returned
\* as soon as it finds a free counter.
IdAfterOverflow(spoke) ==
    LET used == {n.id : n \in Range(spokes_[spoke])}
        free == {c \in 0 .. MaxCnt - 2 : c * spoke_count_ + spoke \notin used}
    IN  [id |-> -1, cnt |-> root_cnt[spoke], crash |-> free # {}]

generate_timer_id(spoke) ==
    LET cnt == root_cnt[spoke]
    IN  IF cnt < MaxCnt
        THEN [id |-> ToInt(cnt * spoke_count_ + spoke), cnt |-> cnt + 1, crash |-> FALSE]
        ELSE IF spokes_[spoke] = <<>>
        THEN [id |-> spoke, cnt |-> 1, crash |-> FALSE]
        ELSE IdAfterOverflow(spoke)

\* A new timer goes behind the last one that is not later, the k-th.
Behind(list, k, value) ==
    /\ k > 0 => list[k].value <= value
    /\ \A i \in k + 1 .. Len(list) : list[i].value > value

Inserted(list, k, n) == SubSeq(list, 1, k) \o <<n>> \o SubSeq(list, k + 1, Len(list))

\* Mutant: the earliest spoke is set only when the wheel is empty.
schedule_i_late(n) ==
    LET spoke == calculate_spoke(n.value)
    IN  /\ earliest_spoke_' = IF is_empty THEN spoke ELSE earliest_spoke_
        /\ timer_count_' = timer_count_ + 1
        /\ \E k \in 0 .. Len(spokes_[spoke]) :
              /\ Behind(spokes_[spoke], k, n.value)
              /\ spokes_' = [spokes_ EXCEPT ![spoke] = Inserted(@, k, n)]

schedule_i(n) ==
    LET spoke == calculate_spoke(n.value)
    IN  /\ earliest_spoke_' = IF is_empty \/ n.value < earliest_time
                              THEN spoke ELSE earliest_spoke_
        /\ timer_count_' = timer_count_ + 1
        /\ \E k \in 0 .. Len(spokes_[spoke]) :
              /\ Behind(spokes_[spoke], k, n.value)
              /\ spokes_' = [spokes_ EXCEPT ![spoke] = Inserted(@, k, n)]

\* When the list of a spoke begins, after an unlink.
Begins(spoke) == Head(spokes_'[spoke]).value

\* Mutant: a list that begins within a whole rotation is taken for a near one.
recalc_earliest_far(last) ==
    LET at(i) == (earliest_spoke_ + i) % spoke_count_
        full == {i \in Spokes : spokes_'[at(i)] # <<>>}
        near == {i \in full : Begins(at(i)) < last + spoke_count_ * wheel_time_}
        first == {i \in full : \A j \in full : Begins(at(i)) <= Begins(at(j))}
        taken == IF near # {} THEN near ELSE first
    IN  IF is_empty' THEN earliest_spoke_' = earliest_spoke_
        ELSE \E i \in taken : /\ \A j \in taken : i <= j
                              /\ earliest_spoke_' = at(i)

\* recalc_earliest, after the earliest timer, which was due at last, was unlinked:
\* the first list from the old spoke on that begins within wheel_time_ of last,
\* or the one that begins earliest.
recalc_earliest(last) ==
    LET at(i) == (earliest_spoke_ + i) % spoke_count_
        full == {i \in Spokes : spokes_'[at(i)] # <<>>}
        near == {i \in full : Begins(at(i)) < last + wheel_time_}
        first == {i \in full : \A j \in full : Begins(at(i)) <= Begins(at(j))}
        taken == IF near # {} THEN near ELSE first
    IN  IF is_empty' THEN earliest_spoke_' = earliest_spoke_
        ELSE \E i \in taken : /\ \A j \in taken : i <= j
                              /\ earliest_spoke_' = at(i)

Removed(list, i) == SubSeq(list, 1, i - 1) \o SubSeq(list, i + 1, Len(list))

\* unlink the i-th timer of a spoke, then recalc_earliest if it was the first.
Unlink(spoke, i) ==
    /\ spokes_' = [spokes_ EXCEPT ![spoke] = Removed(@, i)]
    /\ timer_count_' = timer_count_ - 1
    /\ IF spoke = earliest_spoke_ /\ i = 1
       THEN recalc_earliest(spokes_[spoke][i].value)
       ELSE UNCHANGED earliest_spoke_

\* find_node: the spoke of the id is searched first, then the others in order, each
\* list from its beginning.
Holders(timer_id) == {s \in Spokes : \E n \in Range(spokes_[s]) : n.id = timer_id}

find_node(timer_id, s, i) ==
    /\ \/ s = timer_id % spoke_count_
       \/ timer_id % spoke_count_ \notin Holders(timer_id) /\ \A r \in Holders(timer_id) : s <= r
    /\ spokes_[s][i].id = timer_id
    /\ \A j \in 1 .. i - 1 : spokes_[s][j].id # timer_id

-----------------------------------------------------------------------------
(* The timer thread and its callers. *)

CONSTANTS Tasks,
          Delays,          \* the timeouts of addTimer, in milliseconds
          max_wait_time,   \* the longest select of Timer::run
          MaxClock         \* bound on the clock

ASSUME TimerAssumption == Delays \subseteq Nat /\ max_wait_time \in Nat /\ "none" \notin Tasks

VARIABLES timeofday,       \* gettimeofday
          pc,              \* where the timer thread is
          wake,            \* when its select ends
          cur_time,        \* the time its expire() goes by
          expired,         \* the timer whose callback runs
          task,            \* the state of each DHNTimerTask
          running,         \* m_bRunning
          cancelled,       \* ids that cancel_timer returned 1 for
          prompt           \* the timer thread is scheduled at once, callbacks take no time

runVars == <<pc, wake, cur_time, expired>>
timerVars == <<wheelVars, runVars, timeofday, task, running, cancelled, prompt>>

Locked == pc \in {"dispatch", "callback"}
NoTimer == [id |-> -1, task |-> "none", value |-> 0, interval |-> 0]

TimerInit ==
    /\ Wheel
    /\ timeofday = 1 /\ wake = 0 /\ cur_time = 0
    /\ pc = "loop"
    /\ expired = NoTimer
    /\ task = [t \in Tasks |-> "new"]
    /\ running = TRUE
    /\ cancelled = {}
    /\ prompt \in BOOLEAN

-----------------------------------------------------------------------------
\* addTimer and schedule, by another thread while m_mutex is free or by the
\* callback.  A task is given to one timer: a repeated timer that is stopped
\* deletes its task.
Schedule(t, delay, repeat) ==
    LET spoke == calculate_spoke(timeofday + delay)
        gen == generate_timer_id(spoke)
        n == [id |-> gen.id, task |-> t, value |-> timeofday + delay,
              interval |-> IF repeat THEN delay ELSE 0]
    IN  /\ pc # "dispatch"
        /\ task[t] = "new"
        /\ task' = [task EXCEPT ![t] = "used"]
        /\ root_cnt' = [root_cnt EXCEPT ![spoke] = gen.cnt]
        /\ crashed' = gen.crash
        /\ IF gen.id # -1 THEN schedule_i(n)
           ELSE UNCHANGED <<spokes_, earliest_spoke_, timer_count_>>
        /\ UNCHANGED <<runVars, timeofday, running, cancelled, prompt>>

\* cancel_timer; an id that is not on the wheel, also that of the timer whose
\* callback runs, is not found and nothing changes.
Cancel(timer_id) ==
    /\ pc # "dispatch"
    /\ \E s \in Spokes : \E i \in 1 .. Len(spokes_[s]) :
          find_node(timer_id, s, i) /\ Unlink(s, i)
    /\ cancelled' = cancelled \cup {timer_id}
    /\ UNCHANGED <<root_cnt, crashed, runVars, timeofday, task, running, prompt>>

\* DHNTimerTask::stop_repeated; it has no effect on a task without a repeated timer.
StopRepeated(t) ==
    /\ task[t] = "used"
    /\ \E n \in Linked \cup {expired} : n.task = t /\ n.interval > 0
    /\ task' = [task EXCEPT ![t] = "stopping"]
    /\ UNCHANGED <<wheelVars, runVars, timeofday, running, cancelled, prompt>>

StopTimer ==
    /\ running' = FALSE
    /\ UNCHANGED <<wheelVars, runVars, timeofday, task, cancelled, prompt>>

\* Time is of no interest any more once the timer thread has left.
TimePasses ==
    /\ timeofday < MaxClock /\ pc # "left"
    /\ prompt => pc = "select" /\ timeofday < wake
    /\ timeofday' = timeofday + 1
    /\ UNCHANGED <<wheelVars, runVars, task, running, cancelled, prompt>>

-----------------------------------------------------------------------------
\* Mutant: max_wait_time is not looked at when a timer waits.
calculate_timeout_long ==
    IF is_empty THEN max_wait_time
    ELSE IF earliest_time > timeofday THEN earliest_time - timeofday ELSE 0

calculate_timeout ==
    IF is_empty THEN max_wait_time
    ELSE IF earliest_time <= timeofday THEN 0
    ELSE IF earliest_time - timeofday > max_wait_time THEN max_wait_time
    ELSE earliest_time - timeofday

RunSelect ==
    /\ pc = "loop" /\ running
    /\ pc' = "select"
    /\ wake' = timeofday + calculate_timeout
    /\ UNCHANGED <<wheelVars, cur_time, expired, timeofday, task, running, cancelled, prompt>>

\* The loop ends when m_bRunning is false, or when select fails.
RunLeave ==
    /\ \/ pc = "loop" /\ ~ running
       \/ pc = "select"
    /\ pc' = "left"
    /\ wake' = 0
    /\ UNCHANGED <<wheelVars, cur_time, expired, timeofday, task, running, cancelled, prompt>>

Expire ==
    /\ pc = "select"
    /\ timeofday >= wake
    /\ pc' = IF is_empty THEN "loop" ELSE "dispatch"
    /\ cur_time' = IF is_empty THEN 0 ELSE timeofday
    /\ wake' = 0
    /\ UNCHANGED <<wheelVars, expired, timeofday, task, running, cancelled, prompt>>

ExpireDone ==
    /\ pc = "dispatch"
    /\ is_empty \/ earliest_time > cur_time
    /\ pc' = "loop"
    /\ cur_time' = 0
    /\ UNCHANGED <<wheelVars, wake, expired, timeofday, task, running, cancelled, prompt>>

\* dispatch_info_i up to the call of handle_timeout.  remove_first follows the
\* pointer get_first returned without a look at it.
Dispatch ==
    /\ pc = "dispatch"
    /\ ~ is_empty /\ earliest_time <= cur_time
    /\ pc' = "callback"
    /\ IF has_first
       THEN /\ expired' = Head(spokes_[earliest_spoke_])
            /\ Unlink(earliest_spoke_, 1)
            /\ UNCHANGED crashed
       ELSE /\ crashed' = TRUE
            /\ UNCHANGED <<expired, spokes_, earliest_spoke_, timer_count_>>
    /\ UNCHANGED <<root_cnt, wake, cur_time, timeofday, task, running, cancelled, prompt>>

\* The interval is added until the timer lies after cur_time.
Skipped(n) ==
    [n EXCEPT !.value = @ + n.interval * (1 + ((cur_time - @) \div n.interval))]

\* Mutant: a repeated timer that is stopped is put back all the same.
CallbackReturnsBoth ==
    /\ pc = "callback"
    /\ pc' = "dispatch"
    /\ expired' = NoTimer
    /\ IF expired.interval > 0 THEN schedule_i(Skipped(expired))
       ELSE UNCHANGED <<spokes_, earliest_spoke_, timer_count_>>
    /\ task' = IF expired.interval > 0 /\ task[expired.task] = "stopping"
               THEN [task EXCEPT ![expired.task] = "deleted"] ELSE task
    /\ UNCHANGED <<root_cnt, crashed, wake, cur_time, timeofday, running, cancelled, prompt>>

\* dispatch_info_i after handle_timeout.
CallbackReturns ==
    /\ pc = "callback"
    /\ pc' = "dispatch"
    /\ expired' = NoTimer
    /\ IF expired.interval > 0 /\ task[expired.task] # "stopping"
       THEN schedule_i(Skipped(expired)) /\ UNCHANGED task
       ELSE /\ task' = IF expired.interval > 0 THEN [task EXCEPT ![expired.task] = "deleted"] ELSE task
            /\ UNCHANGED <<spokes_, earliest_spoke_, timer_count_>>
    /\ UNCHANGED <<root_cnt, crashed, wake, cur_time, timeofday, running, cancelled, prompt>>

TimerThread == RunSelect \/ RunLeave \/ Expire \/ ExpireDone \/ Dispatch \/ CallbackReturns

TimerNext ==
    /\ ~ crashed
    /\ \/ \E t \in Tasks, delay \in Delays, repeat \in BOOLEAN : Schedule(t, delay, repeat)
       \/ \E n \in Linked : Cancel(n.id)
       \/ \E t \in Tasks : StopRepeated(t)
       \/ StopTimer
       \/ TimePasses
       \/ TimerThread

TimerSpec == TimerInit /\ [][TimerNext]_timerVars

-----------------------------------------------------------------------------
\* The places of the wheel that hold a timer.
Places == UNION {{s} \X (1 .. Len(spokes_[s])) : s \in Spokes}

\* A list is sorted, holds only timers of the spoke and none twice.
SortedOn(list, spoke) ==
    \A i \in 1 .. Len(list) :
        /\ calculate_spoke(list[i].value) = spoke
        /\ \A j \in 1 .. i - 1 : list[j].value <= list[i].value /\ list[j] # list[i]

\* The list of each spoke is sorted, and timer_count_ counts the timers: the sorted
\* insertion of schedule_i and the spoke of calculate_spoke agree, for rescheduled
\* timers too.
WheelSorted ==
    /\ \A s \in Spokes : SortedOn(spokes_[s], s)
    /\ ExistsBijection(1 .. timer_count_, Places)

\* earliest_spoke_ is the spoke of the earliest timer of the whole wheel after any
\* schedule, cancel and expiry.
EarliestKept ==
    ~ is_empty => has_first /\ \A n \in Linked : earliest_time <= n.value

\* No counter of a spoke is at its limit, and no id is cut when it is narrowed to int.
CountersFit ==
    \A s \in Spokes : root_cnt[s] < MaxCnt /\ root_cnt[s] * spoke_count_ < 2 ^ IntBits

\* No two timers on the wheel have one id: generate_timer_id gives an id out again only
\* when the counter of its spoke has overflowed.
IdsApart ==
    (\A s \in Spokes : root_cnt[s] < MaxCnt) =>
        \A m, n \in Linked : m.id = n.id => m = n

\* The timers on the wheel and the one whose callback runs have different ids, so
\* cancel_timer hits the timer it was meant for, as long as an id fits into an int.
UniqueIds == IdsApart /\ (pc = "callback" => \A n \in Linked : n.id # expired.id)

\* The wheel keeps its order through schedule, cancel and expiry: its lists are sorted,
\* earliest_spoke_ has the earliest timer, so that remove_first never follows a null
\* pointer, and no two timers have one id.
WheelSound == WheelSorted /\ EarliestKept /\ UniqueIds /\ ~ crashed

\* A timer for which cancel_timer returned 1 does not fire any more and is not on
\* the wheel, although dispatch_info_i puts repeated timers back.
CancelFinal ==
    cancelled \cap ({n.id : n \in Linked} \cup {expired.id}) = {}

\* No callback is called on a task that handle_repeated_timer_stoped deleted.
TaskAlive ==
    \A n \in Linked \cup {expired} : n.task \in Tasks => task[n.task] # "deleted"

\* What was cancelled stays silent and what was deleted is not called: a timer for which
\* cancel_timer returned 1 is gone although dispatch_info_i puts repeated timers back,
\* and stop_repeated deletes a task only when no timer has it any more.
StaysSilent == CancelFinal /\ TaskAlive

\* When the timer thread is scheduled promptly, no timer is late by more than
\* max_wait_time, the longest select of Timer::run: addTimer does not wake the thread.
LateBound ==
    prompt /\ pc # "left" => \A n \in Linked : timeofday - n.value <= max_wait_time

\* A repeated timer does not fire twice in one expire(): dispatch_info_i skips the
\* times that have already passed.
SkipsPast ==
    [][pc = "callback" /\ pc' = "dispatch" => \A n \in Linked' \ Linked : n.value > cur_time]_timerVars

\* The wheel with its thread is the abstract set of timers.
Firing == IF pc = "callback" THEN {expired} ELSE {}
Abstract == INSTANCE TimerSet WITH timers <- Linked, firing <- Firing, now <- timeofday
ImplementsTimerSet == Abstract!Spec

\* The wheel with its thread is the abstract set of timers, of which the earliest due one
\* fires, and a repeated timer does not fire twice in one expire().
FiresAsPromised == ImplementsTimerSet /\ SkipsPast
=============================================================================
