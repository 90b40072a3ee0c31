------------------------------ MODULE MCThreads ------------------------------
(***************************************************************************)
(* What waits and wakes up in comLib/ and thread_posix/, for TLC: the two  *)
(* builds of GMJRRWLock, a SafeQueue with a producer that blocks, the      *)
(* deadline of a timed wait, a Thread with free callers or with an owner,  *)
(* a manual-reset SingleEvent, the alarm, pipeline and back-off programs,  *)
(* and the logger: rolling volumes, which somebody may delete or nobody    *)
(* touches, and the log thread.  One of them runs, the others stay in an   *)
(* initial state.                                                          *)
(***************************************************************************)
EXTENDS RWLocks, TimedWait, Thread, Programs, Logs, TLC

CONSTANTS p1, c1, c2       \* the threads of the queue

VARIABLES on,
          m_Queue, holder, m_EmptySemaphore, m_FullSemaphore, queuePc, result,
          m_signalled, eventPc, eventResult

queueVars == <<m_Queue, holder, m_EmptySemaphore, m_FullSemaphore, queuePc, result>>
eventVars == <<m_signalled, eventPc, eventResult>>
lockingVars == <<vars, winVars, queueVars, waitVars, threadVars, eventVars>>
programVars == <<alarmVars, pipeVars, backoffVars>>
logsVars == <<rollVars, logVars>>
threadsVars == <<lockingVars, programVars, logsVars, on>>

\* One blocking producer, two consumers.
ProducerConsumer == (p1 :> {"BlockPush"}) @@ (c1 :> {"BlockPop"}) @@ (c2 :> {"Pop"})
queue == INSTANCE SafeQueue WITH Threads <- {p1, c1, c2}, Values <- {"x", "y"}, QueueSize <- 2,
                                 Calls <- ProducerConsumer, pc <- queuePc

\* Clock readings around the places where a millisecond or a second turns, and timeouts
\* around a whole second.
MCClocks == [tv_sec : 7 .. 9,
             tv_nsec : {0, 1, 999999, 1000000, 500500500, 998999999, 999000000, 999999999}]
MCTimeouts == {0, 1, 499, 500, 999, 1000, 1001}

Waiters == {"a", "b", "c"}
event == INSTANCE SingleEvent WITH m_bManualReset <- TRUE, bInitialState <- FALSE,
                                   pc <- eventPc, result <- eventResult

\* The parts that may come to an end: a wait that is made once, pthreads, values and
\* messages that run out.  Only the locks and the queue must never stop.
MayEnd == {"timed", "thread", "event", "alarms", "pipe", "backoff", "rolling", "log"}

ThreadsInit ==
    /\ on \in {"posix", "win", "queue"} \cup MayEnd
    /\ Init /\ win!Init /\ queue!Init
    /\ WaitInit /\ (on # "timed" => clock = CHOOSE first \in Clocks : TRUE)
    /\ ThreadInit /\ (on # "thread" => owned) /\ event!Init
    /\ AlarmInit /\ PipeInit /\ BackoffInit
    /\ RollInit /\ (on # "rolling" => ~ meddled) /\ LogInit

LockStep ==
    \/ on = "posix" /\ Next /\ UNCHANGED <<winVars, queueVars>>
    \/ on = "win" /\ win!Next /\ UNCHANGED <<vars, queueVars>>
    \/ on = "queue" /\ queue!Next /\ UNCHANGED <<vars, winVars>>

WaitStep ==
    \/ on = "timed" /\ WaitNext /\ UNCHANGED <<threadVars, eventVars>>
    \/ on = "thread" /\ ThreadNext /\ UNCHANGED <<waitVars, eventVars>>
    \/ on = "event" /\ event!Next /\ UNCHANGED <<waitVars, threadVars>>

ProgramStep ==
    \/ on = "alarms" /\ AlarmNext /\ UNCHANGED <<pipeVars, backoffVars>>
    \/ on = "pipe" /\ PipeNext /\ UNCHANGED <<alarmVars, backoffVars>>
    \/ on = "backoff" /\ BackoffNext /\ UNCHANGED <<alarmVars, pipeVars>>

LogStep ==
    \/ on = "rolling" /\ RollNext /\ UNCHANGED logVars
    \/ on = "log" /\ LogNext /\ UNCHANGED rollVars

ThreadsNext ==
    /\ \/ LockStep /\ UNCHANGED <<waitVars, threadVars, eventVars, programVars, logsVars>>
       \/ WaitStep /\ UNCHANGED <<vars, winVars, queueVars, programVars, logsVars>>
       \/ ProgramStep /\ UNCHANGED <<lockingVars, logsVars>>
       \/ LogStep /\ UNCHANGED <<lockingVars, programVars>>
       \/ on \in MayEnd /\ UNCHANGED <<lockingVars, programVars, logsVars>>
    /\ UNCHANGED on

\* A thread that has the lock, or is inside a call, goes on when it can.  The consumers
\* of the queue never stop popping; the producer calls when it likes.
LocksFair ==
    /\ \A t \in Threads : /\ WF_vars(on = "posix" /\ Continue(t))
                          /\ WF_winVars(on = "win" /\ win!Continue(t))
    /\ \A t \in {p1, c1, c2} : WF_queueVars(on = "queue" /\ queue!Continue(t))
    /\ \A t \in {c1, c2} : WF_queueVars(on = "queue" /\ queue!Call(t))

\* Every pthread is scheduled, so ThreadFunc goes on and run() sees IsExit(); the owner
\* goes on in its calls; woken waiters return, and Set is called again as long as
\* somebody sleeps.
ThreadsFair ==
    /\ \A w \in Workers : WF_threadVars(on = "thread" /\ ThreadFunc(w) /\ UNCHANGED owned)
    /\ WF_threadVars(/\ on = "thread" /\ owned
                     /\ SynContinue(Owner) \/ SynWait(Owner)
                     /\ UNCHANGED owned)
    /\ \A w \in Waiters : WF_eventVars(on = "event" /\ event!Wake(w))
    /\ WF_eventVars(on = "event" /\ event!Asleep # {} /\ event!Set)

\* alarm_thread runs and time goes on; the threads of the pipeline go on, and so does
\* main inside a call.
ProgramsFair ==
    /\ WF_alarmVars(on = "alarms" /\ alarm_thread)
    /\ WF_alarmVars(on = "alarms" /\ AlarmTick)
    /\ \A s \in Stages : WF_pipeVars(on = "pipe" /\ pipe_stage(s))
    /\ WF_pipeVars(on = "pipe" /\ (StartSend \/ ResultTake))

\* The thread that writes goes on, and the check command, which is sent now and then,
\* is served in its turn between two messages; LogThread and Close go on when they can.
LogsFair ==
    /\ WF_rollVars(on = "rolling" /\ Writing)
    /\ SF_rollVars(on = "rolling" /\ check_file_delete)
    /\ WF_logVars(on = "log" /\ LogThreadStep)
    /\ WF_logVars(on = "log" /\ CloseFinish)

ThreadsSpec ==
    /\ ThreadsInit /\ [][ThreadsNext]_threadsVars
    /\ LocksFair /\ ThreadsFair /\ ProgramsFair /\ LogsFair

-----------------------------------------------------------------------------
\* Somebody waits, and has what they waited for.
Sleeping ==
    CASE on = "posix"  -> Waiting
      [] on = "win"    -> win!WriterWaits
      [] on = "queue"  -> queue!InBlockPush(p1)
      [] on = "thread" -> owned /\ StopPending
      [] OTHER         -> FALSE
Awake ==
    CASE on = "posix"  -> Given
      [] on = "win"    -> win!WriterHas
      [] on = "queue"  -> ~queue!InBlockPush(p1)
      [] on = "thread" -> StopDone
      [] OTHER         -> TRUE

\* Whoever waits is served.  POSIX build: while threads wait the resource goes on being
\* given to somebody; WIN32 build: some waiting writer is served whatever the readers do;
\* SafeQueue: with consumers that keep popping, a BlockPush returns; Thread, used as
\* Logger_impl uses it: a SynStop that finds the thread alive gets its token.
SleepersServed == Sleeping ~> Awake

\* What lets everybody go, and everybody gone.
SetForGood == IF on = "thread" THEN ~m_bRunning ELSE on = "event" /\ m_signalled
AllLeft == IF on = "thread" THEN Live = {} ELSE event!Asleep = {}

\* Thread: when m_bRunning stays false every pthread leaves ThreadFunc.  SingleEvent: a
\* manual-reset event that is set again and again, and no more reset, releases every
\* waiter although each Set signals only one.
StopsAndSetsRelease == <>[]SetForGood => <>[]AllLeft

\* Work that has begun, and that is done.
Begun ==
    CASE on = "alarms"  -> Due # {}
      [] on = "pipe"    -> ~LastArrived
      [] on = "rolling" -> open = "unlinked"
      [] on = "log"     -> closing = "stop"
      [] OTHER          -> FALSE
Ended ==
    CASE on = "alarms"  -> Due = {}
      [] on = "pipe"    -> LastArrived
      [] on = "rolling" -> open # "unlinked"
      [] on = "log"     -> closing = "closed"
      [] OTHER          -> TRUE

\* What was begun gets to its end: every alarm that was entered goes off, the last value
\* put into the pipeline arrives, the stream gets to a file with a name again after the
\* current volume was deleted, and Logger_impl::Close returns.
WorkEnds == Begun ~> Ended
=============================================================================
