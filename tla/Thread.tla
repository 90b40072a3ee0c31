-------------------------------- MODULE Thread --------------------------------
(***************************************************************************)
(* comLib/Thread.h: one Thread object, the callers of Start, Stop,         *)
(* SynStart and SynStop, and the pthreads that run its ThreadFunc.  The    *)
(* queues m_start_lock_queue and m_stop_lock_queue carry only the value 1  *)
(* and are their lengths; SafeQueue shows that its calls are atomic.       *)
(* run() is virtual: it may return by itself and it returns once it sees   *)
(* IsExit().                                                               *)
(***************************************************************************)
EXTENDS Integers, FiniteSets

CONSTANTS Callers, Workers,
          Owner            \* the caller that owns the object, when one does

ASSUME OwnerCalls == Owner \in Callers /\ "nobody" \notin Callers

VARIABLES m_bRunning, m_bHasEnd,
          start_queue, stop_queue,   \* lengths of the two queues
          m_mutex,                   \* the caller inside SynStart or SynStop
          threadPc,                        \* where each caller is
          threadResult,                    \* what its last SynStart or SynStop saw
          wpc,                       \* where each pthread is in ThreadFunc
          owned                      \* only Owner uses the object, as Logger_impl does

callerVars == <<m_mutex, threadPc, threadResult>>
threadVars == <<m_bRunning, m_bHasEnd, start_queue, stop_queue, callerVars, wpc, owned>>

Nobody == "nobody"

Live == {w \in Workers : wpc[w] \notin {"unborn", "done"}}

ThreadInit ==
    /\ m_bRunning = FALSE /\ m_bHasEnd = FALSE
    /\ start_queue = 0 /\ stop_queue = 0
    /\ m_mutex = Nobody
    /\ threadPc = [c \in Callers |-> "idle"]
    /\ threadResult = [c \in Callers |-> "none"]
    /\ wpc = [w \in Workers |-> "unborn"]
    /\ owned \in BOOLEAN

SynGoto(c, point) == threadPc' = [threadPc EXCEPT ![c] = point]
Move(w, from, to) == wpc[w] = from /\ wpc' = [wpc EXCEPT ![w] = to]

\* pthread_create and pthread_detach: another pthread enters ThreadFunc.
Create == \E w \in Workers : Move(w, "unborn", "created")

-----------------------------------------------------------------------------
Start(c) ==
    /\ threadPc[c] = "idle"
    /\ Create
    /\ UNCHANGED <<m_bRunning, m_bHasEnd, start_queue, stop_queue, callerVars>>

Stop(c) ==
    /\ threadPc[c] = "idle"
    /\ m_bRunning' = FALSE
    /\ UNCHANGED <<m_bHasEnd, start_queue, stop_queue, callerVars, wpc>>

SynStartEnter(c) ==
    /\ threadPc[c] = "idle"
    /\ m_mutex = Nobody
    /\ m_mutex' = c
    /\ m_bRunning' = FALSE
    /\ SynGoto(c, "SynStart.clear")
    /\ UNCHANGED <<m_bHasEnd, start_queue, stop_queue, threadResult, wpc>>

SynStartClear(c) ==
    /\ threadPc[c] = "SynStart.clear"
    /\ start_queue' = 0
    /\ SynGoto(c, "SynStart.create")
    /\ UNCHANGED <<m_bRunning, m_bHasEnd, stop_queue, m_mutex, threadResult, wpc>>

SynStartCreate(c) ==
    /\ threadPc[c] = "SynStart.create"
    /\ Create
    /\ SynGoto(c, "SynStart.pop")
    /\ UNCHANGED <<m_bRunning, m_bHasEnd, start_queue, stop_queue, m_mutex, threadResult>>

Return(c, seen) ==
    /\ m_mutex' = Nobody
    /\ threadResult' = [threadResult EXCEPT ![c] = seen]
    /\ SynGoto(c, "idle")

SynStartPop(c) ==
    /\ threadPc[c] = "SynStart.pop"
    /\ start_queue > 0
    /\ start_queue' = start_queue - 1
    /\ Return(c, "started")
    /\ UNCHANGED <<m_bRunning, m_bHasEnd, stop_queue, wpc>>

SynStartTimeout(c) ==
    /\ threadPc[c] = "SynStart.pop"
    /\ start_queue = 0
    /\ Return(c, "start timed out")
    /\ UNCHANGED <<m_bRunning, m_bHasEnd, start_queue, stop_queue, wpc>>

SynStopEnter(c) ==
    /\ threadPc[c] = "idle"
    /\ m_mutex = Nobody
    /\ m_mutex' = c
    /\ stop_queue' = 0
    /\ SynGoto(c, "SynStop.flag")
    /\ UNCHANGED <<m_bRunning, m_bHasEnd, start_queue, threadResult, wpc>>

SynStopFlag(c) ==
    /\ threadPc[c] = "SynStop.flag"
    /\ m_bRunning' = FALSE
    /\ SynGoto(c, "SynStop.pop")
    /\ UNCHANGED <<m_bHasEnd, start_queue, stop_queue, m_mutex, threadResult, wpc>>

SynStopPop(c) ==
    /\ threadPc[c] = "SynStop.pop"
    /\ stop_queue > 0
    /\ stop_queue' = stop_queue - 1
    /\ Return(c, "stopped")
    /\ UNCHANGED <<m_bRunning, m_bHasEnd, start_queue, wpc>>

\* SynStop does not look at what Pop returns: it returns true all the same.
SynStopTimeout(c) ==
    /\ threadPc[c] = "SynStop.pop"
    /\ stop_queue = 0
    /\ Return(c, "stop timed out")
    /\ UNCHANGED <<m_bRunning, m_bHasEnd, start_queue, stop_queue, wpc>>

-----------------------------------------------------------------------------
ThreadFuncBegin(w) ==
    /\ Move(w, "created", "announce")
    /\ m_bRunning' = TRUE
    /\ UNCHANGED <<m_bHasEnd, start_queue, stop_queue, callerVars>>

ThreadFuncAnnounce(w) ==
    /\ Move(w, "announce", "run")
    /\ start_queue' = start_queue + 1
    /\ UNCHANGED <<m_bRunning, m_bHasEnd, stop_queue, callerVars>>

\* run() finds IsExit().
RunSeesExit(w) ==
    /\ ~ m_bRunning
    /\ Move(w, "run", "left")
    /\ UNCHANGED <<m_bRunning, m_bHasEnd, start_queue, stop_queue, callerVars>>

\* run() returns by itself.
RunBreaks(w) ==
    /\ m_bRunning
    /\ Move(w, "run", "left")
    /\ UNCHANGED <<m_bRunning, m_bHasEnd, start_queue, stop_queue, callerVars>>

ThreadFuncFlag(w) ==
    /\ Move(w, "left", "flagged")
    /\ m_bRunning' = FALSE
    /\ UNCHANGED <<m_bHasEnd, start_queue, stop_queue, callerVars>>

\* Mutant: m_bHasEnd is set after the token is pushed.
ThreadFuncEndLate(w) ==
    /\ Move(w, "flagged", "ended")
    /\ stop_queue' = stop_queue + 1
    /\ UNCHANGED <<m_bRunning, m_bHasEnd, start_queue, callerVars>>

ThreadFuncEnd(w) ==
    /\ Move(w, "flagged", "ended")
    /\ m_bHasEnd' = TRUE
    /\ UNCHANGED <<m_bRunning, start_queue, stop_queue, callerVars>>

ThreadFuncPush(w) ==
    /\ Move(w, "ended", "done")
    /\ stop_queue' = stop_queue + 1
    /\ UNCHANGED <<m_bRunning, m_bHasEnd, start_queue, callerVars>>

-----------------------------------------------------------------------------
SynWait(c) == SynStartPop(c) \/ SynStopPop(c)
SynTimeout(c) == SynStartTimeout(c) \/ SynStopTimeout(c)
SynContinue(c) == SynStartClear(c) \/ SynStartCreate(c) \/ SynStopFlag(c)

ThreadFunc(w) ==
    \/ ThreadFuncBegin(w) \/ ThreadFuncAnnounce(w) \/ RunSeesExit(w)
    \/ ThreadFuncFlag(w) \/ ThreadFuncEnd(w) \/ ThreadFuncPush(w)

\* Any caller, any call.
FreeCall ==
    \E c \in Callers : \/ Start(c) \/ Stop(c)
                       \/ SynStartEnter(c) \/ SynStopEnter(c)
                       \/ SynContinue(c) \/ SynWait(c) \/ SynTimeout(c)

\* How Logger_impl::Open and Close use the object: SynStart once, SynStop after
\* it, and timeouts (five seconds) that outlast the steps of ThreadFunc: a wait
\* does not run out while a pthread is about to push the token it waits for.
Starting == \E w \in Workers : wpc[w] \in {"created", "announce"}
Stopping == \E w \in Live : ~ m_bRunning \/ wpc[w] \in {"left", "flagged", "ended"}

OwnerCall ==
    \/ Live = {} /\ SynStartEnter(Owner)
    \/ threadResult[Owner] = "started" /\ SynStopEnter(Owner)
    \/ SynContinue(Owner)
    \/ SynWait(Owner)
    \/ ~ Starting /\ SynStartTimeout(Owner)
    \/ ~ Stopping /\ SynStopTimeout(Owner)

ThreadNext ==
    /\ \/ ~ owned /\ FreeCall
       \/ owned /\ OwnerCall
       \/ \E w \in Workers : ThreadFunc(w) \/ RunBreaks(w)
    /\ UNCHANGED owned

ThreadSpec == ThreadInit /\ [][ThreadNext]_threadVars

-----------------------------------------------------------------------------
\* m_bRunning is set only while some pthread is between its first and its last
\* write of it in ThreadFunc, however starts and stops overlap: IsExit() is false
\* for a thread that exists.
RunningMeansAlive ==
    m_bRunning => \E w \in Workers : wpc[w] \in {"announce", "run", "left"}

\* A stop token is pushed only after m_bHasEnd is set, so a SynStop that saw a
\* token leaves ThreadHasEnd() true.
TokenMeansEnded ==
    stop_queue > 0 \/ (\E c \in Callers : threadResult[c] = "stopped") => m_bHasEnd

\* Used as Logger_impl does, SynStop joins the thread: when it has returned, no
\* pthread is inside run() or ThreadFunc, so the object may be deleted.
StopJoins ==
    threadResult[Owner] \in {"stopped", "stop timed out"} /\ m_mutex = Nobody => Live = {}

\* Used so, SynStart reports a start: it does not time out.
StartReported == threadResult[Owner] # "start timed out"

\* m_bRunning is set only while a pthread is inside ThreadFunc, and a SynStop that saw a
\* stop token leaves ThreadHasEnd() true, however starts and stops overlap.  Used as
\* Logger_impl uses it, SynStart does not time out, and when SynStop has returned no
\* pthread is inside.
FlagsTellTruth ==
    /\ RunningMeansAlive /\ TokenMeansEnded
    /\ owned => StopJoins /\ StartReported

\* Used so, a SynStop that finds the thread alive after clearing the queue is to get its
\* token and not to wait out the timeout.
StopPending == threadPc[Owner] = "SynStop.flag" /\ Live # {}
StopDone == threadResult[Owner] = "stopped"
=============================================================================
