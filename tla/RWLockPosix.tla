----------------------------- MODULE RWLockPosix -----------------------------
(***************************************************************************)
(* GMJRRWLock of comLib/GMRWLockImp.cpp as built without WIN32: two        *)
(* counters under cnt_mutex and one condition variable, rw_cond, on which  *)
(* readers and writers wait.  Each call runs under cnt_mutex from entry,   *)
(* or from its wake-up, to its return or its wait, and is one step.        *)
(***************************************************************************)
EXTENDS Integers, FiniteSets

CONSTANT Threads

ASSUME ThreadsFinite == IsFiniteSet(Threads)

VARIABLES rd_cnt, wr_cnt, pc

vars == <<rd_cnt, wr_cnt, pc>>

\* "asleep" is inside pthread_cond_wait, "woken" on the way out of it.
Points == {"idle", "reading", "writing",
           "readLock.asleep", "readLock.woken",
           "writeLock.asleep", "writeLock.woken"}

At(point) == {t \in Threads : pc[t] = point}
Asleep == At("readLock.asleep") \cup At("writeLock.asleep")
Woken == At("readLock.woken") \cup At("writeLock.woken")

Wake(p) == IF p = "readLock.asleep" THEN "readLock.woken"
           ELSE IF p = "writeLock.asleep" THEN "writeLock.woken" ELSE p

\* t goes to a point while the threads of S leave pthread_cond_wait.
GotoAndWake(t, point, S) ==
    pc' = [u \in Threads |-> IF u = t THEN point
                             ELSE IF u \in S THEN Wake(pc[u]) ELSE pc[u]]

\* pthread_cond_signal: one sleeper, if there is one.
Signalled == IF Asleep = {} THEN {{}} ELSE {{u} : u \in Asleep}

Init ==
    /\ rd_cnt = 0
    /\ wr_cnt = 0
    /\ pc = [t \in Threads |-> "idle"]

\* Mutant: a reader does not look for a writer.
readLockUnchecked(t) ==
    /\ pc[t] \in {"idle", "readLock.woken"}
    /\ GotoAndWake(t, "reading", {})
    /\ rd_cnt' = rd_cnt + 1
    /\ UNCHANGED wr_cnt

readLock(t) ==
    /\ pc[t] \in {"idle", "readLock.woken"}
    /\ \/ /\ wr_cnt > 0
          /\ GotoAndWake(t, "readLock.asleep", {})
          /\ UNCHANGED rd_cnt
       \/ /\ ~ (wr_cnt > 0)
          /\ GotoAndWake(t, "reading", {})
          /\ rd_cnt' = rd_cnt + 1
    /\ UNCHANGED wr_cnt

writeLock(t) ==
    /\ pc[t] \in {"idle", "writeLock.woken"}
    /\ \/ /\ rd_cnt + wr_cnt > 0
          /\ GotoAndWake(t, "writeLock.asleep", {})
          /\ UNCHANGED wr_cnt
       \/ /\ ~ (rd_cnt + wr_cnt > 0)
          /\ GotoAndWake(t, "writing", {})
          /\ wr_cnt' = wr_cnt + 1
    /\ UNCHANGED rd_cnt

\* unlock() finds out from the counters whether a writer or a reader leaves.
unlock(t) ==
    /\ pc[t] \in {"reading", "writing"}
    /\ wr_cnt' = IF wr_cnt > 0 THEN wr_cnt - 1 ELSE wr_cnt
    /\ rd_cnt' = IF wr_cnt > 0 \/ rd_cnt <= 0 THEN rd_cnt ELSE rd_cnt - 1
    /\ \E S \in IF wr_cnt > 0 THEN {Asleep}
                ELSE IF rd_cnt = 1 THEN Signalled ELSE {{}} :
          GotoAndWake(t, "idle", S)

UnWritelock(t) ==
    /\ pc[t] = "writing"
    /\ wr_cnt' = wr_cnt - 1
    /\ GotoAndWake(t, "idle", Asleep)
    /\ UNCHANGED rd_cnt

\* Mutant: the last reader wakes nobody.
UnReadlockSilent(t) ==
    /\ pc[t] = "reading"
    /\ rd_cnt' = rd_cnt - 1
    /\ GotoAndWake(t, "idle", {})
    /\ UNCHANGED wr_cnt

UnReadlock(t) ==
    /\ pc[t] = "reading"
    /\ rd_cnt' = rd_cnt - 1
    /\ \E S \in IF rd_cnt = 1 THEN Signalled ELSE {{}} :
          GotoAndWake(t, "idle", S)
    /\ UNCHANGED wr_cnt

\* A condition variable may wake a thread for no reason.
SpuriousWakeup(t) ==
    /\ t \in Asleep
    /\ GotoAndWake(t, Wake(pc[t]), {})
    /\ UNCHANGED <<rd_cnt, wr_cnt>>

Release(t) == unlock(t) \/ UnWritelock(t) \/ UnReadlock(t)

Acquire(t) == readLock(t) \/ writeLock(t)

Next == \E t \in Threads : Acquire(t) \/ Release(t) \/ SpuriousWakeup(t)

Spec == Init /\ [][Next]_vars

\* The steps of a thread that has the lock or is inside a call.
Continue(t) == Release(t) \/ (pc[t] # "idle" /\ Acquire(t))

-----------------------------------------------------------------------------
TypeOK ==
    /\ rd_cnt \in Nat /\ wr_cnt \in Nat
    /\ pc \in [Threads -> Points]

\* The counters of GMJRRWLock are the numbers of threads inside, so unlock()
\* finds the kind of its caller from them.
CountersExact ==
    /\ rd_cnt = Cardinality(At("reading"))
    /\ wr_cnt = Cardinality(At("writing"))

\* A writer has the resource alone.
Exclusion ==
    \A t, u \in Threads : pc[t] = "writing" /\ pc[u] \in {"reading", "writing"} => t = u

\* One pthread_cond_signal is enough for the last reader: a reader is asleep only
\* while a writer is inside, and a free lock with sleepers always has a woken
\* thread on its way to take it.
NoLostWakeup ==
    /\ At("readLock.asleep") # {} => wr_cnt > 0
    /\ rd_cnt = 0 /\ wr_cnt = 0 /\ Asleep # {} => Woken # {}

\* Never a second writer, and never a writer beside readers.
CountersAllow == wr_cnt <= 1 /\ (wr_cnt = 1 => rd_cnt = 0)

\* The inductive invariant: the counters of GMJRRWLock are exact and allow no writer
\* beside anybody else, and its signals reach whom they have to.
LockInv == TypeOK /\ CountersExact /\ CountersAllow /\ NoLostWakeup

\* GMJRRWLock is a reader-writer lock.
Abstract == INSTANCE ReadersWriters
                WITH readers <- At("reading"), writers <- At("writing")
ImplementsReadersWriters == Abstract!Spec

\* Threads wait in readLock or writeLock; somebody has the resource.
Waiting == Asleep \cup Woken # {}
Given == At("reading") \cup At("writing") # {}
=============================================================================
