----------------------------- MODULE RWLockWin32 -----------------------------
(***************************************************************************)
(* GMJRRWLock of comLib/GMRWLockImp.cpp as built with WIN32.  Members are  *)
(* changed in the critical section m_cs; the waits on the two semaphores   *)
(* and their release come after it is left, so a lock that is handed over  *)
(* is for a while owned by nobody in particular: its new owners are        *)
(* whichever threads take the units of the semaphore.                      *)
(***************************************************************************)
EXTENDS Integers, FiniteSets, Semaphore

CONSTANT Threads

VARIABLES
    m_nActive,          \* 0: nobody, n > 0: n readers, -1: one writer
    m_nWaitingReaders,
    m_nWaitingWriters,
    m_hsemReaders,      \* units of the semaphores
    m_hsemWriters,
    pc,
    release             \* release[t]: <<units for readers, units for writers>>
                        \* that t is about to release

members == <<m_nActive, m_nWaitingReaders, m_nWaitingWriters>>
sems == <<m_hsemReaders, m_hsemWriters>>
vars == <<members, sems, pc, release>>

Points == {"idle", "readLock.wait", "writeLock.wait", "reading", "writing",
           "unlock.release"}

At(point) == {t \in Threads : pc[t] = point}

Goto(t, point) == pc' = [pc EXCEPT ![t] = point]

Init ==
    /\ m_nActive = 0 /\ m_nWaitingReaders = 0 /\ m_nWaitingWriters = 0
    /\ m_hsemReaders = 0 /\ m_hsemWriters = 0
    /\ pc = [t \in Threads |-> "idle"]
    /\ release = [t \in Threads |-> <<0, 0>>]

readLock(t) ==
    /\ pc[t] = "idle"
    /\ IF m_nWaitingWriters # 0 \/ m_nActive < 0
       THEN /\ m_nWaitingReaders' = m_nWaitingReaders + 1
            /\ Goto(t, "readLock.wait")
            /\ UNCHANGED m_nActive
       ELSE /\ m_nActive' = m_nActive + 1
            /\ Goto(t, "reading")
            /\ UNCHANGED m_nWaitingReaders
    /\ UNCHANGED <<m_nWaitingWriters, sems, release>>

readLockWait(t) ==
    /\ pc[t] = "readLock.wait"
    /\ Wait(m_hsemReaders)
    /\ Goto(t, "reading")
    /\ UNCHANGED <<members, m_hsemWriters, release>>

writeLock(t) ==
    /\ pc[t] = "idle"
    /\ IF m_nActive # 0
       THEN /\ m_nWaitingWriters' = m_nWaitingWriters + 1
            /\ Goto(t, "writeLock.wait")
            /\ UNCHANGED m_nActive
       ELSE /\ m_nActive' = -1
            /\ Goto(t, "writing")
            /\ UNCHANGED m_nWaitingWriters
    /\ UNCHANGED <<m_nWaitingReaders, sems, release>>

writeLockWait(t) ==
    /\ pc[t] = "writeLock.wait"
    /\ Wait(m_hsemWriters)
    /\ Goto(t, "writing")
    /\ UNCHANGED <<members, m_hsemReaders, release>>

-----------------------------------------------------------------------------
\* What is left of m_nActive once the caller of unlock() is out.
Remaining == IF m_nActive > 0 THEN m_nActive - 1 ELSE m_nActive + 1

unlockNobodyWaits(t) ==
    /\ pc[t] \in {"reading", "writing"}
    /\ Remaining # 0 \/ (m_nWaitingWriters = 0 /\ m_nWaitingReaders = 0)
    /\ m_nActive' = Remaining
    /\ Goto(t, "idle")
    /\ UNCHANGED <<m_nWaitingReaders, m_nWaitingWriters, sems, release>>

\* Mutant: the resource is not marked as taken by the writer.
unlockToWriterUnmarked(t) ==
    /\ pc[t] \in {"reading", "writing"}
    /\ Remaining = 0 /\ m_nWaitingWriters > 0
    /\ m_nActive' = 0
    /\ m_nWaitingWriters' = m_nWaitingWriters - 1
    /\ release' = [release EXCEPT ![t] = <<0, 1>>]
    /\ Goto(t, "unlock.release")
    /\ UNCHANGED <<m_nWaitingReaders, sems>>

unlockToWriter(t) ==
    /\ pc[t] \in {"reading", "writing"}
    /\ Remaining = 0 /\ m_nWaitingWriters > 0
    /\ m_nActive' = -1
    /\ m_nWaitingWriters' = m_nWaitingWriters - 1
    /\ release' = [release EXCEPT ![t] = <<0, 1>>]
    /\ Goto(t, "unlock.release")
    /\ UNCHANGED <<m_nWaitingReaders, sems>>

unlockToReaders(t) ==
    /\ pc[t] \in {"reading", "writing"}
    /\ Remaining = 0 /\ m_nWaitingWriters <= 0 /\ m_nWaitingReaders > 0
    /\ m_nActive' = m_nWaitingReaders
    /\ m_nWaitingReaders' = 0
    /\ release' = [release EXCEPT ![t] = <<m_nWaitingReaders, 0>>]
    /\ Goto(t, "unlock.release")
    /\ UNCHANGED <<m_nWaitingWriters, sems>>

\* ReleaseSemaphore, after LeaveCriticalSection.
unlockRelease(t) ==
    /\ pc[t] = "unlock.release"
    /\ m_hsemReaders' = m_hsemReaders + release[t][1]
    /\ m_hsemWriters' = m_hsemWriters + release[t][2]
    /\ release' = [release EXCEPT ![t] = <<0, 0>>]
    /\ Goto(t, "idle")
    /\ UNCHANGED members

unlock(t) == unlockNobodyWaits(t) \/ unlockToWriter(t) \/ unlockToReaders(t)

\* The steps of a thread that has the resource or is inside a call.
Continue(t) == readLockWait(t) \/ writeLockWait(t) \/ unlock(t) \/ unlockRelease(t)

Next == \E t \in Threads : readLock(t) \/ writeLock(t) \/ Continue(t)

Spec == Init /\ [][Next]_vars

-----------------------------------------------------------------------------
\* m_nActive counts the threads that have the resource and those it has been
\* handed to and that have not yet come out of their wait; unlock() relies on
\* it to tell whether a reader or a writer leaves.
ActiveExact ==
    /\ \A t, u \in At("unlock.release") : t = u
    /\ LET promised == IF At("unlock.release") = {} THEN <<0, 0>>
                       ELSE release[CHOOSE t \in At("unlock.release") : TRUE]
           reads  == Cardinality(At("reading")) + m_hsemReaders + promised[1]
           writes == Cardinality(At("writing")) + m_hsemWriters + promised[2]
       IN  /\ m_nActive = IF writes > 0 THEN -1 ELSE reads
           /\ writes <= 1 /\ (writes = 1 => reads = 0)
           /\ Cardinality(At("readLock.wait")) =
                 m_nWaitingReaders + m_hsemReaders + promised[1]
           /\ Cardinality(At("writeLock.wait")) =
                 m_nWaitingWriters + m_hsemWriters + promised[2]

\* Nobody is left waiting for a resource that nobody has: a count of waiters
\* above zero means that somebody is inside or on the way.
WaitersHaveOwner ==
    m_nWaitingReaders + m_nWaitingWriters > 0 => m_nActive # 0

\* "Writers are waiting and they take priority over readers": while a writer is
\* counted as waiting, no further reader is let in.
WritersFirst ==
    [][m_nWaitingWriters > 0 /\ m_nWaitingWriters' > 0 =>
          m_nActive' <= m_nActive]_vars

\* GMJRRWLock is a reader-writer lock.
Abstract == INSTANCE ReadersWriters
                WITH readers <- At("reading"), writers <- At("writing")
ImplementsReadersWriters == Abstract!Spec

\* A writer waits; some writer has the resource.
WriterWaits == At("writeLock.wait") # {}
WriterHas == At("writing") # {}
=============================================================================
