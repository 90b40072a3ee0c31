------------------------------- MODULE RWLocks -------------------------------
(***************************************************************************)
(* Both builds of GMJRRWLock, comLib/GMRWLockImp.cpp, and proofs about     *)
(* them for any finite set of threads.  POSIX: the counters are the        *)
(* numbers of threads inside; since the counters never allow a writer      *)
(* beside anybody else, neither do the threads.  WIN32: an unlock writes   *)
(* down whom it hands the resource to before it releases the semaphores,   *)
(* so the counters agree with the threads only together with what is still *)
(* to be released and with the units nobody has taken yet.                 *)
(***************************************************************************)
EXTENDS RWLockPosix, FiniteSetTheorems, TLAPS

VARIABLES m_nActive, m_nWaitingReaders, m_nWaitingWriters, m_hsemReaders, m_hsemWriters,
          winPc, release

winVars == <<m_nActive, m_nWaitingReaders, m_nWaitingWriters, m_hsemReaders, m_hsemWriters,
             winPc, release>>

win == INSTANCE RWLockWin32 WITH pc <- winPc

\* WIN32 build: GMJRRWLock is a reader-writer lock.  m_nActive counts the threads inside
\* and those the resource was handed to, also while the hand-over is in flight, and
\* nobody waits for a resource that nobody has.  While a writer waits no further reader
\* is let in.
WinImplementsReadersWriters ==
    /\ [](win!ActiveExact /\ win!WaitersHaveOwner)
    /\ win!ImplementsReadersWriters
    /\ win!WritersFirst

-----------------------------------------------------------------------------
LEMMA AtFinite ==
    ASSUME NEW p
    PROVE  IsFiniteSet(At(p)) /\ Cardinality(At(p)) \in Nat
  <1>1. At(p) \subseteq Threads
    BY DEF At
  <1>2. IsFiniteSet(At(p))
    BY <1>1, FS_Subset, ThreadsFinite
  <1>. QED
    BY <1>2, FS_CardinalityType

LEMMA AtZero ==
    ASSUME NEW p
    PROVE  Cardinality(At(p)) = 0 <=> At(p) = {}
  BY AtFinite, FS_EmptySet

\* Waking sleepers neither lets anybody in nor out.
LEMMA GotoInside ==
    ASSUME NEW t \in Threads, NEW p \in Points, NEW S,
           pc \in [Threads -> Points], GotoAndWake(t, p, S)
    PROVE  /\ pc' \in [Threads -> Points]
           /\ At("reading")' = IF p = "reading" THEN At("reading") \cup {t}
                               ELSE At("reading") \ {t}
           /\ At("writing")' = IF p = "writing" THEN At("writing") \cup {t}
                               ELSE At("writing") \ {t}
  BY DEF GotoAndWake, Wake, At, Points

LEMMA AddOne ==
    ASSUME NEW p, NEW t, t \notin At(p)
    PROVE  Cardinality(At(p) \cup {t}) = Cardinality(At(p)) + 1
  BY AtFinite, FS_AddElement

LEMMA DropOne ==
    ASSUME NEW p, NEW t, t \in At(p)
    PROVE  Cardinality(At(p) \ {t}) = Cardinality(At(p)) - 1
  BY AtFinite, FS_RemoveElement

\* The steps that let a thread in or out, by their effect on the counters.
LEMMA EntersReading ==
    ASSUME LockInv, NEW t \in Threads, pc[t] \notin {"reading", "writing"},
           GotoAndWake(t, "reading", {}), rd_cnt' = rd_cnt + 1, wr_cnt' = wr_cnt
    PROVE  CountersExact'
  <1>1. /\ At("reading")' = At("reading") \cup {t}
        /\ At("writing")' = At("writing") \ {t}
    BY GotoInside DEF LockInv, TypeOK, Points
  <1>2. t \notin At("reading") /\ t \notin At("writing")
    BY DEF At
  <1>. QED
    BY <1>1, <1>2, AddOne, Zenon DEF LockInv, CountersExact

LEMMA EntersWriting ==
    ASSUME LockInv, NEW t \in Threads, pc[t] \notin {"reading", "writing"},
           GotoAndWake(t, "writing", {}), wr_cnt' = wr_cnt + 1, rd_cnt' = rd_cnt
    PROVE  CountersExact'
  <1>1. /\ At("writing")' = At("writing") \cup {t}
        /\ At("reading")' = At("reading") \ {t}
    BY GotoInside DEF LockInv, TypeOK, Points
  <1>2. t \notin At("reading") /\ t \notin At("writing")
    BY DEF At
  <1>. QED
    BY <1>1, <1>2, AddOne, Zenon DEF LockInv, CountersExact

LEMMA LeavesReading ==
    ASSUME LockInv, NEW t \in Threads, NEW S, pc[t] = "reading",
           GotoAndWake(t, "idle", S), rd_cnt' = rd_cnt - 1, wr_cnt' = wr_cnt
    PROVE  CountersExact'
  <1>1. /\ At("reading")' = At("reading") \ {t}
        /\ At("writing")' = At("writing") \ {t}
    BY GotoInside DEF LockInv, TypeOK, Points
  <1>2. t \in At("reading") /\ t \notin At("writing")
    BY DEF At
  <1>. QED
    BY <1>1, <1>2, DropOne DEF LockInv, CountersExact

LEMMA LeavesWriting ==
    ASSUME LockInv, NEW t \in Threads, NEW S, pc[t] = "writing",
           GotoAndWake(t, "idle", S), wr_cnt' = wr_cnt - 1, rd_cnt' = rd_cnt
    PROVE  CountersExact'
  <1>1. /\ At("writing")' = At("writing") \ {t}
        /\ At("reading")' = At("reading") \ {t}
    BY GotoInside DEF LockInv, TypeOK, Points
  <1>2. t \in At("writing") /\ t \notin At("reading")
    BY DEF At
  <1>. QED
    BY <1>1, <1>2, DropOne DEF LockInv, CountersExact

LEMMA StaysOutside ==
    ASSUME LockInv, NEW t \in Threads, NEW p \in Points \ {"reading", "writing"},
           NEW S, pc[t] \notin {"reading", "writing"},
           GotoAndWake(t, p, S), wr_cnt' = wr_cnt, rd_cnt' = rd_cnt
    PROVE  CountersExact'
  <1>1. /\ At("writing")' = At("writing") \ {t}
        /\ At("reading")' = At("reading") \ {t}
    BY GotoInside DEF LockInv, TypeOK
  <1>2. t \notin At("writing") /\ t \notin At("reading")
    BY DEF At
  <1>. QED
    BY <1>1, <1>2 DEF LockInv, CountersExact

\* A thread inside makes its counter positive.
LEMMA InsideCounted ==
    ASSUME LockInv, NEW t \in Threads
    PROVE  /\ pc[t] = "reading" => rd_cnt > 0 /\ wr_cnt = 0
           /\ pc[t] = "writing" => wr_cnt = 1 /\ rd_cnt = 0
  <1>1. pc[t] = "reading" => rd_cnt # 0
    BY AtZero DEF LockInv, CountersExact, At
  <1>2. pc[t] = "writing" => wr_cnt # 0
    BY AtZero DEF LockInv, CountersExact, At
  <1>. QED
    BY <1>1, <1>2 DEF LockInv, TypeOK, CountersAllow

-----------------------------------------------------------------------------
LEMMA readLockKeeps ==
    ASSUME LockInv, NEW t \in Threads, readLock(t)
    PROVE  LockInv'
  <1>. USE DEF LockInv
  <1>1. CASE wr_cnt > 0 /\ GotoAndWake(t, "readLock.asleep", {}) /\ UNCHANGED rd_cnt
    <2>1. TypeOK'
      BY <1>1, GotoInside DEF readLock, TypeOK, Points
    <2>2. CountersExact'
      BY <1>1, StaysOutside DEF readLock, Points
    <2>3. CountersAllow' /\ NoLostWakeup'
      BY <1>1 DEF readLock, TypeOK, CountersAllow, NoLostWakeup
    <2>. QED
      BY <2>1, <2>2, <2>3
  <1>2. CASE ~ (wr_cnt > 0) /\ GotoAndWake(t, "reading", {}) /\ rd_cnt' = rd_cnt + 1
    <2>1. TypeOK'
      BY <1>2, GotoInside DEF readLock, TypeOK, Points
    <2>2. CountersExact'
      BY <1>2, EntersReading DEF readLock
    <2>3. CountersAllow'
      BY <1>2 DEF readLock, TypeOK, CountersAllow
    <2>4. At("readLock.asleep")' \subseteq At("readLock.asleep")
      BY <1>2 DEF GotoAndWake, At
    <2>5. NoLostWakeup'
      BY <1>2, <2>4 DEF readLock, TypeOK, NoLostWakeup
    <2>. QED
      BY <2>1, <2>2, <2>3, <2>5
  <1>. QED
    BY <1>1, <1>2 DEF readLock

LEMMA writeLockKeeps ==
    ASSUME LockInv, NEW t \in Threads, writeLock(t)
    PROVE  LockInv'
  <1>. USE DEF LockInv
  <1>1. CASE rd_cnt + wr_cnt > 0 /\ GotoAndWake(t, "writeLock.asleep", {}) /\ UNCHANGED wr_cnt
    <2>1. TypeOK'
      BY <1>1, GotoInside DEF writeLock, TypeOK, Points
    <2>2. CountersExact'
      BY <1>1, StaysOutside DEF writeLock, Points
    <2>3. CountersAllow'
      BY <1>1 DEF writeLock, TypeOK, CountersAllow
    <2>4. At("readLock.asleep")' \subseteq At("readLock.asleep")
      BY <1>1 DEF GotoAndWake, At
    <2>5. NoLostWakeup'
      BY <1>1, <2>4 DEF writeLock, TypeOK, NoLostWakeup
    <2>. QED
      BY <2>1, <2>2, <2>3, <2>5
  <1>2. CASE ~ (rd_cnt + wr_cnt > 0) /\ GotoAndWake(t, "writing", {}) /\ wr_cnt' = wr_cnt + 1
    <2>1. TypeOK'
      BY <1>2, GotoInside DEF writeLock, TypeOK, Points
    <2>2. CountersExact'
      BY <1>2, EntersWriting DEF writeLock
    <2>3. CountersAllow' /\ NoLostWakeup'
      BY <1>2 DEF writeLock, TypeOK, CountersAllow, NoLostWakeup
    <2>. QED
      BY <2>1, <2>2, <2>3
  <1>. QED
    BY <1>1, <1>2 DEF writeLock

\* Everybody asleep is woken by a writer that leaves.
LEMMA WriterLeaves ==
    ASSUME LockInv, NEW t \in Threads, UnWritelock(t)
    PROVE  LockInv'
  <1>. USE DEF LockInv
  <1>1. wr_cnt = 1 /\ rd_cnt = 0
    BY InsideCounted DEF UnWritelock
  <1>2. TypeOK'
    BY <1>1, GotoInside DEF UnWritelock, TypeOK, Points
  <1>3. CountersExact'
    BY LeavesWriting DEF UnWritelock
  <1>4. Asleep' = {}
    BY DEF UnWritelock, GotoAndWake, Wake, Asleep, At
  <1>5. CountersAllow'
    BY <1>1 DEF UnWritelock, CountersAllow
  <1>6. NoLostWakeup'
    BY <1>4 DEF NoLostWakeup, Asleep
  <1>. QED
    BY <1>2, <1>3, <1>5, <1>6

\* The last reader that leaves finds only writers asleep and wakes one.
LEMMA ReaderLeaves ==
    ASSUME LockInv, NEW t \in Threads, UnReadlock(t)
    PROVE  LockInv'
  <1>. USE DEF LockInv
  <1>1. rd_cnt > 0 /\ wr_cnt = 0 /\ wr_cnt' = 0 /\ rd_cnt' = rd_cnt - 1
    BY InsideCounted DEF UnReadlock
  <1>2. PICK S \in IF rd_cnt = 1 THEN Signalled ELSE {{}} : GotoAndWake(t, "idle", S)
    BY DEF UnReadlock
  <1>3. TypeOK'
    BY <1>1, <1>2, GotoInside DEF TypeOK, Points
  <1>4. CountersExact'
    BY <1>1, <1>2, LeavesReading DEF UnReadlock
  <1>5. CountersAllow'
    BY <1>1 DEF CountersAllow
  <1>6. At("readLock.asleep")' = {}
    BY <1>1, <1>2 DEF NoLostWakeup, GotoAndWake, Wake, At, TypeOK
  <1>7. ASSUME rd_cnt' = 0, Asleep' # {} PROVE Woken' # {}
    <2>1. rd_cnt = 1
      BY <1>1, <1>7 DEF TypeOK
    <2>2. Asleep # {}
      BY <1>2, <1>7 DEF GotoAndWake, Wake, Asleep, At
    <2>3. PICK u \in Asleep : S = {u}
      BY <1>2, <2>1, <2>2 DEF Signalled
    <2>4. u # t /\ u \in Threads
      BY <2>3 DEF UnReadlock, Asleep, At
    <2>5. pc'[u] = Wake(pc[u])
      BY <1>2, <2>3, <2>4 DEF GotoAndWake
    <2>6. u \in Woken'
      BY <2>3, <2>4, <2>5 DEF Wake, Asleep, Woken, At
    <2>. QED
      BY <2>6
  <1>8. NoLostWakeup'
    BY <1>6, <1>7 DEF NoLostWakeup
  <1>. QED
    BY <1>3, <1>4, <1>5, <1>8

\* unlock() tells its caller apart by the counters: it is the other two.
LEMMA unlockIsEither ==
    ASSUME LockInv, NEW t \in Threads, unlock(t)
    PROVE  UnWritelock(t) \/ UnReadlock(t)
  <1>1. CASE pc[t] = "writing"
    <2>1. wr_cnt = 1
      BY <1>1, InsideCounted
    <2>2. GotoAndWake(t, "idle", Asleep)
      BY <2>1 DEF unlock
    <2>. QED
      BY <1>1, <2>1, <2>2 DEF unlock, UnWritelock
  <1>2. CASE pc[t] = "reading"
    <2>1. rd_cnt > 0 /\ wr_cnt = 0 /\ rd_cnt \in Nat
      BY <1>2, InsideCounted DEF LockInv, TypeOK
    <2>2. \E S \in IF rd_cnt = 1 THEN Signalled ELSE {{}} : GotoAndWake(t, "idle", S)
      BY <2>1 DEF unlock
    <2>3. rd_cnt' = rd_cnt - 1 /\ wr_cnt' = wr_cnt
      BY <2>1 DEF unlock
    <2>. QED
      BY <1>2, <2>2, <2>3 DEF UnReadlock
  <1>. QED
    BY <1>1, <1>2 DEF unlock

LEMMA SpuriousKeeps ==
    ASSUME LockInv, NEW t \in Threads, SpuriousWakeup(t)
    PROVE  LockInv'
  <1>. USE DEF LockInv
  <1>1. Wake(pc[t]) \in {"readLock.woken", "writeLock.woken"} /\ pc[t] \notin {"reading", "writing"}
    BY DEF SpuriousWakeup, Wake, Asleep, At
  <1>2. TypeOK'
    BY <1>1, GotoInside DEF SpuriousWakeup, TypeOK, Points
  <1>3. CountersExact'
    BY <1>1, StaysOutside DEF SpuriousWakeup, Points
  <1>4. At("readLock.asleep")' \subseteq At("readLock.asleep") /\ t \in Woken'
    BY <1>1 DEF SpuriousWakeup, GotoAndWake, At, Woken
  <1>5. CountersAllow' /\ NoLostWakeup'
    BY <1>4 DEF SpuriousWakeup, CountersAllow, NoLostWakeup
  <1>. QED
    BY <1>2, <1>3, <1>5

-----------------------------------------------------------------------------
LEMMA LockStart == Init => LockInv
  <1>. SUFFICES ASSUME Init PROVE LockInv
    OBVIOUS
  <1>1. At("reading") = {} /\ At("writing") = {} /\ Asleep = {}
    BY DEF Init, At, Asleep
  <1>2. TypeOK
    BY DEF Init, TypeOK, Points
  <1>3. CountersExact
    BY <1>1, FS_EmptySet DEF Init, CountersExact
  <1>4. CountersAllow /\ NoLostWakeup
    BY <1>1 DEF Init, CountersAllow, NoLostWakeup, Asleep
  <1>. QED
    BY <1>2, <1>3, <1>4 DEF LockInv

LEMMA LockKeeps == LockInv /\ [Next]_vars => LockInv'
  <1>. SUFFICES ASSUME LockInv, [Next]_vars PROVE LockInv'
    OBVIOUS
  <1>1. ASSUME NEW t \in Threads, Acquire(t) PROVE LockInv'
    BY <1>1, readLockKeeps, writeLockKeeps DEF Acquire
  <1>2. ASSUME NEW t \in Threads, Release(t) PROVE LockInv'
    BY <1>2, unlockIsEither, WriterLeaves, ReaderLeaves DEF Release
  <1>3. ASSUME NEW t \in Threads, SpuriousWakeup(t) PROVE LockInv'
    BY <1>3, SpuriousKeeps
  <1>4. CASE UNCHANGED vars
    BY <1>4 DEF LockInv, TypeOK, CountersExact, CountersAllow, NoLostWakeup,
                Asleep, Woken, At, vars
  <1>. QED
    BY <1>1, <1>2, <1>3, <1>4 DEF Next

\* rd_cnt and wr_cnt of GMJRRWLock are exactly the threads inside, and a free lock with
\* sleepers always has a woken thread on its way, with the one pthread_cond_signal of
\* the last reader.
THEOREM LockCounts == Spec => []LockInv
  BY LockStart, LockKeeps, PTL DEF Spec

LEMMA InvExclusion == LockInv => Exclusion
  <1>. SUFFICES ASSUME LockInv, NEW t \in Threads, NEW u \in Threads,
                       pc[t] = "writing", pc[u] \in {"reading", "writing"}
                PROVE  t = u
    BY DEF Exclusion
  <1>1. wr_cnt = 1 /\ rd_cnt = 0
    BY InsideCounted
  <1>2. pc[u] = "writing"
    BY <1>1, InsideCounted
  <1>3. t \in At("writing") /\ u \in At("writing") /\ Cardinality(At("writing")) = 1
    BY <1>1, <1>2 DEF At, LockInv, CountersExact
  <1>4. \E x : At("writing") = {x}
    BY <1>3, AtFinite, FS_Singleton
  <1>. QED
    BY <1>3, <1>4

\* readLock and writeLock never let a writer in beside anybody else.
THEOREM ExclusionCorrect == Spec => []Exclusion
  BY InvExclusion, LockCounts, PTL

-----------------------------------------------------------------------------
LEMMA StepAbstract ==
    ASSUME LockInv, [Next]_vars
    PROVE  [Abstract!Next]_<<At("reading"), At("writing")>>
  <1>. DEFINE R == At("reading")
              W == At("writing")
  <1>. pc \in [Threads -> Points]
    BY DEF LockInv, TypeOK
  <1>0. (rd_cnt = 0 <=> R = {}) /\ (wr_cnt = 0 <=> W = {})
    BY AtZero DEF LockInv, CountersExact
  <1>1. ASSUME NEW t \in Threads, readLock(t) PROVE Abstract!StartRead(t) \/ UNCHANGED <<R, W>>
    <2>0. t \notin R /\ t \notin W
      BY <1>1 DEF readLock, At
    <2>1. CASE GotoAndWake(t, "readLock.asleep", {})
      BY <2>0, <2>1, GotoInside DEF Points
    <2>2. CASE wr_cnt = 0 /\ GotoAndWake(t, "reading", {})
      <3>1. R' = R \cup {t} /\ W' = W \ {t}
        BY <2>2, GotoInside DEF Points
      <3>. QED
        BY <1>0, <2>0, <2>2, <3>1 DEF Abstract!StartRead
    <2>. QED
      BY <1>1, <2>1, <2>2 DEF readLock, LockInv, TypeOK
  <1>2. ASSUME NEW t \in Threads, writeLock(t) PROVE Abstract!StartWrite(t) \/ UNCHANGED <<R, W>>
    <2>0. t \notin R /\ t \notin W
      BY <1>2 DEF writeLock, At
    <2>1. CASE GotoAndWake(t, "writeLock.asleep", {})
      BY <2>0, <2>1, GotoInside DEF Points
    <2>2. CASE rd_cnt = 0 /\ wr_cnt = 0 /\ GotoAndWake(t, "writing", {})
      <3>1. R' = R \ {t} /\ W' = W \cup {t}
        BY <2>2, GotoInside DEF Points
      <3>. QED
        BY <1>0, <2>0, <2>2, <3>1 DEF Abstract!StartWrite
    <2>. QED
      BY <1>2, <2>1, <2>2 DEF writeLock, LockInv, TypeOK
  <1>3. ASSUME NEW t \in Threads, UnReadlock(t) PROVE Abstract!StopRead(t)
    <2>1. R' = R \ {t} /\ W' = W \ {t}
      BY <1>3, GotoInside DEF UnReadlock, Points
    <2>2. t \in R /\ t \notin W
      BY <1>3 DEF UnReadlock, At
    <2>. QED
      BY <2>1, <2>2 DEF Abstract!StopRead
  <1>4. ASSUME NEW t \in Threads, UnWritelock(t) PROVE Abstract!StopWrite(t)
    <2>1. R' = R \ {t} /\ W' = W \ {t}
      BY <1>4, GotoInside DEF UnWritelock, Points
    <2>2. t \notin R /\ t \in W
      BY <1>4 DEF UnWritelock, At
    <2>. QED
      BY <2>1, <2>2 DEF Abstract!StopWrite
  <1>5. ASSUME NEW t \in Threads, SpuriousWakeup(t) PROVE UNCHANGED <<R, W>>
    BY <1>5 DEF SpuriousWakeup, GotoAndWake, Wake, Asleep, At
  <1>6. CASE UNCHANGED vars
    BY <1>6 DEF vars, At
  <1>. QED
    BY <1>1, <1>2, <1>3, <1>4, <1>5, <1>6, unlockIsEither
    DEF Next, Acquire, Release, Abstract!Next

\* GMJRRWLock implements a reader-writer lock: every step of its calls is a
\* legal step of ReadersWriters or leaves who is inside alone.
THEOREM Refinement == Spec => ImplementsReadersWriters
  <1>1. Init => Abstract!Init
    BY DEF Init, Abstract!Init, At
  <1>2. LockInv /\ [Next]_vars => [Abstract!Next]_<<At("reading"), At("writing")>>
    BY StepAbstract
  <1>. QED
    BY <1>1, <1>2, LockCounts, PTL DEF Spec, ImplementsReadersWriters, Abstract!Spec

-----------------------------------------------------------------------------
\* WIN32 build.  The threads at a point, counted.
WinCount(p) == Cardinality(win!At(p))

\* The books when r units for readers and w for writers are still to be released.
WinBooks(r, w) ==
    LET reads == WinCount("reading") + m_hsemReaders + r
        writes == WinCount("writing") + m_hsemWriters + w
    IN  /\ m_nActive = IF writes > 0 THEN -1 ELSE reads
        /\ writes <= 1 /\ (writes = 1 => reads = 0)
        /\ WinCount("readLock.wait") = m_nWaitingReaders + m_hsemReaders + r
        /\ WinCount("writeLock.wait") = m_nWaitingWriters + m_hsemWriters + w

WinType ==
    /\ m_nActive \in Int /\ m_nWaitingReaders \in Nat /\ m_nWaitingWriters \in Nat
    /\ m_hsemReaders \in Nat /\ m_hsemWriters \in Nat
    /\ winPc \in [Threads -> win!Points]
    /\ release \in [Threads -> Nat \X Nat]

\* The books are kept with what the one thread on its way to ReleaseSemaphore owes, and
\* it owes something.
WinInv ==
    /\ WinType
    /\ \A t, u \in win!At("unlock.release") : t = u
    /\ \A t \in win!At("unlock.release") :
          release[t][1] + release[t][2] > 0 /\ WinBooks(release[t][1], release[t][2])
    /\ win!At("unlock.release") = {} => WinBooks(0, 0)
    /\ win!WaitersHaveOwner

LEMMA WinSameCount == ASSUME NEW S PROVE win!Cardinality(S) = Cardinality(S)
  BY DEF win!Cardinality, Cardinality

LEMMA WinFinite ==
    ASSUME NEW p
    PROVE  /\ IsFiniteSet(win!At(p))
           /\ WinCount(p) \in Nat
           /\ WinCount(p) = 0 <=> win!At(p) = {}
  <1>1. win!At(p) \subseteq Threads
    BY DEF win!At
  <1>2. IsFiniteSet(win!At(p))
    BY <1>1, FS_Subset, ThreadsFinite
  <1>. QED
    BY <1>2, FS_CardinalityType, FS_EmptySet DEF WinCount

\* A thread that goes from one point to another is counted there.
LEMMA WinMoves ==
    ASSUME NEW t \in Threads, NEW p \in win!Points, NEW q \in win!Points,
           winPc \in [Threads -> win!Points], winPc[t] = p, p # q, win!Goto(t, q)
    PROVE  /\ winPc' \in [Threads -> win!Points]
           /\ win!At(p)' = win!At(p) \ {t} /\ t \in win!At(p)
           /\ WinCount(p)' = WinCount(p) - 1 /\ WinCount(p) > 0
           /\ win!At(q)' = win!At(q) \cup {t} /\ t \notin win!At(q)
           /\ WinCount(q)' = WinCount(q) + 1
           /\ \A r \in win!Points \ {p, q} :
                 win!At(r)' = win!At(r) /\ WinCount(r)' = WinCount(r)
  <1>1. winPc' \in [Threads -> win!Points] /\ winPc' = [winPc EXCEPT ![t] = q]
    BY DEF win!Goto
  <1>2. win!At(p)' = win!At(p) \ {t} /\ t \in win!At(p)
    BY <1>1 DEF win!At
  <1>3. win!At(q)' = win!At(q) \cup {t} /\ t \notin win!At(q)
    BY <1>1 DEF win!At
  <1>4. ASSUME NEW r \in win!Points \ {p, q} PROVE win!At(r)' = win!At(r)
    BY <1>1 DEF win!At
  <1>5. WinCount(p)' = WinCount(p) - 1 /\ WinCount(p) > 0
    <2>1. Cardinality(win!At(p) \ {t}) = Cardinality(win!At(p)) - 1
      BY <1>2, WinFinite, FS_RemoveElement, Zenon
    <2>2. WinCount(p) # 0 /\ WinCount(p) \in Nat
      BY <1>2, WinFinite
    <2>. QED
      BY <1>2, <2>1, <2>2 DEF WinCount
  <1>6. WinCount(q)' = WinCount(q) + 1
    <2>1. Cardinality(win!At(q) \cup {t}) = Cardinality(win!At(q)) + 1
      BY <1>3, WinFinite, FS_AddElement, Zenon
    <2>. QED
      BY <1>3, <2>1 DEF WinCount
  <1>. QED
    BY <1>1, <1>2, <1>3, <1>4, <1>5, <1>6 DEF WinCount

LEMMA WinStart == win!Init => WinInv
  <1>. SUFFICES ASSUME win!Init PROVE WinInv
    OBVIOUS
  <1>1. WinType
    BY DEF win!Init, WinType, win!Points
  <1>2. \A p \in win!Points \ {"idle"} : win!At(p) = {} /\ WinCount(p) = 0
    BY WinFinite, Zenon DEF win!Init, win!At
  <1>3. WinBooks(0, 0)
    BY <1>2 DEF win!Init, WinBooks, win!Points
  <1>. QED
    BY <1>1, <1>2, <1>3 DEF WinInv, win!Init, win!Points, win!WaitersHaveOwner

\* What the thread on its way to ReleaseSemaphore owes.
WinOwes(r, w) ==
    \/ win!At("unlock.release") = {} /\ r = 0 /\ w = 0
    \/ \E t \in Threads : /\ win!At("unlock.release") = {t}
                          /\ r = release[t][1] /\ w = release[t][2] /\ r + w > 0

LEMMA WinBooksKept ==
    ASSUME WinInv
    PROVE  \E r, w \in Nat : WinOwes(r, w) /\ WinBooks(r, w)
  <1>1. CASE win!At("unlock.release") = {}
    BY <1>1 DEF WinInv, WinOwes
  <1>2. CASE win!At("unlock.release") # {}
    <2>1. PICK t \in Threads : t \in win!At("unlock.release")
      BY <1>2 DEF win!At
    <2>2. win!At("unlock.release") = {t}
      BY <2>1 DEF WinInv
    <2>3. release[t][1] \in Nat /\ release[t][2] \in Nat
      BY DEF WinInv, WinType
    <2>. QED
      BY <2>1, <2>2, <2>3 DEF WinInv, WinOwes
  <1>. QED
    BY <1>1, <1>2

LEMMA WinReadLock ==
    ASSUME WinInv, NEW t \in Threads, win!readLock(t)
    PROVE  WinInv'
  <1>. USE DEF win!Points
  <1>1. PICK r \in Nat, w \in Nat : WinOwes(r, w) /\ WinBooks(r, w)
    BY WinBooksKept
  <1>2. \A p \in win!Points : WinCount(p) \in Nat
    BY WinFinite
  <1>t. WinType /\ win!WaitersHaveOwner
    BY DEF WinInv
  <1>3. CASE m_nWaitingWriters # 0 \/ m_nActive < 0
    <2>1. /\ win!Goto(t, "readLock.wait") /\ winPc[t] = "idle"
          /\ m_nWaitingReaders' = m_nWaitingReaders + 1
          /\ UNCHANGED <<m_nActive, m_nWaitingWriters, m_hsemReaders, m_hsemWriters, release>>
      BY <1>3 DEF win!readLock, win!sems
    <2>2. /\ winPc' \in [Threads -> win!Points]
          /\ WinCount("readLock.wait")' = WinCount("readLock.wait") + 1
          /\ \A p \in win!Points \ {"idle", "readLock.wait"} :
                win!At(p)' = win!At(p) /\ WinCount(p)' = WinCount(p)
      BY <2>1, <1>t, WinMoves DEF WinType
    <2>3. WinType' /\ WinOwes(r, w)'
      BY <1>1, <1>t, <2>1, <2>2 DEF WinType, WinOwes
    <2>4. WinBooks(r, w)'
      BY <1>1, <1>2, <1>t, <2>1, <2>2 DEF WinType, WinBooks
    <2>5. win!WaitersHaveOwner'
      BY <1>3, <1>t, <2>1 DEF WinType, win!WaitersHaveOwner
    <2>. QED
      BY <1>1, <2>3, <2>4, <2>5 DEF WinInv, WinOwes
  <1>4. CASE ~(m_nWaitingWriters # 0 \/ m_nActive < 0)
    <2>1. /\ win!Goto(t, "reading") /\ winPc[t] = "idle"
          /\ m_nActive' = m_nActive + 1
          /\ UNCHANGED <<m_nWaitingReaders, m_nWaitingWriters, m_hsemReaders, m_hsemWriters, release>>
      BY <1>4 DEF win!readLock, win!sems
    <2>2. /\ winPc' \in [Threads -> win!Points]
          /\ WinCount("reading")' = WinCount("reading") + 1
          /\ \A p \in win!Points \ {"idle", "reading"} :
                win!At(p)' = win!At(p) /\ WinCount(p)' = WinCount(p)
      BY <2>1, <1>t, WinMoves DEF WinType
    <2>3. WinType' /\ WinOwes(r, w)'
      BY <1>1, <1>t, <2>1, <2>2 DEF WinType, WinOwes
    <2>4. WinBooks(r, w)'
      BY <1>1, <1>2, <1>4, <1>t, <2>1, <2>2 DEF WinType, WinBooks
    <2>5. win!WaitersHaveOwner'
      BY <1>4, <1>t, <2>1 DEF WinType, win!WaitersHaveOwner
    <2>. QED
      BY <1>1, <2>3, <2>4, <2>5 DEF WinInv, WinOwes
  <1>. QED
    BY <1>3, <1>4
LEMMA WinReadLockWait ==
    ASSUME WinInv, NEW t \in Threads, win!readLockWait(t)
    PROVE  WinInv'
  <1>. USE DEF win!Points
  <1>1. PICK r \in Nat, w \in Nat : WinOwes(r, w) /\ WinBooks(r, w)
    BY WinBooksKept
  <1>2. \A p \in win!Points : WinCount(p) \in Nat
    BY WinFinite
  <1>t. WinType /\ win!WaitersHaveOwner
    BY DEF WinInv
  <1>3. /\ win!Goto(t, "reading") /\ winPc[t] = "readLock.wait"
        /\ m_hsemReaders > 0 /\ m_hsemReaders' = m_hsemReaders - 1
        /\ UNCHANGED <<m_nActive, m_nWaitingReaders, m_nWaitingWriters, m_hsemWriters, release>>
    BY DEF win!readLockWait, win!Wait, win!members
  <1>4. /\ winPc' \in [Threads -> win!Points]
        /\ WinCount("reading")' = WinCount("reading") + 1
        /\ WinCount("readLock.wait")' = WinCount("readLock.wait") - 1
        /\ \A p \in win!Points \ {"readLock.wait", "reading"} :
              win!At(p)' = win!At(p) /\ WinCount(p)' = WinCount(p)
    BY <1>3, <1>t, WinMoves DEF WinType
  <1>5. WinType' /\ WinOwes(r, w)'
    BY <1>1, <1>t, <1>3, <1>4 DEF WinType, WinOwes
  <1>5a. WinCount("writing")' = WinCount("writing")
         /\ WinCount("writeLock.wait")' = WinCount("writeLock.wait")
    BY <1>4
  <1>6. WinBooks(r, w)'
    BY <1>1, <1>2, <1>t, <1>3, <1>4, <1>5a DEF WinType, WinBooks
  <1>7. win!WaitersHaveOwner'
    BY <1>t, <1>3 DEF win!WaitersHaveOwner
  <1>. QED
    BY <1>1, <1>5, <1>6, <1>7 DEF WinInv, WinOwes

LEMMA WinWriteLock ==
    ASSUME WinInv, NEW t \in Threads, win!writeLock(t)
    PROVE  WinInv'
  <1>. USE DEF win!Points
  <1>1. PICK r \in Nat, w \in Nat : WinOwes(r, w) /\ WinBooks(r, w)
    BY WinBooksKept
  <1>2. \A p \in win!Points : WinCount(p) \in Nat
    BY WinFinite
  <1>t. WinType /\ win!WaitersHaveOwner
    BY DEF WinInv
  <1>3. CASE m_nActive # 0
    <2>1. /\ win!Goto(t, "writeLock.wait") /\ winPc[t] = "idle"
          /\ m_nWaitingWriters' = m_nWaitingWriters + 1
          /\ UNCHANGED <<m_nActive, m_nWaitingReaders, m_hsemReaders, m_hsemWriters, release>>
      BY <1>3 DEF win!writeLock, win!sems
    <2>2. /\ winPc' \in [Threads -> win!Points]
          /\ WinCount("writeLock.wait")' = WinCount("writeLock.wait") + 1
          /\ \A p \in win!Points \ {"idle", "writeLock.wait"} :
                win!At(p)' = win!At(p) /\ WinCount(p)' = WinCount(p)
      BY <2>1, <1>t, WinMoves DEF WinType
    <2>3. WinType' /\ WinOwes(r, w)'
      BY <1>1, <1>t, <2>1, <2>2 DEF WinType, WinOwes
    <2>4. WinBooks(r, w)'
      BY <1>1, <1>2, <1>t, <2>1, <2>2 DEF WinType, WinBooks
    <2>5. win!WaitersHaveOwner'
      BY <1>3, <2>1 DEF win!WaitersHaveOwner
    <2>. QED
      BY <1>1, <2>3, <2>4, <2>5 DEF WinInv, WinOwes
  <1>4. CASE m_nActive = 0
    <2>1. /\ win!Goto(t, "writing") /\ winPc[t] = "idle"
          /\ m_nActive' = -1
          /\ UNCHANGED <<m_nWaitingReaders, m_nWaitingWriters, m_hsemReaders, m_hsemWriters, release>>
      BY <1>4 DEF win!writeLock, win!sems
    <2>2. /\ winPc' \in [Threads -> win!Points]
          /\ WinCount("writing")' = WinCount("writing") + 1
          /\ \A p \in win!Points \ {"idle", "writing"} :
                win!At(p)' = win!At(p) /\ WinCount(p)' = WinCount(p)
      BY <2>1, <1>t, WinMoves DEF WinType
    <2>3. WinType' /\ WinOwes(r, w)'
      BY <1>1, <1>t, <2>1, <2>2 DEF WinType, WinOwes
    <2>4. WinBooks(r, w)'
      BY <1>1, <1>2, <1>4, <1>t, <2>1, <2>2 DEF WinType, WinBooks
    <2>5. win!WaitersHaveOwner'
      BY <2>1 DEF win!WaitersHaveOwner
    <2>. QED
      BY <1>1, <2>3, <2>4, <2>5 DEF WinInv, WinOwes
  <1>. QED
    BY <1>3, <1>4

LEMMA WinWriteLockWait ==
    ASSUME WinInv, NEW t \in Threads, win!writeLockWait(t)
    PROVE  WinInv'
  <1>. USE DEF win!Points
  <1>1. PICK r \in Nat, w \in Nat : WinOwes(r, w) /\ WinBooks(r, w)
    BY WinBooksKept
  <1>2. \A p \in win!Points : WinCount(p) \in Nat
    BY WinFinite
  <1>t. WinType /\ win!WaitersHaveOwner
    BY DEF WinInv
  <1>3. /\ win!Goto(t, "writing") /\ winPc[t] = "writeLock.wait"
        /\ m_hsemWriters > 0 /\ m_hsemWriters' = m_hsemWriters - 1
        /\ UNCHANGED <<m_nActive, m_nWaitingReaders, m_nWaitingWriters, m_hsemReaders, release>>
    BY DEF win!writeLockWait, win!Wait, win!members
  <1>4. /\ winPc' \in [Threads -> win!Points]
        /\ WinCount("writing")' = WinCount("writing") + 1
        /\ WinCount("writeLock.wait")' = WinCount("writeLock.wait") - 1
        /\ \A p \in win!Points \ {"writeLock.wait", "writing"} :
              win!At(p)' = win!At(p) /\ WinCount(p)' = WinCount(p)
    BY <1>3, <1>t, WinMoves DEF WinType
  <1>5. WinType' /\ WinOwes(r, w)'
    BY <1>1, <1>t, <1>3, <1>4 DEF WinType, WinOwes
  <1>6. WinBooks(r, w)'
    BY <1>1, <1>2, <1>t, <1>3, <1>4, SMTT(30) DEF WinType, WinBooks
  <1>7. win!WaitersHaveOwner'
    BY <1>t, <1>3 DEF win!WaitersHaveOwner
  <1>. QED
    BY <1>1, <1>5, <1>6, <1>7 DEF WinInv, WinOwes

\* unlock() tells a reader from a writer by the sign of m_nActive, and is the last one out
\* only when nothing is handed over that has not been released.
LEMMA WinLeaver ==
    ASSUME WinInv, NEW t \in Threads, winPc[t] \in {"reading", "writing"},
           NEW r \in Nat, NEW w \in Nat, WinOwes(r, w), WinBooks(r, w)
    PROVE  /\ winPc[t] = "reading" => m_nActive > 0 /\ win!Remaining = m_nActive - 1
           /\ winPc[t] = "writing" => m_nActive = -1 /\ win!Remaining = 0
           /\ win!Remaining = 0 =>
                 /\ win!At("unlock.release") = {} /\ r = 0 /\ w = 0
                 /\ m_hsemReaders = 0 /\ m_hsemWriters = 0
                 /\ WinCount(winPc[t]) = 1 /\ WinCount("reading") + WinCount("writing") = 1
  <1>1. /\ WinCount("reading") \in Nat /\ WinCount("writing") \in Nat
        /\ m_hsemReaders \in Nat /\ m_hsemWriters \in Nat
    BY WinFinite DEF WinInv, WinType
  <1>2. /\ winPc[t] = "reading" => WinCount("reading") > 0
        /\ winPc[t] = "writing" => WinCount("writing") > 0
    <2>1. /\ winPc[t] = "reading" => win!At("reading") # {}
          /\ winPc[t] = "writing" => win!At("writing") # {}
      BY DEF win!At
    <2>. QED
      BY <1>1, <2>1, WinFinite
  <1>3. /\ winPc[t] = "reading" => m_nActive = WinCount("reading") + m_hsemReaders + r
        /\ winPc[t] = "reading" => WinCount("writing") + m_hsemWriters + w = 0
        /\ winPc[t] = "writing" => m_nActive = -1 /\ WinCount("reading") + m_hsemReaders + r = 0
        /\ winPc[t] = "writing" => WinCount("writing") + m_hsemWriters + w = 1
    BY <1>1, <1>2 DEF WinBooks
  <1>4. /\ winPc[t] = "reading" => m_nActive > 0 /\ win!Remaining = m_nActive - 1
        /\ winPc[t] = "writing" => m_nActive = -1 /\ win!Remaining = 0
    BY <1>1, <1>2, <1>3 DEF win!Remaining
  <1>5. ASSUME win!Remaining = 0
        PROVE  /\ m_hsemReaders = 0 /\ m_hsemWriters = 0 /\ r = 0 /\ w = 0
               /\ WinCount(winPc[t]) = 1 /\ WinCount("reading") + WinCount("writing") = 1
    <2>1. CASE winPc[t] = "reading"
      BY <1>1, <1>2, <1>3, <1>4, <1>5, <2>1
    <2>2. CASE winPc[t] = "writing"
      BY <1>1, <1>2, <1>3, <1>4, <1>5, <2>2
    <2>. QED
      BY <2>1, <2>2
  <1>. QED
    BY <1>4, <1>5 DEF WinOwes

\* The last one out leaves a resource that nobody waits for; others leave theirs to those
\* inside.
LEMMA WinUnlockNobodyWaits ==
    ASSUME WinInv, NEW t \in Threads, win!unlockNobodyWaits(t)
    PROVE  WinInv'
  <1>. USE DEF win!Points
  <1>1. PICK r \in Nat, w \in Nat : WinOwes(r, w) /\ WinBooks(r, w)
    BY WinBooksKept
  <1>2. \A p \in win!Points : WinCount(p) \in Nat
    BY WinFinite
  <1>t. WinType /\ win!WaitersHaveOwner
    BY DEF WinInv
  <1>3. /\ win!Goto(t, "idle") /\ winPc[t] \in {"reading", "writing"}
        /\ m_nActive' = win!Remaining
        /\ win!Remaining # 0 \/ (m_nWaitingWriters = 0 /\ m_nWaitingReaders = 0)
        /\ UNCHANGED <<m_nWaitingReaders, m_nWaitingWriters, m_hsemReaders, m_hsemWriters, release>>
    BY DEF win!unlockNobodyWaits, win!sems
  <1>4. /\ winPc[t] = "reading" => m_nActive > 0 /\ win!Remaining = m_nActive - 1
        /\ winPc[t] = "writing" => m_nActive = -1 /\ win!Remaining = 0
    BY <1>1, <1>3, WinLeaver
  <1>5. ASSUME NEW p \in {"reading", "writing"}, winPc[t] = p
        PROVE  /\ winPc' \in [Threads -> win!Points]
               /\ WinCount(p)' = WinCount(p) - 1 /\ WinCount(p) > 0
               /\ \A q \in win!Points \ {"idle", p} :
                     win!At(q)' = win!At(q) /\ WinCount(q)' = WinCount(q)
    BY <1>3, <1>5, <1>t, WinMoves DEF WinType
  <1>6. WinType' /\ WinOwes(r, w)'
    BY <1>1, <1>t, <1>3, <1>4, <1>5 DEF WinType, WinOwes
  <1>7. WinBooks(r, w)'
    <2>1. CASE winPc[t] = "reading"
      BY <1>1, <1>2, <1>t, <1>3, <1>4, <1>5, <2>1, SMTT(30) DEF WinType, WinBooks
    <2>2. CASE winPc[t] = "writing"
      BY <1>1, <1>2, <1>t, <1>3, <1>4, <1>5, <2>2 DEF WinType, WinBooks
    <2>. QED
      BY <1>3, <2>1, <2>2
  <1>8. win!WaitersHaveOwner'
    BY <1>t, <1>3 DEF WinType, win!WaitersHaveOwner
  <1>. QED
    BY <1>1, <1>6, <1>7, <1>8 DEF WinInv, WinOwes

\* The last one out hands the resource to a waiting writer: the unit is owed.
LEMMA WinUnlockToWriter ==
    ASSUME WinInv, NEW t \in Threads, win!unlockToWriter(t)
    PROVE  WinInv'
  <1>. USE DEF win!Points
  <1>1. PICK r \in Nat, w \in Nat : WinOwes(r, w) /\ WinBooks(r, w)
    BY WinBooksKept
  <1>2. \A p \in win!Points : WinCount(p) \in Nat
    BY WinFinite
  <1>t. WinType
    BY DEF WinInv
  <1>3. /\ win!Goto(t, "unlock.release") /\ winPc[t] \in {"reading", "writing"}
        /\ win!Remaining = 0 /\ m_nWaitingWriters > 0
        /\ m_nActive' = -1 /\ m_nWaitingWriters' = m_nWaitingWriters - 1
        /\ release' = [release EXCEPT ![t] = <<0, 1>>]
        /\ UNCHANGED <<m_nWaitingReaders, m_hsemReaders, m_hsemWriters>>
    BY DEF win!unlockToWriter, win!sems
  <1>4. /\ win!At("unlock.release") = {} /\ r = 0 /\ w = 0
        /\ m_hsemReaders = 0 /\ m_hsemWriters = 0
        /\ WinCount(winPc[t]) = 1 /\ WinCount("reading") + WinCount("writing") = 1
    BY <1>1, <1>3, WinLeaver
  <1>5. ASSUME NEW p \in {"reading", "writing"}, winPc[t] = p
        PROVE  /\ winPc' \in [Threads -> win!Points]
               /\ win!At("unlock.release")' = win!At("unlock.release") \cup {t}
               /\ WinCount(p)' = WinCount(p) - 1
               /\ \A q \in win!Points \ {"unlock.release", p} : WinCount(q)' = WinCount(q)
    BY <1>3, <1>5, <1>t, WinMoves DEF WinType
  <1>6. WinType' /\ WinOwes(0, 1)'
    BY <1>t, <1>3, <1>4, <1>5 DEF WinType, WinOwes
  <1>7. WinCount("reading")' = 0 /\ WinCount("writing")' = 0
    BY <1>2, <1>3, <1>4, <1>5
  <1>8. WinCount("readLock.wait")' = WinCount("readLock.wait")
        /\ WinCount("writeLock.wait")' = WinCount("writeLock.wait")
    BY <1>3, <1>5
  <1>9. WinBooks(0, 1)'
    BY <1>1, <1>2, <1>t, <1>3, <1>4, <1>7, <1>8 DEF WinType, WinBooks
  <1>10. win!WaitersHaveOwner'
    BY <1>3 DEF win!WaitersHaveOwner
  <1>. QED
    BY <1>6, <1>9, <1>10 DEF WinInv, WinOwes

\* The last one out hands the resource to all waiting readers when no writer waits.
LEMMA WinUnlockToReaders ==
    ASSUME WinInv, NEW t \in Threads, win!unlockToReaders(t)
    PROVE  WinInv'
  <1>. USE DEF win!Points
  <1>1. PICK r \in Nat, w \in Nat : WinOwes(r, w) /\ WinBooks(r, w)
    BY WinBooksKept
  <1>2. \A p \in win!Points : WinCount(p) \in Nat
    BY WinFinite
  <1>t. WinType
    BY DEF WinInv
  <1>3. /\ win!Goto(t, "unlock.release") /\ winPc[t] \in {"reading", "writing"}
        /\ win!Remaining = 0 /\ m_nWaitingReaders > 0
        /\ m_nActive' = m_nWaitingReaders /\ m_nWaitingReaders' = 0
        /\ release' = [release EXCEPT ![t] = <<m_nWaitingReaders, 0>>]
        /\ UNCHANGED <<m_nWaitingWriters, m_hsemReaders, m_hsemWriters>>
    BY DEF win!unlockToReaders, win!sems
  <1>4. /\ win!At("unlock.release") = {} /\ r = 0 /\ w = 0
        /\ m_hsemReaders = 0 /\ m_hsemWriters = 0
        /\ WinCount(winPc[t]) = 1 /\ WinCount("reading") + WinCount("writing") = 1
    BY <1>1, <1>3, WinLeaver
  <1>5. ASSUME NEW p \in {"reading", "writing"}, winPc[t] = p
        PROVE  /\ winPc' \in [Threads -> win!Points]
               /\ win!At("unlock.release")' = win!At("unlock.release") \cup {t}
               /\ WinCount(p)' = WinCount(p) - 1
               /\ \A q \in win!Points \ {"unlock.release", p} : WinCount(q)' = WinCount(q)
    BY <1>3, <1>5, <1>t, WinMoves DEF WinType
  <1>. DEFINE n == m_nWaitingReaders
  <1>6. PICK k \in Nat : k = n
    BY <1>t DEF WinType
  <1>7. WinType' /\ WinOwes(k, 0)'
    <2>1. release' \in [Threads -> Nat \X Nat] /\ release'[t] = <<k, 0>>
      BY <1>t, <1>3, <1>6 DEF WinType
    <2>2. WinType'
      BY <1>t, <1>3, <1>5, <2>1 DEF WinType
    <2>3. win!At("unlock.release")' = {t}
      BY <1>3, <1>4, <1>5
    <2>. QED
      BY <1>3, <1>6, <2>1, <2>2, <2>3 DEF WinOwes
  <1>8. WinCount("reading")' = 0 /\ WinCount("writing")' = 0
    BY <1>2, <1>3, <1>4, <1>5
  <1>9. WinCount("readLock.wait")' = WinCount("readLock.wait")
        /\ WinCount("writeLock.wait")' = WinCount("writeLock.wait")
    BY <1>3, <1>5
  <1>10. WinBooks(k, 0)'
    BY <1>1, <1>2, <1>t, <1>3, <1>4, <1>6, <1>8, <1>9, SMTT(30) DEF WinType, WinBooks
  <1>11. win!WaitersHaveOwner'
    BY <1>3 DEF win!WaitersHaveOwner
  <1>. QED
    BY <1>7, <1>10, <1>11 DEF WinInv, WinOwes

\* What was owed becomes units of the semaphores.
LEMMA WinUnlockRelease ==
    ASSUME WinInv, NEW t \in Threads, win!unlockRelease(t)
    PROVE  WinInv'
  <1>. USE DEF win!Points
  <1>1. PICK r \in Nat, w \in Nat : WinOwes(r, w) /\ WinBooks(r, w)
    BY WinBooksKept
  <1>2. \A p \in win!Points : WinCount(p) \in Nat
    BY WinFinite
  <1>t. WinType /\ win!WaitersHaveOwner
    BY DEF WinInv
  <1>3. /\ win!Goto(t, "idle") /\ winPc[t] = "unlock.release"
        /\ m_hsemReaders' = m_hsemReaders + release[t][1]
        /\ m_hsemWriters' = m_hsemWriters + release[t][2]
        /\ release' = [release EXCEPT ![t] = <<0, 0>>]
        /\ UNCHANGED <<m_nActive, m_nWaitingReaders, m_nWaitingWriters>>
    BY DEF win!unlockRelease, win!members
  <1>4. /\ winPc' \in [Threads -> win!Points]
        /\ win!At("unlock.release")' = win!At("unlock.release") \ {t}
        /\ t \in win!At("unlock.release")
        /\ \A q \in win!Points \ {"unlock.release", "idle"} : WinCount(q)' = WinCount(q)
    BY <1>3, <1>t, WinMoves DEF WinType
  <1>5. win!At("unlock.release") = {t} /\ r = release[t][1] /\ w = release[t][2]
    BY <1>1, <1>4 DEF WinOwes
  <1>6. WinType' /\ WinOwes(0, 0)'
    <2>1. release' \in [Threads -> Nat \X Nat]
      BY <1>t, <1>3 DEF WinType
    <2>2. release[t][1] \in Nat /\ release[t][2] \in Nat
      BY <1>t DEF WinType
    <2>3. WinType'
      BY <1>t, <1>3, <1>4, <2>1, <2>2 DEF WinType
    <2>. QED
      BY <1>4, <1>5, <2>3 DEF WinOwes
  <1>7. WinBooks(0, 0)'
    BY <1>1, <1>2, <1>t, <1>3, <1>4, <1>5 DEF WinType, WinBooks
  <1>8. win!WaitersHaveOwner'
    BY <1>t, <1>3 DEF win!WaitersHaveOwner
  <1>. QED
    BY <1>6, <1>7, <1>8 DEF WinInv, WinOwes

LEMMA WinUnchanged == WinInv /\ UNCHANGED winVars => WinInv'
  <1>. SUFFICES ASSUME WinInv, UNCHANGED winVars PROVE WinInv'
    OBVIOUS
  <1>1. WinType'
    BY DEF WinInv, WinType, winVars
  <1>2. \A p : win!At(p)' = win!At(p) /\ WinCount(p)' = WinCount(p)
    BY DEF win!At, WinCount, winVars
  <1>3. \A r, w : WinBooks(r, w)' = WinBooks(r, w)
    BY <1>2 DEF WinBooks, winVars
  <1>. QED
    BY <1>1, <1>2, <1>3 DEF WinInv, win!At, win!WaitersHaveOwner, winVars

LEMMA WinKeeps == WinInv /\ win!Next => WinInv'
  BY WinReadLock, WinReadLockWait, WinWriteLock, WinWriteLockWait, WinUnlockNobodyWaits,
     WinUnlockToWriter, WinUnlockToReaders, WinUnlockRelease
  DEF win!Next, win!Continue, win!unlock

\* The invariant says what the books say: m_nActive counts exactly those inside or handed to.
LEMMA WinExact == WinInv => win!ActiveExact
  <1>. SUFFICES ASSUME WinInv PROVE win!ActiveExact
    OBVIOUS
  <1>. DEFINE U == win!At("unlock.release")
              promised == IF U = {} THEN <<0, 0>> ELSE release[CHOOSE t \in U : TRUE]
  <1>1. \A t, u \in U : t = u
    BY DEF WinInv
  <1>2. WinBooks(promised[1], promised[2])
    <2>1. CASE U = {}
      BY <2>1 DEF WinInv
    <2>2. CASE U # {}
      BY <2>2 DEF WinInv
    <2>. QED
      BY <2>1, <2>2
  <1>. HIDE DEF promised
  <1>3. LET reads == Cardinality(win!At("reading")) + m_hsemReaders + promised[1]
            writes == Cardinality(win!At("writing")) + m_hsemWriters + promised[2]
        IN  /\ m_nActive = IF writes > 0 THEN -1 ELSE reads
            /\ writes <= 1 /\ (writes = 1 => reads = 0)
            /\ Cardinality(win!At("readLock.wait")) = m_nWaitingReaders + m_hsemReaders + promised[1]
            /\ Cardinality(win!At("writeLock.wait")) = m_nWaitingWriters + m_hsemWriters + promised[2]
    BY <1>2 DEF WinBooks, WinCount
  <1>. QED
    BY <1>1, <1>3, WinSameCount DEF win!ActiveExact, promised

LEMMA WinAbstractStep ==
    ASSUME WinInv, win!Next
    PROVE  [win!Abstract!Next]_<<win!At("reading"), win!At("writing")>>
  <1>. USE DEF win!Points
  <1>. DEFINE R == win!At("reading")
              W == win!At("writing")
  <1>1. PICK r \in Nat, w \in Nat : WinOwes(r, w) /\ WinBooks(r, w)
    BY WinBooksKept
  <1>2. /\ WinCount("reading") \in Nat /\ (WinCount("reading") = 0 <=> R = {})
        /\ WinCount("writing") \in Nat /\ (WinCount("writing") = 0 <=> W = {})
    BY WinFinite
  <1>t. WinType
    BY DEF WinInv
  <1>3. ASSUME NEW t \in Threads, win!Goto(t, "reading"), winPc[t] \notin {"reading", "writing"}, W = {}
        PROVE  win!Abstract!StartRead(t)
    <2>1. R' = R \cup {t} /\ t \notin R /\ W' = W
      BY <1>3, <1>t, WinMoves DEF WinType
    <2>. QED
      BY <1>3, <2>1 DEF win!Abstract!StartRead
  <1>4. ASSUME NEW t \in Threads, win!Goto(t, "writing"), winPc[t] \notin {"reading", "writing"},
               R = {}, W = {}
        PROVE  win!Abstract!StartWrite(t)
    <2>1. W' = W \cup {t} /\ R' = R
      BY <1>4, <1>t, WinMoves DEF WinType
    <2>. QED
      BY <1>4, <2>1 DEF win!Abstract!StartWrite
  <1>5. ASSUME NEW t \in Threads, NEW q \in win!Points \ {"reading", "writing"}, win!Goto(t, q)
        PROVE  \/ win!Abstract!StopRead(t) \/ win!Abstract!StopWrite(t) \/ UNCHANGED <<R, W>>
    <2>1. CASE winPc[t] = "reading"
      BY <1>5, <1>t, <2>1, WinMoves, SMTT(30) DEF WinType, win!Abstract!StopRead
    <2>2. CASE winPc[t] = "writing"
      BY <1>5, <1>t, <2>2, WinMoves, SMTT(30) DEF WinType, win!Abstract!StopWrite
    <2>3. CASE winPc[t] \notin {"reading", "writing"}
      BY <1>5, <1>t, <2>3 DEF win!Goto, win!At, WinType
    <2>. QED
      BY <2>1, <2>2, <2>3
  <1>6. ASSUME NEW t \in Threads, win!readLock(t) \/ win!readLockWait(t)
        PROVE  [win!Abstract!Next]_<<R, W>>
    <2>1. CASE win!Goto(t, "readLock.wait")
      BY <1>5, <2>1 DEF win!Abstract!Next
    <2>2. CASE win!Goto(t, "reading") /\ winPc[t] = "idle" /\ ~(m_nActive < 0)
      BY <1>1, <1>2, <1>t, <1>3, <2>2, SMTT(30) DEF WinType, WinBooks, win!Abstract!Next
    <2>3. CASE win!Goto(t, "reading") /\ winPc[t] = "readLock.wait" /\ m_hsemReaders > 0
      BY <1>1, <1>2, <1>t, <1>3, <2>3 DEF WinType, WinBooks, win!Abstract!Next
    <2>. QED
      BY <1>6, <2>1, <2>2, <2>3 DEF win!readLock, win!readLockWait, win!Wait
  <1>7. ASSUME NEW t \in Threads, win!writeLock(t) \/ win!writeLockWait(t)
        PROVE  [win!Abstract!Next]_<<R, W>>
    <2>1. CASE win!Goto(t, "writeLock.wait")
      BY <1>5, <2>1 DEF win!Abstract!Next
    <2>2. CASE win!Goto(t, "writing") /\ winPc[t] = "idle" /\ m_nActive = 0
      BY <1>1, <1>2, <1>t, <1>4, <2>2 DEF WinType, WinBooks, win!Abstract!Next
    <2>3. CASE win!Goto(t, "writing") /\ winPc[t] = "writeLock.wait" /\ m_hsemWriters > 0
      <3>1. WinCount("reading") = 0 /\ WinCount("writing") = 0
        <4>1. /\ WinCount("writing") + m_hsemWriters + w <= 1
              /\ WinCount("writing") + m_hsemWriters + w = 1
                    => WinCount("reading") + m_hsemReaders + r = 0
          BY <1>1 DEF WinBooks
        <4>2. m_hsemReaders \in Nat /\ m_hsemWriters \in Nat
          BY <1>t DEF WinType
        <4>. QED
          BY <1>1, <1>2, <2>3, <4>1, <4>2
      <3>. QED
        BY <1>2, <1>4, <2>3, <3>1 DEF win!Abstract!Next
    <2>. QED
      BY <1>7, <2>1, <2>2, <2>3 DEF win!writeLock, win!writeLockWait, win!Wait
  <1>8. ASSUME NEW t \in Threads, win!unlock(t) \/ win!unlockRelease(t)
        PROVE  [win!Abstract!Next]_<<R, W>>
    <2>1. win!Goto(t, "idle") \/ win!Goto(t, "unlock.release")
      BY <1>8 DEF win!unlock, win!unlockRelease, win!unlockNobodyWaits, win!unlockToWriter,
                  win!unlockToReaders
    <2>. QED
      BY <1>5, <2>1 DEF win!Abstract!Next
  <1>. QED
    BY <1>6, <1>7, <1>8 DEF win!Next, win!Continue

\* A reader that finds a writer waiting waits too, and an unlock that leaves a writer
\* waiting does not add readers.
LEMMA WinWritersFirstStep ==
    ASSUME WinInv, win!Next, m_nWaitingWriters > 0, m_nWaitingWriters' > 0
    PROVE  m_nActive' <= m_nActive
  <1>1. PICK t \in Threads : win!readLock(t) \/ win!writeLock(t) \/ win!Continue(t)
    BY DEF win!Next
  <1>t. m_nActive \in Int /\ m_nWaitingWriters \in Nat /\ m_nActive # 0
    BY DEF WinInv, WinType, win!WaitersHaveOwner
  <1>2. CASE win!readLock(t) \/ win!writeLock(t)
    BY <1>2, <1>t DEF win!readLock, win!writeLock
  <1>3. CASE win!readLockWait(t) \/ win!writeLockWait(t) \/ win!unlockRelease(t)
    BY <1>3, <1>t DEF win!readLockWait, win!writeLockWait, win!unlockRelease, win!members
  <1>4. CASE win!unlock(t)
    <2>1. winPc[t] \in {"reading", "writing"}
      BY <1>4 DEF win!unlock, win!unlockNobodyWaits, win!unlockToWriter, win!unlockToReaders
    <2>2. PICK r \in Nat, w \in Nat : WinOwes(r, w) /\ WinBooks(r, w)
      BY WinBooksKept
    <2>3. /\ winPc[t] = "reading" => m_nActive > 0 /\ win!Remaining = m_nActive - 1
          /\ winPc[t] = "writing" => m_nActive = -1 /\ win!Remaining = 0
      BY <2>1, <2>2, WinLeaver
    <2>4. CASE win!unlockNobodyWaits(t)
      BY <1>t, <2>1, <2>3, <2>4 DEF win!unlockNobodyWaits
    <2>5. CASE win!unlockToWriter(t)
      BY <1>t, <2>1, <2>3, <2>5 DEF win!unlockToWriter
    <2>6. CASE win!unlockToReaders(t)
      BY <1>t, <2>6 DEF win!unlockToReaders
    <2>. QED
      BY <1>4, <2>4, <2>5, <2>6 DEF win!unlock
  <1>. QED
    BY <1>1, <1>2, <1>3, <1>4 DEF win!Continue

\* WIN32 build, for any finite set of threads: m_nActive is exact and nobody waits for a
\* resource that nobody has; every step of the calls is a legal step of a reader-writer
\* lock or leaves who is inside alone; while a writer waits no further reader is let in.
THEOREM WinCorrect == win!Spec => WinImplementsReadersWriters
  <1>1. win!Init => WinInv /\ win!Abstract!Init
    BY WinStart DEF win!Init, win!Abstract!Init, win!At
  <1>2. WinInv /\ [win!Next]_(win!vars) => WinInv'
    BY WinKeeps, WinUnchanged DEF winVars, win!vars, win!members, win!sems
  <1>3. WinInv => win!ActiveExact /\ win!WaitersHaveOwner
    BY WinExact DEF WinInv
  <1>4. WinInv /\ [win!Next]_(win!vars)
           => [win!Abstract!Next]_<<win!At("reading"), win!At("writing")>>
    BY WinAbstractStep DEF win!vars, win!At
  <1>5. WinInv /\ [win!Next]_(win!vars)
           => [m_nWaitingWriters > 0 /\ m_nWaitingWriters' > 0 => m_nActive' <= m_nActive]_(win!vars)
    BY WinWritersFirstStep
  <1>. QED
    BY <1>1, <1>2, <1>3, <1>4, <1>5, PTL
    DEF win!Spec, WinImplementsReadersWriters, win!ImplementsReadersWriters, win!Abstract!Spec, win!WritersFirst
=============================================================================
