--------------------------- MODULE SafeQueueProofs ---------------------------
(***************************************************************************)
(* Proofs about the two shared containers that count what they hold:       *)
(* SafeQueue, for any set of threads, any queue size and any assignment of *)
(* calls to threads, and the connection pool of SockPool, for any clients, *)
(* sockets and capacity.  The inductive invariant of the queue is the type *)
(* invariant with the accounting of slots and tokens; that of the pool has *)
(* the accounting of pooled and used connections while the pool is ready.  *)
(***************************************************************************)
EXTENDS SafeQueue, SockPool, FiniteSetTheorems, TLAPS

-----------------------------------------------------------------------------
\* The threads at a point are a finite set.
LEMMA AtFinite ==
    ASSUME NEW p
    PROVE  /\ IsFiniteSet(At(p))
           /\ Cardinality(At(p)) \in Nat
  <1>1. At(p) \subseteq Threads
    BY DEF At
  <1>2. IsFiniteSet(At(p))
    BY <1>1, FS_Subset, QueueAssumption
  <1>. QED
    BY <1>2, FS_CardinalityType

\* Thread t goes from point p to point q and nobody else moves.
Moved(t, p, q) ==
    /\ At(p)' = At(p) \ {t}
    /\ At(q)' = At(q) \cup {t}
    /\ t \in At(p) /\ t \notin At(q)
    /\ \A r \in Points \ {p, q} : At(r)' = At(r)
    /\ Cardinality(At(p)') = Cardinality(At(p)) - 1
    /\ Cardinality(At(q)') = Cardinality(At(q)) + 1

\* A step that moves thread t from point p to point q changes the number of
\* threads at p and q by one and leaves every other point alone.
LEMMA Moves ==
    ASSUME NEW t \in Threads, NEW p, NEW q, p # q,
           pc \in [Threads -> Points], pc[t] = p, Goto(t, q)
    PROVE  Moved(t, p, q)
  <1>1. /\ At(p)' = At(p) \ {t}
        /\ At(q)' = At(q) \cup {t}
        /\ t \in At(p) /\ t \notin At(q)
        /\ \A r \in Points \ {p, q} : At(r)' = At(r)
    BY DEF At, Goto
  <1>2. Cardinality(At(p) \ {t}) = Cardinality(At(p)) - 1
    BY <1>1, AtFinite, FS_RemoveElement, Zenon
  <1>3. Cardinality(At(q) \cup {t}) = Cardinality(At(q)) + 1
    BY <1>1, AtFinite, FS_AddElement, Zenon
  <1>. QED
    BY <1>1, <1>2, <1>3 DEF Moved

\* A thread at a point makes its count positive.
LEMMA AtPositive ==
    ASSUME NEW p, At(p) # {}
    PROVE  Cardinality(At(p)) > 0
  <1>1. Cardinality(At(p)) # 0
    BY AtFinite, FS_EmptySet
  <1>. QED
    BY <1>1, AtFinite

LEMMA AtEmpty ==
    ASSUME NEW p, At(p) = {}
    PROVE  Cardinality(At(p)) = 0
  BY FS_EmptySet

-----------------------------------------------------------------------------
LEMMA InitIInv == Init => QueueInv
  <1>. SUFFICES ASSUME Init PROVE QueueInv
    OBVIOUS
  <1>1. \A p : p # "idle" => At(p) = {}
    BY DEF Init, At
  <1>2. TypeOK
    BY <1>1, QueueAssumption DEF Init, TypeOK, Points
  <1>3. \A p : p # "idle" => Cardinality(At(p)) = 0
    BY <1>1, AtEmpty
  <1>4. Accounting
    BY <1>3, QueueAssumption
       DEF Init, Accounting, LockExclusive, SlotsConserved, TokensMatchItems
  <1>. QED
    BY <1>2, <1>4 DEF QueueInv

\* What push and pop do to the length of the queue.
LEMMA LenNat ==
    ASSUME NEW q \in Seq(Values)
    PROVE  Len(q) \in Nat
  OBVIOUS

LEMMA LenAppend ==
    ASSUME NEW q \in Seq(Values), NEW v \in Values
    PROVE  /\ Append(q, v) \in Seq(Values)
           /\ Len(Append(q, v)) = Len(q) + 1
  OBVIOUS

LEMMA LenTail ==
    ASSUME NEW q \in Seq(Values), q # <<>>
    PROVE  /\ Tail(q) \in Seq(Values)
           /\ Len(Tail(q)) = Len(q) - 1
           /\ Head(q) \in Values
  OBVIOUS

\* With the lock free, the token of a thread at pop.take stands for an item.
LEMMA TakeHasItem ==
    ASSUME QueueInv, LockFree, At("pop.take") # {}
    PROVE  m_Queue # <<>>
  <1>1. At("Clear.wait") = {}
    BY DEF QueueInv, TypeOK, LockFree
  <1>2. Cardinality(At("Clear.wait")) = 0
    BY <1>1, AtEmpty
  <1>3. Cardinality(At("pop.take")) > 0 /\ Cardinality(At("pop.take")) \in Nat
    BY AtPositive, AtFinite
  <1>4. Len(m_Queue) > 0
    BY <1>2, <1>3, LenNat DEF QueueInv, TypeOK, Accounting, TokensMatchItems
  <1>. QED
    BY <1>4

-----------------------------------------------------------------------------
\* Every step keeps the type invariant and the accounting.
LEMMA NextIInv == QueueInv /\ [Next]_vars => QueueInv'
  <1>. SUFFICES ASSUME QueueInv, [Next]_vars PROVE QueueInv'
    OBVIOUS
  <1>. USE DEF QueueInv, Return, Wait, Post, WaitTimedOut, LockFree
  <1>0. /\ Cardinality(At("Push.put")) \in Nat
        /\ Cardinality(At("BlockPush.put")) \in Nat
        /\ Cardinality(At("pop.take")) \in Nat
        /\ Cardinality(At("Clear.wait")) \in Nat
        /\ Len(m_Queue) \in Nat
        /\ m_EmptySemaphore \in Nat /\ m_FullSemaphore \in Nat
    BY AtFinite, LenNat DEF TypeOK
  <1>u. CASE UNCHANGED vars
    BY <1>u DEF vars, TypeOK, Accounting, LockExclusive, SlotsConserved, TokensMatchItems, At
  <1>1. ASSUME NEW t \in Threads, PushRefuse(t) PROVE QueueInv'
    <2>1. \A p : At(p)' = At(p)
      BY <1>1 DEF PushRefuse, At, TypeOK, Goto
    <2>2. TypeOK'
      BY <1>1, <2>1 DEF PushRefuse, Moved, Goto, TypeOK, Points
    <2>3. /\ Cardinality(At("Push.put")') = Cardinality(At("Push.put"))
          /\ Cardinality(At("BlockPush.put")') = Cardinality(At("BlockPush.put"))
          /\ Cardinality(At("pop.take")') = Cardinality(At("pop.take"))
          /\ Cardinality(At("Clear.wait")') = Cardinality(At("Clear.wait"))
      BY <2>1 DEF Moved, Points
    <2>4. LockExclusive'
      BY <1>1 DEF PushRefuse, Accounting, LockExclusive
    <2>5. SlotsConserved'
      BY SMTT(30), <1>0, <1>1, <2>3
         DEF PushRefuse, Accounting, SlotsConserved
    <2>6. TokensMatchItems'
      BY SMTT(30), <1>0, <1>1, <2>3
         DEF PushRefuse, Accounting, TokensMatchItems
    <2>. QED
      BY <2>2, <2>4, <2>5, <2>6 DEF Accounting
  <1>2. ASSUME NEW t \in Threads, PushEnter(t) PROVE QueueInv'
    <2>1. Moved(t, "idle", "Push.wait")
      BY <1>2, Moves DEF PushEnter, TypeOK
    <2>2. TypeOK'
      BY <1>2, <2>1 DEF PushEnter, Moved, Goto, TypeOK, Points
    <2>3. /\ Cardinality(At("Push.put")') = Cardinality(At("Push.put"))
          /\ Cardinality(At("BlockPush.put")') = Cardinality(At("BlockPush.put"))
          /\ Cardinality(At("pop.take")') = Cardinality(At("pop.take"))
          /\ Cardinality(At("Clear.wait")') = Cardinality(At("Clear.wait"))
      BY <2>1 DEF Moved, Points
    <2>4. LockExclusive'
      BY <1>2 DEF PushEnter, Accounting, LockExclusive
    <2>5. SlotsConserved'
      BY SMTT(30), <1>0, <1>2, <2>3
         DEF PushEnter, Accounting, SlotsConserved
    <2>6. TokensMatchItems'
      BY SMTT(30), <1>0, <1>2, <2>3
         DEF PushEnter, Accounting, TokensMatchItems
    <2>. QED
      BY <2>2, <2>4, <2>5, <2>6 DEF Accounting
  <1>3. ASSUME NEW t \in Threads, PushWait(t) PROVE QueueInv'
    <2>1. Moved(t, "Push.wait", "Push.put")
      BY <1>3, Moves DEF PushWait, TypeOK
    <2>2. TypeOK'
      BY <1>3, <2>1 DEF PushWait, Moved, Goto, TypeOK, Points
    <2>3. /\ Cardinality(At("Push.put")') = Cardinality(At("Push.put")) + 1
          /\ Cardinality(At("BlockPush.put")') = Cardinality(At("BlockPush.put"))
          /\ Cardinality(At("pop.take")') = Cardinality(At("pop.take"))
          /\ Cardinality(At("Clear.wait")') = Cardinality(At("Clear.wait"))
      BY <2>1 DEF Moved, Points
    <2>4. LockExclusive'
      BY <1>3 DEF PushWait, Accounting, LockExclusive
    <2>5. SlotsConserved'
      BY SMTT(30), <1>0, <1>3, <2>3
         DEF PushWait, Accounting, SlotsConserved
    <2>6. TokensMatchItems'
      BY SMTT(30), <1>0, <1>3, <2>3
         DEF PushWait, Accounting, TokensMatchItems
    <2>. QED
      BY <2>2, <2>4, <2>5, <2>6 DEF Accounting
  <1>4. ASSUME NEW t \in Threads, PushPut(t) PROVE QueueInv'
    <2>1. Moved(t, "Push.put", "idle")
      BY <1>4, Moves DEF PushPut, TypeOK
    <2>2. m_Queue' \in Seq(Values) /\ Len(m_Queue') = Len(m_Queue) + 1
      BY <1>4, LenAppend DEF PushPut, TypeOK
    <2>3. Len(m_Queue') = Len(m_Queue) + 1
      BY <2>2
    <2>4. holder = {t}
      BY <2>1 DEF Moved, TypeOK, Accounting, LockExclusive
    <2>5. \A p \in {"Push.wait", "Push.put", "Clear.wait"} : At(p)' = {}
      BY <2>1, <2>4, <1>4 DEF PushPut, Moved, TypeOK, At, Goto
    <2>6. TypeOK'
      BY <1>4, <2>1, <2>2, <2>5 DEF PushPut, Moved, Goto, TypeOK, Points
    <2>7. /\ Cardinality(At("Push.put")') = Cardinality(At("Push.put")) - 1
          /\ Cardinality(At("BlockPush.put")') = Cardinality(At("BlockPush.put"))
          /\ Cardinality(At("pop.take")') = Cardinality(At("pop.take"))
          /\ Cardinality(At("Clear.wait")') = Cardinality(At("Clear.wait"))
      BY <2>1 DEF Moved, Points
    <2>8. /\ m_EmptySemaphore' = m_EmptySemaphore
          /\ m_FullSemaphore' = m_FullSemaphore + 1
      BY <1>4 DEF PushPut
    <2>9. LockExclusive'
      BY <1>4 DEF PushPut, Accounting, LockExclusive
    <2>10. SlotsConserved'
      BY SMTT(30), <1>0, <2>8, <2>7, <2>3
         DEF Accounting, SlotsConserved
    <2>11. TokensMatchItems'
      BY SMTT(30), <1>0, <2>8, <2>7, <2>3
         DEF Accounting, TokensMatchItems
    <2>. QED
      BY <2>6, <2>9, <2>10, <2>11 DEF Accounting
  <1>5. ASSUME NEW t \in Threads, BlockPushCall(t) PROVE QueueInv'
    <2>1. Moved(t, "idle", "BlockPush.wait")
      BY <1>5, Moves DEF BlockPushCall, TypeOK
    <2>2. TypeOK'
      BY <1>5, <2>1 DEF BlockPushCall, Moved, Goto, TypeOK, Points
    <2>3. /\ Cardinality(At("Push.put")') = Cardinality(At("Push.put"))
          /\ Cardinality(At("BlockPush.put")') = Cardinality(At("BlockPush.put"))
          /\ Cardinality(At("pop.take")') = Cardinality(At("pop.take"))
          /\ Cardinality(At("Clear.wait")') = Cardinality(At("Clear.wait"))
      BY <2>1 DEF Moved, Points
    <2>4. LockExclusive'
      BY <1>5 DEF BlockPushCall, Accounting, LockExclusive
    <2>5. SlotsConserved'
      BY SMTT(30), <1>0, <1>5, <2>3
         DEF BlockPushCall, Accounting, SlotsConserved
    <2>6. TokensMatchItems'
      BY SMTT(30), <1>0, <1>5, <2>3
         DEF BlockPushCall, Accounting, TokensMatchItems
    <2>. QED
      BY <2>2, <2>4, <2>5, <2>6 DEF Accounting
  <1>6. ASSUME NEW t \in Threads, BlockPushWait(t) PROVE QueueInv'
    <2>1. Moved(t, "BlockPush.wait", "BlockPush.put")
      BY <1>6, Moves DEF BlockPushWait, TypeOK
    <2>2. TypeOK'
      BY <1>6, <2>1 DEF BlockPushWait, Moved, Goto, TypeOK, Points
    <2>3. /\ Cardinality(At("Push.put")') = Cardinality(At("Push.put"))
          /\ Cardinality(At("BlockPush.put")') = Cardinality(At("BlockPush.put")) + 1
          /\ Cardinality(At("pop.take")') = Cardinality(At("pop.take"))
          /\ Cardinality(At("Clear.wait")') = Cardinality(At("Clear.wait"))
      BY <2>1 DEF Moved, Points
    <2>4. LockExclusive'
      BY <1>6 DEF BlockPushWait, Accounting, LockExclusive
    <2>5. SlotsConserved'
      BY SMTT(30), <1>0, <1>6, <2>3
         DEF BlockPushWait, Accounting, SlotsConserved
    <2>6. TokensMatchItems'
      BY SMTT(30), <1>0, <1>6, <2>3
         DEF BlockPushWait, Accounting, TokensMatchItems
    <2>. QED
      BY <2>2, <2>4, <2>5, <2>6 DEF Accounting
  <1>7. ASSUME NEW t \in Threads, BlockPushPut(t) PROVE QueueInv'
    <2>1. Moved(t, "BlockPush.put", "idle")
      BY <1>7, Moves DEF BlockPushPut, TypeOK
    <2>2. m_Queue' \in Seq(Values) /\ Len(m_Queue') = Len(m_Queue) + 1
      BY <1>7, LenAppend DEF BlockPushPut, TypeOK
    <2>3. Len(m_Queue') = Len(m_Queue) + 1
      BY <2>2
    <2>4. TypeOK'
      BY <1>7, <2>1, <2>2 DEF BlockPushPut, Moved, Goto, TypeOK, Points
    <2>5. /\ Cardinality(At("Push.put")') = Cardinality(At("Push.put"))
          /\ Cardinality(At("BlockPush.put")') = Cardinality(At("BlockPush.put")) - 1
          /\ Cardinality(At("pop.take")') = Cardinality(At("pop.take"))
          /\ Cardinality(At("Clear.wait")') = Cardinality(At("Clear.wait"))
      BY <2>1 DEF Moved, Points
    <2>6. /\ m_EmptySemaphore' = m_EmptySemaphore
          /\ m_FullSemaphore' = m_FullSemaphore + 1
      BY <1>7 DEF BlockPushPut
    <2>7. LockExclusive'
      BY <1>7 DEF BlockPushPut, Accounting, LockExclusive
    <2>8. SlotsConserved'
      BY SMTT(30), <1>0, <2>6, <2>5, <2>3
         DEF Accounting, SlotsConserved
    <2>9. TokensMatchItems'
      BY SMTT(30), <1>0, <2>6, <2>5, <2>3
         DEF Accounting, TokensMatchItems
    <2>. QED
      BY <2>4, <2>7, <2>8, <2>9 DEF Accounting
  <1>8. ASSUME NEW t \in Threads, PopCall(t) PROVE QueueInv'
    <2>1. CASE Goto(t, "Pop.wait")
      <3>1. Moved(t, "idle", "Pop.wait")
        BY <2>1, <1>8, Moves DEF PopCall, TypeOK
      <3>2. TypeOK'
        BY <2>1, <1>8, <3>1 DEF PopCall, Moved, Goto, TypeOK, Points
      <3>3. /\ Cardinality(At("Push.put")') = Cardinality(At("Push.put"))
            /\ Cardinality(At("BlockPush.put")') = Cardinality(At("BlockPush.put"))
            /\ Cardinality(At("pop.take")') = Cardinality(At("pop.take"))
            /\ Cardinality(At("Clear.wait")') = Cardinality(At("Clear.wait"))
        BY <3>1 DEF Moved, Points
      <3>4. LockExclusive'
        BY <2>1, <1>8 DEF PopCall, Accounting, LockExclusive
      <3>5. SlotsConserved'
        BY <2>1, <1>0, <1>8, <3>3
           DEF PopCall, Accounting, SlotsConserved
      <3>6. TokensMatchItems'
        BY <2>1, <1>0, <1>8, <3>3
           DEF PopCall, Accounting, TokensMatchItems
      <3>. QED
        BY <3>2, <3>4, <3>5, <3>6 DEF Accounting
    <2>2. CASE Goto(t, "BlockPop.wait")
      <3>1. Moved(t, "idle", "BlockPop.wait")
        BY <2>2, <1>8, Moves DEF PopCall, TypeOK
      <3>2. TypeOK'
        BY <2>2, <1>8, <3>1 DEF PopCall, Moved, Goto, TypeOK, Points
      <3>3. /\ Cardinality(At("Push.put")') = Cardinality(At("Push.put"))
            /\ Cardinality(At("BlockPush.put")') = Cardinality(At("BlockPush.put"))
            /\ Cardinality(At("pop.take")') = Cardinality(At("pop.take"))
            /\ Cardinality(At("Clear.wait")') = Cardinality(At("Clear.wait"))
        BY <3>1 DEF Moved, Points
      <3>4. LockExclusive'
        BY <2>2, <1>8 DEF PopCall, Accounting, LockExclusive
      <3>5. SlotsConserved'
        BY <2>2, <1>0, <1>8, <3>3
           DEF PopCall, Accounting, SlotsConserved
      <3>6. TokensMatchItems'
        BY <2>2, <1>0, <1>8, <3>3
           DEF PopCall, Accounting, TokensMatchItems
      <3>. QED
        BY <3>2, <3>4, <3>5, <3>6 DEF Accounting
    <2>. QED
      BY <1>8, <2>1, <2>2 DEF PopCall
  <1>9. ASSUME NEW t \in Threads, PopWait(t) PROVE QueueInv'
    <2>1. CASE pc[t] = "Pop.wait"
      <3>1. Moved(t, "Pop.wait", "pop.take")
        BY <2>1, <1>9, Moves DEF PopWait, TypeOK
      <3>2. TypeOK'
        BY <2>1, <1>9, <3>1 DEF PopWait, Moved, Goto, TypeOK, Points
      <3>3. /\ Cardinality(At("Push.put")') = Cardinality(At("Push.put"))
            /\ Cardinality(At("BlockPush.put")') = Cardinality(At("BlockPush.put"))
            /\ Cardinality(At("pop.take")') = Cardinality(At("pop.take")) + 1
            /\ Cardinality(At("Clear.wait")') = Cardinality(At("Clear.wait"))
        BY <3>1 DEF Moved, Points
      <3>4. LockExclusive'
        BY <2>1, <1>9 DEF PopWait, Accounting, LockExclusive
      <3>5. SlotsConserved'
        BY <2>1, <1>0, <1>9, <3>3
           DEF PopWait, Accounting, SlotsConserved
      <3>6. TokensMatchItems'
        BY <2>1, <1>0, <1>9, <3>3
           DEF PopWait, Accounting, TokensMatchItems
      <3>. QED
        BY <3>2, <3>4, <3>5, <3>6 DEF Accounting
    <2>2. CASE pc[t] = "BlockPop.wait"
      <3>1. Moved(t, "BlockPop.wait", "pop.take")
        BY <2>2, <1>9, Moves DEF PopWait, TypeOK
      <3>2. TypeOK'
        BY <2>2, <1>9, <3>1 DEF PopWait, Moved, Goto, TypeOK, Points
      <3>3. /\ Cardinality(At("Push.put")') = Cardinality(At("Push.put"))
            /\ Cardinality(At("BlockPush.put")') = Cardinality(At("BlockPush.put"))
            /\ Cardinality(At("pop.take")') = Cardinality(At("pop.take")) + 1
            /\ Cardinality(At("Clear.wait")') = Cardinality(At("Clear.wait"))
        BY <3>1 DEF Moved, Points
      <3>4. LockExclusive'
        BY <2>2, <1>9 DEF PopWait, Accounting, LockExclusive
      <3>5. SlotsConserved'
        BY <2>2, <1>0, <1>9, <3>3
           DEF PopWait, Accounting, SlotsConserved
      <3>6. TokensMatchItems'
        BY <2>2, <1>0, <1>9, <3>3
           DEF PopWait, Accounting, TokensMatchItems
      <3>. QED
        BY <3>2, <3>4, <3>5, <3>6 DEF Accounting
    <2>. QED
      BY <1>9, <2>1, <2>2 DEF PopWait
  <1>10. ASSUME NEW t \in Threads, PopTimeout(t) PROVE QueueInv'
    <2>1. Moved(t, "Pop.wait", "idle")
      BY <1>10, Moves DEF PopTimeout, TypeOK
    <2>2. TypeOK'
      BY <1>10, <2>1 DEF PopTimeout, Moved, Goto, TypeOK, Points
    <2>3. /\ Cardinality(At("Push.put")') = Cardinality(At("Push.put"))
          /\ Cardinality(At("BlockPush.put")') = Cardinality(At("BlockPush.put"))
          /\ Cardinality(At("pop.take")') = Cardinality(At("pop.take"))
          /\ Cardinality(At("Clear.wait")') = Cardinality(At("Clear.wait"))
      BY <2>1 DEF Moved, Points
    <2>4. LockExclusive'
      BY <1>10 DEF PopTimeout, Accounting, LockExclusive
    <2>5. SlotsConserved'
      BY SMTT(30), <1>0, <1>10, <2>3
         DEF PopTimeout, Accounting, SlotsConserved
    <2>6. TokensMatchItems'
      BY SMTT(30), <1>0, <1>10, <2>3
         DEF PopTimeout, Accounting, TokensMatchItems
    <2>. QED
      BY <2>2, <2>4, <2>5, <2>6 DEF Accounting
  <1>11. ASSUME NEW t \in Threads, PopTake(t) PROVE QueueInv'
    <2>1. Moved(t, "pop.take", "idle")
      BY <1>11, Moves DEF PopTake, TypeOK
    <2>2. m_Queue # <<>>
      BY <1>0, <1>11, <2>1, TakeHasItem DEF PopTake, Moved
    <2>3. m_Queue' \in Seq(Values) /\ Len(m_Queue') = Len(m_Queue) - 1
      BY <2>2, <1>11, LenTail, Zenon DEF PopTake, TypeOK
    <2>4. Len(m_Queue') = Len(m_Queue) - 1
      BY <2>3
    <2>5. TypeOK'
      <3>1. Head(m_Queue) \in Values
        BY <2>2 DEF TypeOK
      <3>2. /\ pc' = [pc EXCEPT ![t] = "idle"]
            /\ result' = [result EXCEPT ![t] = Head(m_Queue)]
            /\ holder' = holder
            /\ m_EmptySemaphore' = m_EmptySemaphore + 1
            /\ m_FullSemaphore' = m_FullSemaphore
        BY <1>11, <2>2 DEF PopTake, Goto
      <3>3. result' \in [Threads -> Values \cup {"true", "false"}]
        BY <3>1, <3>2 DEF TypeOK
      <3>4. pc' \in [Threads -> Points]
        BY <3>2 DEF TypeOK, Points
      <3>5. holder' = At("Push.wait")' \cup At("Push.put")' \cup At("Clear.wait")'
        BY <2>1, <3>2 DEF TypeOK, Moved, Points
      <3>. QED
        BY <2>3, <3>2, <3>3, <3>4, <3>5 DEF TypeOK
    <2>6. /\ Cardinality(At("Push.put")') = Cardinality(At("Push.put"))
          /\ Cardinality(At("BlockPush.put")') = Cardinality(At("BlockPush.put"))
          /\ Cardinality(At("pop.take")') = Cardinality(At("pop.take")) - 1
          /\ Cardinality(At("Clear.wait")') = Cardinality(At("Clear.wait"))
      BY <2>1 DEF Moved, Points
    <2>7. /\ m_EmptySemaphore' = m_EmptySemaphore + 1
          /\ m_FullSemaphore' = m_FullSemaphore
      BY <1>11 DEF PopTake
    <2>8. LockExclusive'
      BY <1>11 DEF PopTake, Accounting, LockExclusive
    <2>9. SlotsConserved'
      BY SMTT(30), <1>0, <2>7, <2>6, <2>4
         DEF Accounting, SlotsConserved
    <2>10. TokensMatchItems'
      BY SMTT(30), <1>0, <2>7, <2>6, <2>4
         DEF Accounting, TokensMatchItems
    <2>. QED
      BY <2>5, <2>8, <2>9, <2>10 DEF Accounting
  <1>12. ASSUME NEW t \in Threads, ClearEmpty(t) PROVE QueueInv'
    <2>1. \A p : At(p)' = At(p)
      BY <1>12 DEF ClearEmpty, At, TypeOK, Goto
    <2>2. TypeOK'
      BY <1>12, <2>1 DEF ClearEmpty, Moved, Goto, TypeOK, Points
    <2>3. /\ Cardinality(At("Push.put")') = Cardinality(At("Push.put"))
          /\ Cardinality(At("BlockPush.put")') = Cardinality(At("BlockPush.put"))
          /\ Cardinality(At("pop.take")') = Cardinality(At("pop.take"))
          /\ Cardinality(At("Clear.wait")') = Cardinality(At("Clear.wait"))
      BY <2>1 DEF Moved, Points
    <2>4. LockExclusive'
      BY <1>12 DEF ClearEmpty, Accounting, LockExclusive
    <2>5. SlotsConserved'
      BY SMTT(30), <1>0, <1>12, <2>3
         DEF ClearEmpty, Accounting, SlotsConserved
    <2>6. TokensMatchItems'
      BY SMTT(30), <1>0, <1>12, <2>3
         DEF ClearEmpty, Accounting, TokensMatchItems
    <2>. QED
      BY <2>2, <2>4, <2>5, <2>6 DEF Accounting
  <1>13. ASSUME NEW t \in Threads, ClearDrop(t) PROVE QueueInv'
    <2>1. Moved(t, "idle", "Clear.wait")
      BY <1>13, Moves DEF ClearDrop, TypeOK
    <2>2. m_Queue' \in Seq(Values) /\ Len(m_Queue') = Len(m_Queue) - 1
      BY <1>13, LenTail DEF ClearDrop, TypeOK
    <2>3. Len(m_Queue') = Len(m_Queue) - 1
      BY <2>2
    <2>4. TypeOK'
      BY <1>13, <2>1, <2>2 DEF ClearDrop, Moved, Goto, TypeOK, Points
    <2>5. /\ Cardinality(At("Push.put")') = Cardinality(At("Push.put"))
          /\ Cardinality(At("BlockPush.put")') = Cardinality(At("BlockPush.put"))
          /\ Cardinality(At("pop.take")') = Cardinality(At("pop.take"))
          /\ Cardinality(At("Clear.wait")') = Cardinality(At("Clear.wait")) + 1
      BY <2>1 DEF Moved, Points
    <2>6. /\ m_EmptySemaphore' = m_EmptySemaphore
          /\ m_FullSemaphore' = m_FullSemaphore
      BY <1>13 DEF ClearDrop
    <2>7. LockExclusive'
      BY <1>13 DEF ClearDrop, Accounting, LockExclusive
    <2>8. SlotsConserved'
      BY SMTT(30), <1>0, <2>6, <2>5, <2>3
         DEF Accounting, SlotsConserved
    <2>9. TokensMatchItems'
      BY SMTT(30), <1>0, <2>6, <2>5, <2>3
         DEF Accounting, TokensMatchItems
    <2>. QED
      BY <2>4, <2>7, <2>8, <2>9 DEF Accounting
  <1>14. ASSUME NEW t \in Threads, ClearWait(t) PROVE QueueInv'
    <2>1. CASE m_Queue # <<>>
      <3>1. \A p : At(p)' = At(p)
        BY <2>1, <1>14 DEF ClearWait, At, TypeOK, Goto
      <3>2. m_Queue' \in Seq(Values) /\ Len(m_Queue') = Len(m_Queue) - 1
        BY <2>1, <1>14, LenTail, Zenon DEF ClearWait, TypeOK
      <3>3. Len(m_Queue') = Len(m_Queue) - 1
        BY <3>2
      <3>4. TypeOK'
        BY <2>1, <1>14, <3>1, <3>2 DEF ClearWait, Moved, Goto, TypeOK, Points
      <3>5. /\ Cardinality(At("Push.put")') = Cardinality(At("Push.put"))
            /\ Cardinality(At("BlockPush.put")') = Cardinality(At("BlockPush.put"))
            /\ Cardinality(At("pop.take")') = Cardinality(At("pop.take"))
            /\ Cardinality(At("Clear.wait")') = Cardinality(At("Clear.wait"))
        BY <3>1 DEF Moved, Points
      <3>6. /\ m_EmptySemaphore' = m_EmptySemaphore + 1
            /\ m_FullSemaphore' = m_FullSemaphore - 1
        BY <2>1, <1>14 DEF ClearWait
      <3>7. LockExclusive'
        BY <2>1, <1>14 DEF ClearWait, Accounting, LockExclusive
      <3>8. SlotsConserved'
        BY SMTT(30), <1>0, <3>6, <3>5, <3>3
           DEF Accounting, SlotsConserved
      <3>9. TokensMatchItems'
        BY SMTT(30), <1>0, <3>6, <3>5, <3>3
           DEF Accounting, TokensMatchItems
      <3>. QED
        BY <3>4, <3>7, <3>8, <3>9 DEF Accounting
    <2>2. CASE m_Queue = <<>>
      <3>1. Moved(t, "Clear.wait", "idle")
        BY <2>2, <1>14, Moves DEF ClearWait, TypeOK
      <3>2. holder = {t}
        BY <3>1 DEF Moved, TypeOK, Accounting, LockExclusive
      <3>3. \A p \in {"Push.wait", "Push.put", "Clear.wait"} : At(p)' = {}
        BY <3>1, <3>2, <1>14 DEF ClearWait, Moved, TypeOK, At, Goto
      <3>4. TypeOK'
        BY <2>2, <1>14, <3>1, <3>3 DEF ClearWait, Moved, Goto, TypeOK, Points
      <3>5. /\ Cardinality(At("Push.put")') = Cardinality(At("Push.put"))
            /\ Cardinality(At("BlockPush.put")') = Cardinality(At("BlockPush.put"))
            /\ Cardinality(At("pop.take")') = Cardinality(At("pop.take"))
            /\ Cardinality(At("Clear.wait")') = Cardinality(At("Clear.wait")) - 1
        BY <3>1 DEF Moved, Points
      <3>6. LockExclusive'
        BY <2>2, <1>14 DEF ClearWait, Accounting, LockExclusive
      <3>7. SlotsConserved'
        BY <2>2, <1>0, <1>14, <3>5
           DEF ClearWait, Accounting, SlotsConserved
      <3>8. TokensMatchItems'
        BY <2>2, <1>0, <1>14, <3>5
           DEF ClearWait, Accounting, TokensMatchItems
      <3>. QED
        BY <3>4, <3>6, <3>7, <3>8 DEF Accounting
    <2>. QED
      BY <2>1, <2>2
  <1>. QED
    BY <1>u, <1>1, <1>2, <1>3, <1>4, <1>5, <1>6, <1>7, <1>8, <1>9, <1>10, <1>11, <1>12, <1>13, <1>14 DEF Next, Call, Continue
-----------------------------------------------------------------------------
\* A thread that has claimed a slot finds room.
LEMMA RoomForClaim ==
    ASSUME QueueInv, At("Push.put") # {} \/ At("BlockPush.put") # {}
    PROVE  Len(m_Queue) < QueueSize
  <1>1. /\ Cardinality(At("Push.put")) \in Nat
        /\ Cardinality(At("BlockPush.put")) \in Nat
        /\ Cardinality(At("Clear.wait")) \in Nat
        /\ Len(m_Queue) \in Nat /\ m_EmptySemaphore \in Nat
    BY AtFinite, LenNat DEF QueueInv, TypeOK
  <1>2. Cardinality(At("Push.put")) > 0 \/ Cardinality(At("BlockPush.put")) > 0
    BY AtPositive
  <1>. QED
    BY <1>1, <1>2, QueueAssumption DEF QueueInv, Accounting, SlotsConserved

\* The semaphores of SafeQueue account for every slot and every item, with any threads,
\* any calls and any queue size.
THEOREM Invariance == Spec => []QueueInv
  BY InitIInv, NextIInv, PTL DEF Spec

\* A Push that passed its test of the queue's length is right about it until it
\* has put its item: it holds m_Lock all the while.
PushSawRoom == \A t \in At("Push.wait") : Len(m_Queue) < QueueSize

LEMMA InitRoom == Init => PushSawRoom
  BY DEF Init, At, PushSawRoom

LEMMA NextRoom == QueueInv /\ PushSawRoom /\ [Next]_vars => PushSawRoom'
  <1>. SUFFICES ASSUME QueueInv, PushSawRoom, [Next]_vars,
                       NEW u \in Threads, pc'[u] = "Push.wait"
                PROVE  (Len(m_Queue) < QueueSize)'
    BY DEF PushSawRoom, At
  <1>. USE DEF Return, Goto, LockFree
  <1>1. CASE UNCHANGED vars
    BY <1>1 DEF vars, PushSawRoom, At
  <1>2. ASSUME NEW t \in Threads, PushEnter(t)
        PROVE  (Len(m_Queue) < QueueSize)'
    BY <1>2 DEF PushEnter
  <1>3. ASSUME NEW t \in Threads,
               \/ PushRefuse(t) \/ PushWait(t) \/ BlockPushCall(t)
               \/ BlockPushWait(t) \/ PopCall(t) \/ PopWait(t)
               \/ PopTimeout(t) \/ ClearEmpty(t)
        PROVE  (Len(m_Queue) < QueueSize)'
    <2>1. m_Queue' = m_Queue
      BY <1>3 DEF PushRefuse, PushWait, BlockPushCall, BlockPushWait, PopCall,
                  PopWait, PopTimeout, ClearEmpty
    <2>2. pc[u] = "Push.wait"
      BY <1>3 DEF PushRefuse, PushWait, BlockPushCall, BlockPushWait, PopCall,
                  PopWait, PopTimeout, ClearEmpty, QueueInv, TypeOK
    <2>. QED
      BY <2>1, <2>2 DEF PushSawRoom, At
  <1>4. ASSUME NEW t \in Threads, BlockPushPut(t) \/ PopTake(t) \/ ClearDrop(t)
        PROVE  FALSE
    <2>1. pc[u] = "Push.wait"
      BY <1>4 DEF BlockPushPut, PopTake, ClearDrop, QueueInv, TypeOK
    <2>2. u \in holder
      BY <2>1 DEF QueueInv, TypeOK, At
    <2>. QED
      BY <1>4, <2>2 DEF BlockPushPut, PopTake, ClearDrop
  <1>5. ASSUME NEW t \in Threads, PushPut(t) \/ ClearWait(t)
        PROVE  FALSE
    <2>1. pc[u] = "Push.wait" /\ pc[t] \in {"Push.put", "Clear.wait"}
      BY <1>5 DEF PushPut, ClearWait, QueueInv, TypeOK
    <2>2. u \in holder /\ t \in holder
      BY <2>1 DEF QueueInv, TypeOK, At
    <2>. QED
      BY <2>1, <2>2 DEF QueueInv, Accounting, LockExclusive
  <1>. QED
    BY <1>1, <1>2, <1>3, <1>4, <1>5 DEF Next, Call, Continue

LEMMA RoomInvariance == Spec => []PushSawRoom
  BY InitRoom, NextRoom, Invariance, PTL DEF Spec

\* BlockPop and Pop never call front() on an empty queue.
THEOREM TakeSafe == Spec => []TakeFindsItem
  <1>1. QueueInv => TakeFindsItem
    BY TakeHasItem DEF TakeFindsItem
  <1>. QED
    BY <1>1, Invariance, PTL

\* A thread that waits inside Push or Clear with m_Lock held is stuck only if a
\* thread that already claimed the slot, or the item, waits for m_Lock.
THEOREM WedgeCause == Spec => []WedgeNeedsClaimant
  <1>1. ASSUME QueueInv, PushSawRoom, At("Push.wait") # {}, m_EmptySemaphore = 0
        PROVE  At("BlockPush.put") # {}
    <2>1. PICK t \in At("Push.wait") : TRUE
      BY <1>1
    <2>2. t \in Threads /\ pc[t] = "Push.wait"
      BY DEF At
    <2>3. holder = {t}
      BY <1>1, <2>1 DEF QueueInv, TypeOK, Accounting, LockExclusive
    <2>4. At("Push.put") = {} /\ At("Clear.wait") = {}
      BY <1>1, <2>2, <2>3 DEF QueueInv, TypeOK, At
    <2>5. Len(m_Queue) < QueueSize
      BY <1>1, <2>1 DEF PushSawRoom
    <2>. QED
      <3>1. Cardinality(At("Push.put")) = 0 /\ Cardinality(At("Clear.wait")) = 0
        BY <2>4, AtEmpty
      <3>2. /\ Cardinality(At("BlockPush.put")) \in Nat
            /\ Len(m_Queue) \in Nat
        BY <1>1, AtFinite, LenNat DEF QueueInv, TypeOK
      <3>3. Cardinality(At("BlockPush.put")) # 0
        BY <1>1, <2>5, <3>1, <3>2, QueueAssumption
           DEF QueueInv, Accounting, SlotsConserved
      <3>. QED
        BY <3>3, AtEmpty
  <1>2. ASSUME QueueInv, At("Clear.wait") # {}, m_FullSemaphore = 0
        PROVE  At("pop.take") # {}
    <2>1. Cardinality(At("Clear.wait")) > 0
      BY <1>2, AtPositive
    <2>2. Cardinality(At("pop.take")) > 0
      BY <1>2, <2>1, AtFinite, LenNat DEF QueueInv, TypeOK, Accounting, TokensMatchItems
    <2>. QED
      BY <2>2, AtEmpty
  <1>3. QueueInv /\ PushSawRoom => WedgeNeedsClaimant
    BY <1>1, <1>2 DEF WedgeNeedsClaimant
  <1>. QED
    BY <1>3, Invariance, RoomInvariance, PTL

-----------------------------------------------------------------------------
\* SafeQueue implements the bounded FIFO of BoundedQueue.
THEOREM QueueRefinement == Spec => ImplementsBoundedQueue
  <1>1. Init => Abstract!Init
    BY DEF Init, Abstract!Init
  <1>2. ASSUME QueueInv, QueueInv', [Next]_vars
        PROVE  [Abstract!Next]_<<m_Queue, result>>
    <2>. USE <1>2 DEF Return, LockFree
    <2>1. CASE UNCHANGED vars
      BY <2>1 DEF vars
    <2>2. ASSUME NEW t \in Threads,
                 \/ PushEnter(t) \/ PushWait(t) \/ BlockPushCall(t)
                 \/ BlockPushWait(t) \/ PopCall(t) \/ PopWait(t)
          PROVE  UNCHANGED <<m_Queue, result>>
      BY <2>2 DEF PushEnter, PushWait, BlockPushCall, BlockPushWait, PopCall, PopWait
    <2>3. ASSUME NEW t \in Threads, PushRefuse(t) \/ PopTimeout(t)
          PROVE  Abstract!Fail(t)
      BY <2>3 DEF PushRefuse, PopTimeout, Abstract!Fail
    <2>4. ASSUME NEW t \in Threads, PushPut(t) \/ BlockPushPut(t)
          PROVE  Abstract!Put(t)
      <3>1. Len(m_Queue) < QueueSize
        <4>1. At("Push.put") # {} \/ At("BlockPush.put") # {}
          BY <2>4 DEF PushPut, BlockPushPut, At
        <4>. QED
          BY <4>1, RoomForClaim
      <3>. QED
        BY <2>4, <3>1 DEF PushPut, BlockPushPut, Abstract!Put
    <2>5. ASSUME NEW t \in Threads, PopTake(t)
          PROVE  Abstract!Take(t)
      <3>1. m_Queue # <<>>
        BY <2>5, TakeHasItem DEF PopTake, At
      <3>. QED
        BY <2>5, <3>1 DEF PopTake, Abstract!Take
    <2>6. ASSUME NEW t \in Threads, ClearEmpty(t)
          PROVE  Abstract!Cleared(t)
      BY <2>6 DEF ClearEmpty, Abstract!Cleared
    <2>7. ASSUME NEW t \in Threads, ClearDrop(t)
          PROVE  Abstract!Drop
      BY <2>7 DEF ClearDrop, Abstract!Drop
    <2>8. ASSUME NEW t \in Threads, ClearWait(t)
          PROVE  Abstract!Drop \/ Abstract!Cleared(t)
      BY <2>8 DEF ClearWait, Abstract!Drop, Abstract!Cleared
    <2>. QED
      BY <2>1, <2>2, <2>3, <2>4, <2>5, <2>6, <2>7, <2>8
         DEF Next, Call, Continue, Abstract!Next
  <1>. QED
    BY <1>1, <1>2, Invariance, PTL DEF Spec, ImplementsBoundedQueue, Abstract!Spec

-----------------------------------------------------------------------------
(* PoolSound is inductive only with what follows: the branch of putConnet  *)
(* for a pool that looks terminated would write past the arrays.           *)

MaybeSocket == Sockets \cup {NoSocket}

PoolType ==
    /\ fdArray \in [Slots -> MaybeSocket]
    /\ valid \in Nat /\ valid <= bounds
    /\ sockets \subseteq Sockets
    /\ held \in [Clients -> MaybeSocket] /\ last \in [Clients -> MaybeSocket]

\* Nobody has got a connection from a pool that is not there or that looks terminated.
Unused ==
    handle = "none" \/ (handle = "ready" /\ terminated = 1) =>
        \A c \in Clients : held[c] = NoSocket /\ last[c] = NoSocket

\* No connection is in two valid slots.
Distinct == \A i, j \in 0 .. valid - 1 : fdArray[i] = fdArray[j] => i = j
HeldOnce == \A c, d \in Clients : c # d /\ held[c] # NoSocket => held[c] # held[d]

Sizes ==
    /\ IsFiniteSet(Pooled) /\ Cardinality(Pooled) = valid
    /\ IsFiniteSet(InUse) /\ valid + Cardinality(InUse) <= bounds

Ready ==
    /\ Distinct /\ HeldOnce /\ Sizes
    /\ Pooled \cap InUse = {}
    /\ Pooled \cup InUse \subseteq sockets

PoolInv == PoolType /\ Unused /\ (handle = "ready" => Ready)

LEMMA KeepPooled ==
    ASSUME PoolType, Distinct, valid < bounds, NEW fd \in MaybeSocket, fd \notin Pooled, Keep(fd)
    PROVE  /\ Pooled' = Pooled \cup {fd} /\ Distinct'
           /\ fdArray' \in [Slots -> MaybeSocket] /\ valid' \in Nat /\ valid' <= bounds
           /\ valid' = valid + 1
  <1>1. /\ fdArray' = [fdArray EXCEPT ![valid] = fd] /\ valid' = valid + 1
        /\ valid \in Nat /\ bounds \in Nat /\ fdArray \in [Slots -> MaybeSocket]
    BY PoolAssumption DEF Keep, PoolType
  <1>2. valid \in Slots /\ 0 .. valid - 1 \subseteq Slots \ {valid}
    BY <1>1 DEF Slots
  <1>3. 0 .. valid' - 1 = (0 .. valid - 1) \cup {valid}
    BY <1>1
  <1>4. fdArray'[valid] = fd /\ \A i \in 0 .. valid - 1 : fdArray'[i] = fdArray[i]
    BY <1>1, <1>2
  <1>5. Pooled' = Pooled \cup {fd}
    <2>1. Pooled' = {fdArray'[i] : i \in (0 .. valid - 1) \cup {valid}}
      BY <1>3 DEF Pooled
    <2>. QED
      BY <1>4, <2>1, Zenon DEF Pooled
  <1>6. Distinct'
    <2>. SUFFICES ASSUME NEW i \in (0 .. valid - 1) \cup {valid}, NEW j \in (0 .. valid - 1) \cup {valid},
                         fdArray'[i] = fdArray'[j]
                  PROVE  i = j
      BY <1>3 DEF Distinct
    <2>1. \A k \in 0 .. valid - 1 : fdArray[k] # fd
      BY DEF Pooled
    <2>. QED
      BY <1>4, <2>1 DEF Distinct
  <1>7. fdArray' \in [Slots -> MaybeSocket]
    BY <1>1, <1>2
  <1>8. valid' \in Nat /\ valid' <= bounds
    BY <1>1
  <1>. QED
    BY <1>1, <1>5, <1>6, <1>7, <1>8

LEMMA GetPooled ==
    ASSUME PoolType, Distinct, valid > 0, valid' = valid - 1, UNCHANGED fdArray
    PROVE  /\ fdArray[valid - 1] \in Pooled /\ fdArray[valid - 1] \in MaybeSocket
           /\ Pooled' = Pooled \ {fdArray[valid - 1]} /\ Distinct'
           /\ valid' \in Nat /\ valid' <= bounds
  <1>0. valid \in Nat /\ bounds \in Nat /\ fdArray \in [Slots -> MaybeSocket]
    BY PoolAssumption DEF PoolType
  <1>1. /\ valid - 1 \in 0 .. valid - 1 /\ valid - 1 \in Slots
        /\ 0 .. valid' - 1 = (0 .. valid - 1) \ {valid - 1}
        /\ valid' \in Nat /\ valid' <= bounds
    BY <1>0 DEF PoolType, Slots
  <1>2. fdArray[valid - 1] \in Pooled /\ fdArray[valid - 1] \in MaybeSocket
    BY <1>0, <1>1 DEF Pooled
  <1>3. Pooled' = {fdArray[i] : i \in (0 .. valid - 1) \ {valid - 1}}
    BY <1>1 DEF Pooled
  <1>4. Pooled' = Pooled \ {fdArray[valid - 1]}
    BY <1>1, <1>3, Zenon DEF Pooled, Distinct
  <1>5. Distinct'
    BY <1>1 DEF Distinct
  <1>. QED
    BY <1>1, <1>2, <1>4, <1>5

LEMMA HeldGets ==
    ASSUME PoolType, HeldOnce, NEW c \in Clients, NEW s \in Sockets, held[c] = NoSocket, s \notin InUse,
           held' = [held EXCEPT ![c] = s]
    PROVE  InUse' = InUse \cup {s} /\ HeldOnce' /\ held' \in [Clients -> MaybeSocket]
  <1>1. held \in [Clients -> MaybeSocket] /\ s # NoSocket
    BY PoolAssumption DEF PoolType
  <1>2. held'[c] = s /\ \A d \in Clients \ {c} : held'[d] = held[d]
    BY <1>1
  <1>3. \A x : x \in InUse <=> x # NoSocket /\ \E d \in Clients : held[d] = x
    BY DEF InUse
  <1>4. \A x : x \in InUse' <=> x # NoSocket /\ \E d \in Clients : held'[d] = x
    BY DEF InUse
  <1>5. \A x : x \in InUse' <=> x \in InUse \cup {s}
    BY <1>1, <1>2, <1>3, <1>4
  <1>6. InUse' = InUse \cup {s}
    BY <1>5
  <1>7. HeldOnce'
    BY <1>1, <1>2, <1>3 DEF HeldOnce
  <1>8. held' \in [Clients -> MaybeSocket]
    BY <1>1 DEF MaybeSocket
  <1>. QED
    BY <1>6, <1>7, <1>8

LEMMA HeldPuts ==
    ASSUME PoolType, HeldOnce, NEW c \in Clients, held' = [held EXCEPT ![c] = NoSocket]
    PROVE  InUse' = InUse \ {held[c]} /\ HeldOnce' /\ held' \in [Clients -> MaybeSocket]
  <1>1. held \in [Clients -> MaybeSocket]
    BY DEF PoolType
  <1>2. held'[c] = NoSocket /\ \A d \in Clients \ {c} : held'[d] = held[d]
    BY <1>1
  <1>3. \A x : x \in InUse <=> x # NoSocket /\ \E d \in Clients : held[d] = x
    BY DEF InUse
  <1>4. \A x : x \in InUse' <=> x # NoSocket /\ \E d \in Clients : held'[d] = x
    BY DEF InUse
  <1>5. \A x : x \in InUse' <=> x \in InUse \ {held[c]}
    BY <1>2, <1>3, <1>4 DEF HeldOnce
  <1>6. InUse' = InUse \ {held[c]}
    BY <1>5
  <1>7. HeldOnce'
    BY <1>2 DEF HeldOnce
  <1>8. held' \in [Clients -> MaybeSocket]
    BY <1>1 DEF MaybeSocket
  <1>. QED
    BY <1>6, <1>7, <1>8

LEMMA PoolStutters ==
    ASSUME PoolInv, UNCHANGED poolVars
    PROVE  PoolInv'
  BY DEF poolVars, PoolInv, PoolType, Unused, Ready, Distinct, HeldOnce, Sizes, Pooled, InUse

LEMMA InitPoolKeeps ==
    ASSUME PoolInv, sckCltPool_init
    PROVE  PoolInv'
  <1>0. bounds \in Nat /\ bounds > 0
    BY PoolAssumption
  <1>1. /\ handle = "none" /\ handle' = "ready" /\ valid' = bounds
        /\ fdArray' \in [Slots -> Free] /\ \A i, j \in Slots : fdArray'[i] = fdArray'[j] => i = j
        /\ sockets' = sockets \cup {fdArray'[i] : i \in Slots} /\ UNCHANGED <<held, last>>
    BY DEF sckCltPool_init, IsInjective
  <1>2. \A c \in Clients : held[c] = NoSocket /\ last[c] = NoSocket
    BY <1>1 DEF PoolInv, Unused
  <1>3. 0 .. valid' - 1 = Slots
    BY <1>0, <1>1 DEF Slots
  <1>4. InUse' = {}
    BY <1>1, <1>2 DEF InUse
  <1>5. Pooled' = {fdArray'[i] : i \in Slots} /\ Pooled' \subseteq sockets'
    BY <1>1, <1>3, Zenon DEF Pooled
  <1>6. IsFiniteSet(Pooled') /\ Cardinality(Pooled') = bounds
    <2>1. IsFiniteSet(Slots) /\ Cardinality(Slots) = bounds
      <3>1. IsFiniteSet(0 .. bounds - 1) /\ Cardinality(0 .. bounds - 1) = (bounds - 1) - 0 + 1
        BY <1>0, FS_Interval
      <3>. QED
        BY <1>0, <3>1 DEF Slots
    <2>2. fdArray' \in Injection(Slots, Pooled') /\ fdArray' \in Surjection(Slots, Pooled')
      BY <1>1, <1>5 DEF Injection, Surjection, IsInjective
    <2>. QED
      BY <2>1, <2>2, FS_Surjection
  <1>7. PoolType'
    <2>1. Free \subseteq Sockets
      BY DEF Free
    <2>. QED
      BY <1>0, <1>1, <2>1 DEF PoolInv, PoolType, MaybeSocket
  <1>8. Unused'
    BY <1>1, <1>2 DEF Unused
  <1>9. Ready'
    <2>1. Distinct'
      BY <1>1, <1>3, Zenon DEF Distinct
    <2>2. HeldOnce'
      BY <1>1, <1>2 DEF HeldOnce
    <2>3. Sizes'
      BY <1>0, <1>1, <1>4, <1>6, FS_EmptySet DEF Sizes
    <2>. QED
      BY <1>4, <1>5, <2>1, <2>2, <2>3 DEF Ready
  <1>. QED
    BY <1>7, <1>8, <1>9 DEF PoolInv

LEMMA GetKeeps ==
    ASSUME PoolInv, NEW c \in Clients, getConnet(c)
    PROVE  PoolInv'
  <1>. DEFINE fd == fdArray[valid - 1]
  <1>1. /\ handle = "ready" /\ held[c] = NoSocket /\ terminated # 1 /\ valid > 0
        /\ held' = [held EXCEPT ![c] = fd] /\ valid' = valid - 1
        /\ UNCHANGED <<fdArray, terminated, handle, sockets, last>>
    BY DEF getConnet
  <1>2. PoolType /\ Ready /\ valid \in Nat /\ bounds \in Nat
    BY <1>1, PoolAssumption DEF PoolInv, PoolType
  <1>3. /\ fd \in Pooled /\ Pooled' = Pooled \ {fd} /\ Distinct'
        /\ valid' \in Nat /\ valid' <= bounds
    BY <1>1, <1>2, GetPooled DEF Ready
  <1>. HIDE DEF fd
  <1>4. fd \in Sockets /\ fd \notin InUse /\ fd \in sockets
    BY <1>2, <1>3 DEF Ready, PoolType
  <1>5. InUse' = InUse \cup {fd} /\ HeldOnce' /\ held' \in [Clients -> MaybeSocket]
    BY <1>1, <1>2, <1>4, HeldGets, Zenon DEF Ready
  <1>6. Sizes'
    <2>1. /\ IsFiniteSet(Pooled \ {fd}) /\ Cardinality(Pooled \ {fd}) = Cardinality(Pooled) - 1
          /\ IsFiniteSet(InUse \cup {fd}) /\ Cardinality(InUse \cup {fd}) = Cardinality(InUse) + 1
          /\ Cardinality(InUse) \in Nat
      BY <1>2, <1>3, <1>4, FS_RemoveElement, FS_AddElement, FS_CardinalityType, Zenon DEF Ready, Sizes
    <2>. QED
      BY <1>1, <1>2, <1>3, <1>5, <2>1 DEF Ready, Sizes
  <1>7. Ready'
    BY <1>1, <1>2, <1>3, <1>4, <1>5, <1>6 DEF Ready
  <1>8. PoolType' /\ Unused'
    BY <1>1, <1>2, <1>3, <1>5 DEF PoolType, Unused
  <1>. QED
    BY <1>7, <1>8 DEF PoolInv

\* What putConnet does with the pool and the sockets, and that it is safe.
LEMMA PutKeeps ==
    ASSUME PoolInv, NEW c \in Clients, NEW validFlag \in {0, 1}, Put(c, validFlag)
    PROVE  PoolInv'
  <1>. DEFINE fd == held[c]
  <1>1. /\ handle = "ready" /\ fd # NoSocket /\ Putting(fd, validFlag)
        /\ held' = [held EXCEPT ![c] = NoSocket] /\ last' = [last EXCEPT ![c] = fd]
        /\ UNCHANGED <<terminated, handle>>
    BY DEF Put, putConnet
  <1>2. PoolType /\ Ready /\ valid \in Nat /\ bounds \in Nat /\ terminated # 1
    BY <1>1, PoolAssumption DEF PoolInv, PoolType, Unused
  <1>3. fd \in InUse /\ fd \in MaybeSocket /\ fd \notin Pooled /\ fd \in sockets /\ fd \in Sockets
    BY <1>1, <1>2 DEF InUse, Ready, PoolType, MaybeSocket
  <1>4. InUse' = InUse \ {fd} /\ HeldOnce' /\ held' \in [Clients -> MaybeSocket]
    BY <1>1, <1>2, HeldPuts, Zenon DEF Ready
  <1>5. last' \in [Clients -> MaybeSocket]
    BY <1>1, <1>2, <1>3 DEF PoolType
  <1>. HIDE DEF fd
  <1>6. /\ IsFiniteSet(InUse') /\ Cardinality(InUse') = Cardinality(InUse) - 1
        /\ Cardinality(InUse) \in Nat /\ Cardinality(InUse') \in Nat
    BY <1>2, <1>3, <1>4, FS_RemoveElement, FS_CardinalityType DEF Ready, Sizes
  <1>7. valid < bounds
    BY <1>2, <1>6 DEF Ready, Sizes
  <1>u. Unused'
    BY <1>1, <1>2 DEF Unused
  \* new goes into the next slot.
  <1>8. ASSUME NEW new \in (Sockets \ sockets) \cup {fd}, Keep(new),
               sockets' = (sockets \ {fd}) \cup {new} \/ (new = fd /\ sockets' = sockets)
        PROVE  PoolInv'
    <2>0. new \notin Pooled /\ new \in Sockets /\ new \in MaybeSocket
      BY <1>2, <1>3 DEF Ready, MaybeSocket
    <2>1. /\ Pooled' = Pooled \cup {new} /\ Distinct'
          /\ fdArray' \in [Slots -> MaybeSocket] /\ valid' \in Nat /\ valid' <= bounds
          /\ valid' = valid + 1
      BY <1>2, <1>7, <1>8, <2>0, KeepPooled DEF Ready
    <2>2. IsFiniteSet(Pooled') /\ Cardinality(Pooled') = Cardinality(Pooled) + 1
      BY <1>2, <2>0, <2>1, FS_AddElement DEF Ready, Sizes
    <2>3. Sizes'
      BY <1>2, <1>6, <2>1, <2>2 DEF Ready, Sizes
    <2>4. /\ Pooled' \cap InUse' = {} /\ Pooled' \cup InUse' \subseteq sockets'
          /\ sockets' \subseteq Sockets
      BY <1>2, <1>3, <1>4, <1>8, <2>0, <2>1 DEF Ready, PoolType
    <2>5. Ready'
      BY <1>4, <2>1, <2>3, <2>4 DEF Ready
    <2>6. PoolType'
      BY <1>4, <1>5, <2>1, <2>4 DEF PoolType
    <2>. QED
      BY <1>u, <2>5, <2>6 DEF PoolInv
  \* The connection is gone.
  <1>9. ASSUME UNCHANGED <<fdArray, valid>>, sockets \ {fd} \subseteq sockets', sockets' \subseteq Sockets
        PROVE  PoolInv'
    <2>1. Pooled' = Pooled /\ Distinct'
      BY <1>2, <1>9 DEF Pooled, Distinct, Ready
    <2>2. Sizes'
      BY <1>2, <1>6, <1>9, <2>1 DEF Ready, Sizes
    <2>3. Pooled' \cap InUse' = {} /\ Pooled' \cup InUse' \subseteq sockets'
      BY <1>2, <1>3, <1>4, <1>9, <2>1 DEF Ready
    <2>4. Ready'
      BY <1>4, <2>1, <2>2, <2>3 DEF Ready
    <2>5. PoolType'
      BY <1>2, <1>4, <1>5, <1>9 DEF PoolType
    <2>. QED
      BY <1>u, <2>4, <2>5 DEF PoolInv
  <1>10. CASE Keep(fd) /\ UNCHANGED sockets
    BY <1>8, <1>10
  <1>11. CASE Replace(fd)
    <2>1. CASE \E new \in Free \cup {fd} : Keep(new) /\ sockets' = (sockets \ {fd}) \cup {new}
      BY <1>8, <2>1 DEF Free
    <2>2. CASE ConnectFails(sockets \ {fd}) /\ UNCHANGED <<fdArray, valid>>
      <3>1. sockets \ {fd} \subseteq sockets' /\ sockets' \subseteq Sockets
        BY <1>2, <2>2 DEF ConnectFails, PoolType
      <3>. QED
        BY <1>9, <2>2, <3>1
    <2>. QED
      BY <1>11, <2>1, <2>2 DEF Replace
  <1>12. ~(fd \in Pooled \/ valid >= bounds)
    BY <1>2, <1>3, <1>7
  <1>. QED
    BY <1>1, <1>2, <1>10, <1>11, <1>12 DEF Putting

LEMMA PutAgainKeeps ==
    ASSUME PoolInv, NEW c \in Clients, PutAgain(c)
    PROVE  PoolInv'
  <1>1. /\ handle = "ready" /\ held[c] = NoSocket /\ last[c] \in Pooled /\ Putting(last[c], 1)
        /\ held' = [held EXCEPT ![c] = NoSocket] /\ last' = [last EXCEPT ![c] = last[c]]
        /\ UNCHANGED <<terminated, handle>>
    BY DEF PutAgain, putConnet
  <1>2. PoolType /\ Ready /\ held \in [Clients -> MaybeSocket] /\ last \in [Clients -> MaybeSocket]
    BY <1>1 DEF PoolInv, PoolType
  <1>3. held' = held /\ last' = last
    BY <1>1, <1>2
  <1>4. terminated # 1
    <2>1. NoSocket \notin Pooled
      BY <1>2, PoolAssumption DEF Ready, PoolType
    <2>. QED
      BY <1>1, <2>1 DEF PoolInv, Unused
  <1>5. UNCHANGED <<fdArray, valid, sockets>>
    BY <1>1, <1>4 DEF Putting
  <1>. QED
    BY <1>1, <1>3, <1>5, PoolStutters DEF poolVars

LEMMA PoolKeeps == PoolInv /\ [PoolNext]_poolVars => PoolInv'
  <1>. SUFFICES ASSUME PoolInv, [PoolNext]_poolVars PROVE PoolInv'
    OBVIOUS
  <1>1. ASSUME NEW i \in Slots, InitFails(i) PROVE PoolInv'
    <2>1. /\ handle = "none" /\ sockets' \subseteq Sockets
          /\ UNCHANGED <<fdArray, valid, terminated, handle, held, last>>
      BY <1>1 DEF InitFails, ConnectFails, PoolInv, PoolType
    <2>. QED
      BY <2>1 DEF PoolInv, PoolType, Unused
  <1>2. CASE sckCltPool_destroy
    BY <1>2 DEF sckCltPool_destroy, PoolInv, PoolType, Unused
  <1>. QED
    BY <1>1, <1>2, PoolStutters, InitPoolKeeps, GetKeeps, PutKeeps, PutAgainKeeps DEF PoolNext

LEMMA PoolBegins == PoolInit => PoolInv
  BY PoolAssumption DEF PoolInit, PoolInv, PoolType, Unused, MaybeSocket

\* sckCltPool_init, getConnet, putConnet and destroy, for any clients, socket numbers and
\* capacity: a connection has one place and one user, it is open, and there are never more
\* than the pool has room for, so putConnet writes no slot past the arrays.
THEOREM PoolCorrect == PoolSpec => []PoolSound
  <1>1. PoolInv => PoolSound
    BY DEF PoolInv, Ready, Sizes, HeldOnce, PoolSound, Exclusive, PoolOpen, Capacity
  <1>. QED
    BY <1>1, PoolBegins, PoolKeeps, PTL DEF PoolSpec
=============================================================================
