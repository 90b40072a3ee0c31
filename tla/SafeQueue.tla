------------------------------ MODULE SafeQueue ------------------------------
(***************************************************************************)
(* The bounded queue of comLib/SafeQueue.h: a std::queue guarded by        *)
(* m_Lock, one semaphore that counts the free slots (m_EmptySemaphore) and *)
(* one that counts the queued items (m_FullSemaphore).                     *)
(*                                                                         *)
(* A thread that is inside a call is at a control point named after the    *)
(* call and what it is about to do.  A critical section that cannot block  *)
(* is one step guarded by the lock being free.  Push and Clear wait on a   *)
(* semaphore while they hold m_Lock, so for them the holder is recorded.   *)
(***************************************************************************)
EXTENDS Integers, Sequences, FiniteSets, Semaphore

CONSTANTS
    Threads,     \* the threads that share the queue
    Values,      \* the items that may be queued
    QueueSize,   \* m_queue_size
    Calls        \* Calls[t]: the operations that thread t ever calls

OpNames == {"Push", "BlockPush", "BlockPop", "Pop", "Clear"}

ASSUME QueueAssumption ==
    /\ IsFiniteSet(Threads)
    /\ QueueSize \in Nat
    /\ Calls \in [Threads -> SUBSET OpNames]
    /\ {"true", "false"} \cap Values = {}

VARIABLES
    m_Queue,           \* the std::queue, head first
    holder,            \* the set of threads that hold m_Lock across a wait
    m_EmptySemaphore,  \* free slots
    m_FullSemaphore,   \* queued items nobody has claimed
    pc,                \* where each thread is
    result             \* what each thread's last call returned

vars == <<m_Queue, holder, m_EmptySemaphore, m_FullSemaphore, pc, result>>

Points == {"idle",
           "Push.wait", "Push.put",            \* both hold m_Lock
           "BlockPush.wait", "BlockPush.put",
           "BlockPop.wait", "Pop.wait", "pop.take",
           "Clear.wait"}                       \* holds m_Lock

At(point) == {t \in Threads : pc[t] = point}

LockFree == holder = {}

Goto(t, point) == pc' = [pc EXCEPT ![t] = point]

Return(t, r) ==
    /\ Goto(t, "idle")
    /\ result' = [result EXCEPT ![t] = r]

Init ==
    /\ m_Queue = <<>>
    /\ holder = {}
    /\ m_EmptySemaphore = QueueSize
    /\ m_FullSemaphore = 0
    /\ pc = [t \in Threads |-> "idle"]
    /\ result = [t \in Threads |-> "true"]

-----------------------------------------------------------------------------
(* bool Push(const T&): refuses when the queue is full, otherwise waits for *)
(* a slot with m_Lock held.                                                 *)

PushRefuse(t) ==
    /\ pc[t] = "idle" /\ "Push" \in Calls[t] /\ LockFree
    /\ Len(m_Queue) >= QueueSize
    /\ Return(t, "false")
    /\ UNCHANGED <<m_Queue, holder, m_EmptySemaphore, m_FullSemaphore>>

\* Mutant: the test for a full queue is dropped.
PushEnterUnchecked(t) ==
    /\ pc[t] = "idle" /\ "Push" \in Calls[t] /\ LockFree
    /\ holder' = {t}
    /\ Goto(t, "Push.wait")
    /\ UNCHANGED <<m_Queue, m_EmptySemaphore, m_FullSemaphore, result>>

PushEnter(t) ==
    /\ pc[t] = "idle" /\ "Push" \in Calls[t] /\ LockFree
    /\ Len(m_Queue) < QueueSize
    /\ holder' = {t}
    /\ Goto(t, "Push.wait")
    /\ UNCHANGED <<m_Queue, m_EmptySemaphore, m_FullSemaphore, result>>

PushWait(t) ==
    /\ pc[t] = "Push.wait"
    /\ Wait(m_EmptySemaphore)
    /\ Goto(t, "Push.put")
    /\ UNCHANGED <<m_Queue, holder, m_FullSemaphore, result>>

PushPut(t) ==
    /\ pc[t] = "Push.put"
    /\ \E v \in Values : m_Queue' = Append(m_Queue, v)
    /\ Post(m_FullSemaphore)
    /\ holder' = {}
    /\ Return(t, "true")
    /\ UNCHANGED m_EmptySemaphore

(* void BlockPush(const T&): waits for a slot first, then locks. *)

BlockPushCall(t) ==
    /\ pc[t] = "idle" /\ "BlockPush" \in Calls[t]
    /\ Goto(t, "BlockPush.wait")
    /\ UNCHANGED <<m_Queue, holder, m_EmptySemaphore, m_FullSemaphore, result>>

\* Mutant: the slot is not claimed.
BlockPushWaitSkipped(t) ==
    /\ pc[t] = "BlockPush.wait"
    /\ Goto(t, "BlockPush.put")
    /\ UNCHANGED <<m_Queue, holder, m_EmptySemaphore, m_FullSemaphore, result>>

BlockPushWait(t) ==
    /\ pc[t] = "BlockPush.wait"
    /\ Wait(m_EmptySemaphore)
    /\ Goto(t, "BlockPush.put")
    /\ UNCHANGED <<m_Queue, holder, m_FullSemaphore, result>>

\* Mutant: the item's token is not posted.
BlockPushPutNoPost(t) ==
    /\ pc[t] = "BlockPush.put" /\ LockFree
    /\ \E v \in Values : m_Queue' = Append(m_Queue, v)
    /\ Return(t, "true")
    /\ UNCHANGED <<holder, m_EmptySemaphore, m_FullSemaphore>>

BlockPushPut(t) ==
    /\ pc[t] = "BlockPush.put" /\ LockFree
    /\ \E v \in Values : m_Queue' = Append(m_Queue, v)
    /\ Post(m_FullSemaphore)
    /\ Return(t, "true")
    /\ UNCHANGED <<holder, m_EmptySemaphore>>

-----------------------------------------------------------------------------
(* bool BlockPop(T&) and bool Pop(T&, int timeout): claim an item on the    *)
(* semaphore, then lock and take the head without looking whether there is *)
(* one.  Pop gives up when no item could be claimed in time.                *)

PopCall(t) ==
    /\ pc[t] = "idle"
    /\ \E op \in Calls[t] \cap {"BlockPop", "Pop"} :
          Goto(t, IF op = "Pop" THEN "Pop.wait" ELSE "BlockPop.wait")
    /\ UNCHANGED <<m_Queue, holder, m_EmptySemaphore, m_FullSemaphore, result>>

PopWait(t) ==
    /\ pc[t] \in {"BlockPop.wait", "Pop.wait"}
    /\ Wait(m_FullSemaphore)
    /\ Goto(t, "pop.take")
    /\ UNCHANGED <<m_Queue, holder, m_EmptySemaphore, result>>

PopTimeout(t) ==
    /\ pc[t] = "Pop.wait"
    /\ WaitTimedOut(m_FullSemaphore)
    /\ Return(t, "false")
    /\ UNCHANGED <<m_Queue, holder, m_EmptySemaphore>>

\* Mutant: the slot is not given back.
PopTakeNoPost(t) ==
    /\ pc[t] = "pop.take" /\ LockFree
    /\ m_Queue # <<>>
    /\ m_Queue' = Tail(m_Queue)
    /\ Return(t, Head(m_Queue))
    /\ UNCHANGED <<holder, m_EmptySemaphore, m_FullSemaphore>>

\* front() and pop() of an empty std::queue are undefined: any value may be
\* returned, and the queue is left as it was.
PopTake(t) ==
    /\ pc[t] = "pop.take" /\ LockFree
    /\ \/ /\ m_Queue # <<>>
          /\ m_Queue' = Tail(m_Queue)
          /\ Return(t, Head(m_Queue))
       \/ /\ m_Queue = <<>>
          /\ m_Queue' = m_Queue
          /\ \E v \in Values : Return(t, v)
    /\ Post(m_EmptySemaphore)
    /\ UNCHANGED <<holder, m_FullSemaphore>>

-----------------------------------------------------------------------------
(* void Clear(): with m_Lock held, drops an item, then waits for the token  *)
(* of that item, and so on until the queue is empty.                        *)

ClearEmpty(t) ==
    /\ pc[t] = "idle" /\ "Clear" \in Calls[t] /\ LockFree
    /\ m_Queue = <<>>
    /\ Return(t, "true")
    /\ UNCHANGED <<m_Queue, holder, m_EmptySemaphore, m_FullSemaphore>>

ClearDrop(t) ==
    /\ pc[t] = "idle" /\ "Clear" \in Calls[t] /\ LockFree
    /\ m_Queue # <<>>
    /\ m_Queue' = Tail(m_Queue)
    /\ holder' = {t}
    /\ Goto(t, "Clear.wait")
    /\ UNCHANGED <<m_EmptySemaphore, m_FullSemaphore, result>>

ClearWait(t) ==
    /\ pc[t] = "Clear.wait"
    /\ Wait(m_FullSemaphore)
    /\ Post(m_EmptySemaphore)
    /\ \/ /\ m_Queue # <<>>
          /\ m_Queue' = Tail(m_Queue)
          /\ UNCHANGED <<holder, pc, result>>
       \/ /\ m_Queue = <<>>
          /\ holder' = {}
          /\ Return(t, "true")
          /\ UNCHANGED m_Queue

-----------------------------------------------------------------------------
\* The steps that continue a call once it was made.
Continue(t) ==
    \/ PushWait(t) \/ PushPut(t)
    \/ BlockPushWait(t) \/ BlockPushPut(t)
    \/ PopWait(t) \/ PopTimeout(t) \/ PopTake(t)
    \/ ClearWait(t)

\* The steps that make a call.
Call(t) ==
    \/ PushRefuse(t) \/ PushEnter(t) \/ BlockPushCall(t)
    \/ PopCall(t) \/ ClearEmpty(t) \/ ClearDrop(t)

Next == \E t \in Threads : Call(t) \/ Continue(t)

Spec == Init /\ [][Next]_vars

-----------------------------------------------------------------------------
TypeOK ==
    /\ m_Queue \in Seq(Values)
    /\ holder = At("Push.wait") \cup At("Push.put") \cup At("Clear.wait")
    /\ m_EmptySemaphore \in Nat
    /\ m_FullSemaphore \in Nat
    /\ pc \in [Threads -> Points]
    /\ result \in [Threads -> Values \cup {"true", "false"}]

\* At most one thread is inside a critical section that may wait.
LockExclusive == \A t, u \in holder : t = u

\* Every slot is in exactly one place: free, claimed by a BlockPush or Push
\* that has not put its item yet, holding an item, or emptied by a Clear that
\* still waits for the item's token.
SlotsConserved ==
    m_EmptySemaphore + Cardinality(At("Push.put"))
      + Cardinality(At("BlockPush.put")) + Len(m_Queue)
      + Cardinality(At("Clear.wait")) = QueueSize

\* Every queued item has one token: on m_FullSemaphore or with a thread that
\* has passed the wait of BlockPop/Pop and not yet taken the head; the extra
\* token is the one that a Clear in progress still has to collect.
TokensMatchItems ==
    m_FullSemaphore + Cardinality(At("pop.take"))
      = Len(m_Queue) + Cardinality(At("Clear.wait"))

\* The accounting of the two semaphores of SafeQueue (m_EmptySemaphore and
\* m_FullSemaphore against the std::queue) is exact in every state, whatever
\* the threads are in the middle of.
Accounting == LockExclusive /\ SlotsConserved /\ TokensMatchItems

\* The inductive invariant: the state of SafeQueue is well formed and its semaphores
\* account for every slot and item.
QueueInv == TypeOK /\ Accounting

\* BlockPop and Pop call front() without testing for an empty queue: when one
\* gets the lock there is an item for it.
TakeFindsItem ==
    \A t \in At("pop.take") : LockFree => m_Queue # <<>>

\* Push and Clear wait on a semaphore with m_Lock held.  They can only be stuck
\* there, and everyone behind them, when the thread they wait for is itself
\* waiting for m_Lock: a BlockPush that has already claimed the last slot, or a
\* BlockPop/Pop that has already claimed the item being cleared.
WedgeNeedsClaimant ==
    /\ At("Push.wait") # {} /\ m_EmptySemaphore = 0 => At("BlockPush.put") # {}
    /\ At("Clear.wait") # {} /\ m_FullSemaphore = 0 => At("pop.take") # {}

\* The queue behaves as a bounded FIFO whose operations are atomic: the push
\* and pop of SafeQueue are the instants, bounded and never on an empty queue.
Abstract == INSTANCE BoundedQueue WITH queue <- m_Queue
ImplementsBoundedQueue == Abstract!Spec

\* A thread is in BlockPush.
InBlockPush(t) == pc[t] \in {"BlockPush.wait", "BlockPush.put"}
=============================================================================
