------------------------------ MODULE CSemaphore ------------------------------
(***************************************************************************)
(* The counting semaphore and its grants, util/sem/csem.hpp.  wait,        *)
(* try_wait and the first half of post are critical sections under mutex,  *)
(* one step each; post notifies after it has left its critical section.    *)
(* A grant belongs to one thread, Owner says to which, as the members of   *)
(* CSemaphoreGrant are not locked; every grant is of the one semaphore.    *)
(***************************************************************************)
EXTENDS Integers, FiniteSets

CONSTANTS Thread, Grant, Owner,
          Count            \* what the semaphore is created with

ASSUME CSemaphoreAssumption ==
    /\ IsFiniteSet(Thread) /\ IsFiniteSet(Grant)
    /\ Owner \in [Grant -> Thread]
    /\ Count \in Nat

VARIABLES value,
          live,            \* the grants that are constructed
          sem,             \* those with sem # NULL
          held,            \* those with fHaveGrant
          pc,              \* where a thread is in wait or post
          call             \* the call it is in: a member function, the grant it changes,
                           \* and the grant that is moved from
vars == <<value, live, sem, held, pc, call>>

Calls == [op : {"Acquire", "Release", "MoveTo", "Destroy"}, g : Grant, from : Grant]
NoCall == [op |-> "none"]

Init ==
    /\ value = Count
    /\ live = {} /\ sem = {} /\ held = {}
    /\ pc = [t \in Thread |-> "idle"]
    /\ call = [t \in Thread |-> NoCall]

-----------------------------------------------------------------------------
\* The rest of wait for a thread that has the mutex: fHaveGrant is set by the caller.
wait(t, g) ==
    \/ /\ value < 1
       /\ pc' = [pc EXCEPT ![t] = "waiting"]
       /\ call' = [call EXCEPT ![t] = [op |-> "Acquire", g |-> g, from |-> g]]
       /\ UNCHANGED <<value, held>>
    \/ /\ value >= 1
       /\ value' = value - 1
       /\ held' = held \cup {g}
       /\ pc' = [pc EXCEPT ![t] = "idle"]
       /\ call' = [call EXCEPT ![t] = NoCall]

try_wait(g) ==
    \/ /\ value < 1
       /\ UNCHANGED <<value, held>>
    \/ /\ value >= 1
       /\ value' = value - 1
       /\ held' = held \cup {g}

\* CSemaphoreGrant(), CSemaphoreGrant(sema) and CSemaphoreGrant(sema, true).
ConstructEmpty(t, g) ==
    /\ pc[t] = "idle" /\ g \notin live
    /\ live' = live \cup {g}
    /\ UNCHANGED <<value, sem, held, pc, call>>

Construct(t, g) ==
    /\ pc[t] = "idle" /\ g \notin live
    /\ live' = live \cup {g} /\ sem' = sem \cup {g}
    /\ wait(t, g)

ConstructTry(t, g) ==
    /\ pc[t] = "idle" /\ g \notin live
    /\ live' = live \cup {g} /\ sem' = sem \cup {g}
    /\ try_wait(g)
    /\ UNCHANGED <<pc, call>>

\* On a grant without semaphore the two calls may not be made.
Acquire(t, g) ==
    /\ pc[t] = "idle" /\ g \in sem \ held
    /\ wait(t, g)
    /\ UNCHANGED <<live, sem>>

TryAcquire(t, g) ==
    /\ pc[t] = "idle" /\ g \in sem \ held
    /\ try_wait(g)
    /\ UNCHANGED <<live, sem, pc, call>>

\* condition.wait returns, also for no reason, and the thread gets the mutex back.
Spurious(t) ==
    /\ pc[t] = "waiting"
    /\ pc' = [pc EXCEPT ![t] = "woken"]
    /\ UNCHANGED <<value, live, sem, held, call>>

Woken(t) ==
    /\ pc[t] = "woken"
    /\ wait(t, call[t].g)
    /\ UNCHANGED <<live, sem>>

\* What a call does to the grants when c.g has nothing to give back any more.  A grant
\* that is moved into itself ends up empty.
Finish(c) ==
    LET moved == IF c.op = "MoveTo" /\ c.from # c.g THEN {c.from} ELSE {}
    IN  /\ held' = (held \ ({c.g} \cup moved)) \cup {g \in {c.g} : moved \cap held # {}}
        /\ sem' = IF c.op = "Release" THEN sem
                  ELSE (sem \ ({c.g} \cup moved)) \cup {g \in {c.g} : moved \cap sem # {}}
        /\ live' = IF c.op = "Destroy" THEN live \ {c.g} ELSE live

\* Release, MoveTo and the destructor: a grant that has a unit posts it.
Release(t, c) ==
    /\ pc[t] = "idle" /\ {c.g, c.from} \subseteq live
    /\ \/ /\ c.g \in held
          /\ value' = value + 1
          /\ pc' = [pc EXCEPT ![t] = "notify"]
          /\ call' = [call EXCEPT ![t] = c]
          /\ UNCHANGED <<live, sem, held>>
       \/ /\ c.g \notin held
          /\ Finish(c)
          /\ UNCHANGED <<value, pc, call>>

At(p) == {t \in Thread : pc[t] = p}

\* Mutant: notify_one is called only if the value is 1 by then.
notify_oneAtOne(t) ==
    /\ pc[t] = "notify"
    /\ \/ /\ At("waiting") = {} \/ value # 1
          /\ pc' = [pc EXCEPT ![t] = "idle"]
       \/ /\ value = 1
          /\ \E u \in At("waiting") : pc' = [pc EXCEPT ![t] = "idle", ![u] = "woken"]
    /\ Finish(call[t])
    /\ call' = [call EXCEPT ![t] = NoCall]
    /\ UNCHANGED value

\* The end of post, and of the call that made it.
notify_one(t) ==
    /\ pc[t] = "notify"
    /\ \/ /\ At("waiting") = {}
          /\ pc' = [pc EXCEPT ![t] = "idle"]
       \/ \E u \in At("waiting") : pc' = [pc EXCEPT ![t] = "idle", ![u] = "woken"]
    /\ Finish(call[t])
    /\ call' = [call EXCEPT ![t] = NoCall]
    /\ UNCHANGED value

Mine(t) == {g \in Grant : Owner[g] = t}

Next ==
    \E t \in Thread :
        \/ Spurious(t) \/ Woken(t) \/ notify_one(t)
        \/ \E g \in Mine(t) :
               \/ ConstructEmpty(t, g) \/ Construct(t, g) \/ ConstructTry(t, g)
               \/ Acquire(t, g) \/ TryAcquire(t, g)
               \/ \E op \in {"Release", "MoveTo", "Destroy"}, from \in Mine(t) :
                      /\ op # "MoveTo" => from = g
                      /\ Release(t, [op |-> op, g |-> g, from |-> from])

Spec == Init /\ [][Next]_vars

-----------------------------------------------------------------------------
\* A thread inside wait or post works on a grant of its own that has a semaphore.
InCall(t) ==
    IF pc[t] = "idle" THEN call[t] = NoCall
    ELSE /\ call[t] \in Calls
         /\ call[t].g \in sem /\ call[t].from \in live
         /\ Owner[call[t].g] = t /\ Owner[call[t].from] = t
         /\ (call[t].g \in held) <=> (pc[t] = "notify")

\* The types; a grant that has a unit knows its semaphore, and a grant that wait or post
\* is working on does not go away meanwhile.
TypeOK ==
    /\ value \in Nat
    /\ live \subseteq Grant /\ sem \subseteq live /\ held \subseteq sem
    /\ pc \in [Thread -> {"idle", "waiting", "woken", "notify"}]
    /\ call \in [Thread -> Calls \cup {NoCall}]
    /\ \A t \in Thread : InCall(t)

\* Grants whose unit is not in the semaphore: a grant that Release works on has posted
\* its unit before it resets fHaveGrant.
Holding == {g \in held : ~ (pc[Owner[g]] = "notify" /\ call[Owner[g]].g = g)}

\* No unit is lost or made up: what is in the semaphore and what the grants hold is
\* always what the semaphore was created with, through MoveTo and the destructor too.
\* So no more than Count grants hold a unit at a time.
Conservation == value + Cardinality(Holding) = Count

\* wait checks value again after every wakeup, and post notifies outside the mutex:
\* still no thread sleeps while a unit is there that nobody has been woken for.
NoWakeupLost ==
    At("waiting") # {} => value <= Cardinality(At("woken")) + Cardinality(At("notify"))

\* The inductive invariant: grants and calls of CSemaphore are well formed, no unit is
\* lost and no wakeup is lost.
SemInv == TypeOK /\ Conservation /\ NoWakeupLost
=============================================================================
