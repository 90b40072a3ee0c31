----------------------------- MODULE SingleEvent -----------------------------
(***************************************************************************)
(* comLib/SingleEvent.h as built without WIN32: a flag, a mutex and a      *)
(* condition variable.  Each call runs under m_mutex from entry, or from   *)
(* its wake-up, to its return or its wait, and is one step.  A wait has no *)
(* loop around pthread_cond_wait: any wake-up ends it.                     *)
(***************************************************************************)
EXTENDS FiniteSets

CONSTANTS Waiters, m_bManualReset, bInitialState

VARIABLES m_signalled,
          pc,             \* where each waiter is
          result          \* what its last Wait returned

vars == <<m_signalled, pc, result>>

\* "timed" is a waiter inside pthread_cond_timedwait.
Asleep == {w \in Waiters : pc[w] \in {"asleep", "timed"}}

Init ==
    /\ m_signalled = bInitialState
    /\ pc = [w \in Waiters |-> "idle"]
    /\ result = [w \in Waiters |-> "none"]

\* pthread_cond_signal wakes one waiter, if there is one, of either kind of event.
Set ==
    /\ m_signalled' = TRUE
    /\ IF Asleep = {} THEN UNCHANGED pc
       ELSE \E w \in Asleep : pc' = [pc EXCEPT ![w] = "woken"]
    /\ UNCHANGED result

Reset ==
    /\ m_signalled' = FALSE
    /\ UNCHANGED <<pc, result>>

\* Mutant: a wait sleeps without a look at the flag.
WaitUnlooked(w, kind) ==
    /\ pc[w] = "idle"
    /\ pc' = [pc EXCEPT ![w] = kind]
    /\ UNCHANGED <<m_signalled, result>>

\* Wait() and Wait(int) return at once or go to sleep.
Wait(w, kind) ==
    /\ pc[w] = "idle"
    /\ IF m_bManualReset /\ m_signalled
       THEN /\ result' = [result EXCEPT ![w] = "true"]
            /\ UNCHANGED pc
       ELSE /\ pc' = [pc EXCEPT ![w] = kind]
            /\ UNCHANGED result
    /\ UNCHANGED m_signalled

Wake(w) ==
    /\ pc[w] = "woken"
    /\ pc' = [pc EXCEPT ![w] = "idle"]
    /\ result' = [result EXCEPT ![w] = "true"]
    /\ UNCHANGED m_signalled

SpuriousWakeup(w) ==
    /\ w \in Asleep
    /\ pc' = [pc EXCEPT ![w] = "woken"]
    /\ UNCHANGED <<m_signalled, result>>

TimedOut(w) ==
    /\ pc[w] = "timed"
    /\ pc' = [pc EXCEPT ![w] = "idle"]
    /\ result' = [result EXCEPT ![w] = "false"]
    /\ UNCHANGED m_signalled

Next ==
    \/ Set
    \/ Reset
    \/ \E w \in Waiters : \/ \E kind \in {"asleep", "timed"} : Wait(w, kind)
                          \/ Wake(w) \/ SpuriousWakeup(w) \/ TimedOut(w)

Spec == Init /\ [][Next]_vars

\* Woken threads return from Wait.
FairSpec == Spec /\ \A w \in Waiters : WF_vars(Wake(w))

-----------------------------------------------------------------------------
\* Wait() waits, as the header says, "till the event becomes signaled": nobody
\* sleeps on while the event stays signaled.
WaitEndsWhenSignalled ==
    \A w \in Waiters : [](pc[w] = "asleep" /\ []m_signalled => <>(pc[w] # "asleep"))
=============================================================================
