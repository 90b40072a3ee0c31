----------------------------- MODULE MCContainers -----------------------------
(***************************************************************************)
(* The containers for TLC: SafeQueue and SafeList with threads, and the    *)
(* circular lists, the skip list and the singly linked list of             *)
(* datastruct/.  They do not use each other: one of them runs and the      *)
(* others stay as they were created.                                       *)
(***************************************************************************)
EXTENDS SafeQueue, SafeList, KernelList, TLC

CONSTANTS p1, p2, q1, q2

VARIABLES on,
          level, forward, k, skipValue,
          slistNext, data, allocated, pHead, pCur, slistPc

skipVars == <<level, forward, k, skipValue>>
slistVars == <<slistNext, data, allocated, pHead, pCur, slistPc>>
containersVars == <<vars, listVars, safeVars, skipVars, slistVars, on>>

\* Every thread may make every call of SafeQueue.
AllCalls == [t \in Threads |-> OpNames]

\* SafeList: two threads push, also over the limit, and two wait for items; every thread
\* makes every call but Pop; or two threads make every call.
PushAndPop ==
    [t \in Users |-> IF t \in {q1, q2} THEN {"Pop"} ELSE {"Push_back", "Push_front", "Push"}]
AllButPop == [t \in Users |-> CallNames \ {"Pop"}]
AllByTwo == [t \in Users |-> IF t \in {q1, q2} THEN {} ELSE CallNames]
ListProfiles == {PushAndPop, AllButPop, AllByTwo}

Visited == [h \in Heads |-> list_for_each(h)]
sequences == INSTANCE Lists WITH lists <- Visited
skip == INSTANCE SkipList WITH MaxKey <- 4, Values <- {7, 8}, MAX_LEVEL <- 3, value <- skipValue
slist == INSTANCE SList WITH Addr <- 1 .. 4, Data <- {5, 6}, next <- slistNext, pc <- slistPc

ContainersInit ==
    /\ on \in {"queue", "safe", "list", "skip", "slist"}
    /\ Init /\ ListInit /\ SafeInit /\ skip!Init /\ slist!Init
    /\ on = "safe" \/ profile = PushAndPop

ContainersNext ==
    /\ \/ on = "queue" /\ Next /\ UNCHANGED <<listVars, safeVars, skipVars, slistVars>>
       \/ on = "safe" /\ SafeNext /\ UNCHANGED <<vars, listVars, skipVars, slistVars>>
       \/ on = "list" /\ ListNext /\ UNCHANGED <<vars, safeVars, skipVars, slistVars>>
       \/ on = "skip" /\ skip!Next /\ UNCHANGED <<vars, listVars, safeVars, slistVars>>
       \/ on = "slist" /\ slist!Next /\ UNCHANGED <<vars, listVars, safeVars, skipVars>>
    /\ UNCHANGED on

ContainersSpec == ContainersInit /\ [][ContainersNext]_containersVars

-----------------------------------------------------------------------------
\* What list_for_each visits is the sequence the operations of list.h promise, each
\* operation its own change, however lists were joined before.
ImplementsLists ==
    /\ sequences!Init
    /\ [][on = "list" =>
              /\ [sequences!Next]_Visited
              /\ \A e \in Entries, h \in Heads :
                     /\ list_add(e, h) => sequences!AddFirst(e, h)
                     /\ list_add_tail(e, h) => sequences!AddLast(e, h)
              /\ \A e \in Entries : list_del(e) => sequences!Delete(e)
              /\ \A h, g \in Heads : list_splice(h, g) => sequences!Join(h, g)]_listVars

\* Skip list: insert, deleteSL and search are those of a dictionary, and every level up to
\* the height of the highest node is the ordered list of exactly the nodes so high.
\* Singly linked list: inserting and deleting are those of a sequence, and what is
\* allocated is exactly what pHead reaches.
StructuresImplement ==
    /\ [](/\ on = "skip" => skip!LevelsComplete /\ skip!LevelTight
          /\ on = "slist" => slist!NothingLeaks)
    /\ skip!Abstract!Init
    /\ [][on = "skip" => skip!DictionaryStep]_skipVars
    /\ [][on = "slist" => slist!EditsAsSequence]_slistVars

ThreadSymmetry == Permutations({p1, p2}) \cup Permutations({q1, q2})
=============================================================================
