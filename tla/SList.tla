--------------------------------- MODULE SList ---------------------------------
(***************************************************************************)
(* The singly linked list with a head node of                              *)
(* datastruct/kernerlist/linklist00.c, with malloc, which may fail, and    *)
(* free.  SList_Creat3 reads numbers until -1 is entered.                  *)
(***************************************************************************)
EXTENDS Integers, Sequences, SequencesExt, FiniteSets

CONSTANTS Addr,            \* addresses of nodes
          Data             \* numbers that are entered

VARIABLES next, data,      \* the fields of the nodes
          allocated,
          pHead,
          pCur,            \* the last node while the list is created
          pc               \* "none", "creating", "ready", "failed" or "destroyed"

vars == <<next, data, allocated, pHead, pCur, pc>>

NULL == 0

Init ==
    /\ next = [a \in Addr |-> NULL] /\ data = [a \in Addr |-> 0]
    /\ allocated = {}
    /\ pHead = NULL /\ pCur = NULL
    /\ pc = "none"

-----------------------------------------------------------------------------
\* The nodes from p on.
Chain(p) ==
    LET walk[q \in Addr \cup {NULL}] == IF q = NULL THEN <<>> ELSE <<q>> \o walk[next[q]]
    IN  walk[p]

\* The node that pPre ends at when data x is looked for: the one before the first x,
\* or the last one.
Pre(x) ==
    LET walk[q \in Addr] == IF next[q] = NULL \/ data[next[q]] = x THEN q ELSE walk[next[q]]
    IN  walk[pHead]

malloc(a) == a \in Addr \ allocated /\ allocated' = allocated \cup {a}

CreateHead(a) ==
    /\ pc = "none"
    /\ malloc(a)
    /\ next' = [next EXCEPT ![a] = NULL] /\ data' = [data EXCEPT ![a] = 0]
    /\ pHead' = a /\ pCur' = a
    /\ pc' = "creating"

CreateNode(a, x) ==
    /\ pc = "creating"
    /\ malloc(a)
    /\ next' = [next EXCEPT ![a] = NULL, ![pCur] = a]
    /\ data' = [data EXCEPT ![a] = x]
    /\ pCur' = a
    /\ UNCHANGED <<pHead, pc>>

CreateEnd ==
    /\ pc = "creating"
    /\ pc' = "ready"
    /\ UNCHANGED <<next, data, allocated, pHead, pCur>>

\* Every node is freed, the head included.
SList_Destory == allocated' = allocated \ Range(Chain(pHead))

\* malloc fails: what there is of the list is destroyed.
CreateFails ==
    /\ pc \in {"none", "creating"}
    /\ SList_Destory
    /\ pHead' = NULL
    /\ pc' = "failed"
    /\ UNCHANGED <<next, data, pCur>>

\* y goes before the first x, or to the end.  When malloc fails nothing changes.
SList_NodeInsert(a, x, y) ==
    /\ pc = "ready"
    /\ malloc(a)
    /\ next' = [next EXCEPT ![a] = next[Pre(x)], ![Pre(x)] = a]
    /\ data' = [data EXCEPT ![a] = y]
    /\ UNCHANGED <<pHead, pCur, pc>>

\* The first y goes; when there is none the call fails.
SList_NodeDel(y) ==
    /\ pc = "ready"
    /\ next[Pre(y)] # NULL
    /\ next' = [next EXCEPT ![Pre(y)] = next[next[Pre(y)]]]
    /\ allocated' = allocated \ {next[Pre(y)]}
    /\ UNCHANGED <<data, pHead, pCur, pc>>

\* main is done with the list; pHead keeps its value.
Destroy ==
    /\ pc = "ready"
    /\ SList_Destory
    /\ pc' = "destroyed"
    /\ UNCHANGED <<next, data, pHead, pCur>>

Next ==
    \/ \E a \in Addr : CreateHead(a) \/ \E x \in Data : CreateNode(a, x)
    \/ CreateEnd \/ CreateFails
    \/ \E a \in Addr, x, y \in Data : SList_NodeInsert(a, x, y)
    \/ \E y \in Data : SList_NodeDel(y)
    \/ Destroy

Spec == Init /\ [][Next]_vars

-----------------------------------------------------------------------------
Contents == [i \in 1 .. Len(Chain(pHead)) - 1 |-> data[Chain(pHead)[i + 1]]]

\* What is allocated is exactly what can be reached from pHead, nothing is freed twice
\* and nothing leaks: not when malloc fails in the middle of SList_Creat3 either.
NothingLeaks ==
    allocated = IF pc = "destroyed" THEN {} ELSE Range(Chain(pHead))

\* The first place of x in a sequence, or the one behind its end.
Place(s, x) ==
    CHOOSE i \in 1 .. Len(s) + 1 :
        (i = Len(s) + 1 \/ s[i] = x) /\ \A j \in 1 .. i - 1 : s[j] # x

\* SList_NodeInsert and SList_NodeDel do to the numbers in the list what inserting
\* before the first x, and removing the first y, do to a sequence.
EditsAsSequence ==
    /\ \A a \in Addr, x, y \in Data :
           SList_NodeInsert(a, x, y) => Contents' = InsertAt(Contents, Place(Contents, x), y)
    /\ \A y \in Data : SList_NodeDel(y) => Contents' = RemoveAt(Contents, Place(Contents, y))
=============================================================================
