------------------------------ MODULE KernelList ------------------------------
(***************************************************************************)
(* The circular doubly linked lists of datastruct/kernerlist/list.h, at    *)
(* the level of their pointers.  A head that was spliced away still points *)
(* into the other list and must be initialised before it is used again.    *)
(***************************************************************************)
EXTENDS Sequences

CONSTANTS Heads, Entries, LIST_POISON

ASSUME ListAssumption ==
    Heads \cap Entries = {} /\ LIST_POISON \notin Heads \cup Entries

VARIABLES next, prev,
          stale            \* heads whose list was spliced into another one

listVars == <<next, prev, stale>>

Nodes == Heads \cup Entries
Usable == Heads \ stale
Linked == Usable \cup {e \in Entries : next[e] # LIST_POISON}

\* LIST_HEAD_INIT for the heads; an entry that is in no list is as list_del leaves it.
ListInit ==
    /\ next = [x \in Nodes |-> IF x \in Heads THEN x ELSE LIST_POISON]
    /\ prev = next
    /\ stale = {}

-----------------------------------------------------------------------------
INIT_LIST_HEAD(h) ==
    /\ h \in stale
    /\ next' = [next EXCEPT ![h] = h]
    /\ prev' = [prev EXCEPT ![h] = h]
    /\ stale' = stale \ {h}

\* Mutant: the successor's prev is not set.
__list_add_single(new, p, n) ==
    /\ prev' = [prev EXCEPT ![new] = p]
    /\ next' = [next EXCEPT ![new] = n, ![p] = new]

__list_add(new, p, n) ==
    /\ prev' = [prev EXCEPT ![n] = new, ![new] = p]
    /\ next' = [next EXCEPT ![new] = n, ![p] = new]

list_add(e, h) ==
    /\ e \in Entries \ Linked /\ h \in Usable
    /\ __list_add(e, h, next[h])
    /\ UNCHANGED stale

\* Mutant: the entry goes to the front.
list_add_tail_first(e, h) ==
    /\ e \in Entries \ Linked /\ h \in Usable
    /\ __list_add(e, h, next[h])
    /\ UNCHANGED stale

list_add_tail(e, h) ==
    /\ e \in Entries \ Linked /\ h \in Usable
    /\ __list_add(e, prev[h], h)
    /\ UNCHANGED stale

__list_del(p, n) == <<[next EXCEPT ![p] = n], [prev EXCEPT ![n] = p]>>

list_del(e) ==
    /\ e \in Entries \cap Linked
    /\ next' = [__list_del(prev[e], next[e])[1] EXCEPT ![e] = LIST_POISON]
    /\ prev' = [__list_del(prev[e], next[e])[2] EXCEPT ![e] = LIST_POISON]
    /\ UNCHANGED stale

__list_splice(h, g) ==
    /\ prev' = [prev EXCEPT ![next[h]] = g, ![next[g]] = prev[h]]
    /\ next' = [next EXCEPT ![g] = next[h], ![prev[h]] = next[g]]

list_empty(h) == next[h] = h

list_splice(h, g) ==
    /\ h \in Usable /\ g \in Usable /\ h # g
    /\ ~list_empty(h)
    /\ __list_splice(h, g)
    /\ stale' = stale \cup {h}

\* What list_for_each visits; list_for_each_r visits it in the opposite order, by Rings.
list_for_each(h) ==
    LET visit[x \in Nodes] == IF x = h THEN <<>> ELSE <<x>> \o visit[next[x]]
    IN  IF h \in stale THEN <<>> ELSE visit[next[h]]

ListNext ==
    \/ \E h \in Heads : INIT_LIST_HEAD(h)
    \/ \E e \in Entries, h \in Heads : list_add(e, h) \/ list_add_tail(e, h)
    \/ \E e \in Entries : list_del(e)
    \/ \E h, g \in Heads : list_splice(h, g)

ListSpec == ListInit /\ [][ListNext]_listVars

-----------------------------------------------------------------------------
\* The pointers of what is linked form rings: next and prev lead to linked nodes and
\* undo each other, so no pointer leads to a deleted entry or into another ring.
Rings ==
    \A x \in Linked :
        /\ next[x] \in Linked /\ prev[next[x]] = x
        /\ prev[x] \in Linked /\ next[prev[x]] = x
=============================================================================
