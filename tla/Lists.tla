-------------------------------- MODULE Lists --------------------------------
(***************************************************************************)
(* What datastruct/kernerlist/list.h promises: lists of entries that are   *)
(* added at either end, deleted anywhere and joined.                       *)
(***************************************************************************)
EXTENDS Sequences

CONSTANTS Heads, Entries

VARIABLE lists

Init == lists = [h \in Heads |-> <<>>]

Members(h) == {lists[h][i] : i \in DOMAIN lists[h]}

AddFirst(e, h) == lists' = [lists EXCEPT ![h] = <<e>> \o lists[h]]

AddLast(e, h) == lists' = [lists EXCEPT ![h] = Append(lists[h], e)]

Delete(e) == lists' = [h \in Heads |-> SelectSeq(lists[h], LAMBDA x : x # e)]

\* The list of h goes before that of g.
Join(h, g) == h # g /\ lists' = [lists EXCEPT ![g] = lists[h] \o lists[g], ![h] = <<>>]

Next ==
    \/ \E e \in Entries, h \in Heads :
           (\A g \in Heads : e \notin Members(g)) /\ (AddFirst(e, h) \/ AddLast(e, h))
    \/ \E e \in Entries : Delete(e)
    \/ \E h, g \in Heads : Join(h, g)

Spec == Init /\ [][Next]_lists
=============================================================================
