------------------------------ MODULE Dictionary ------------------------------
(***************************************************************************)
(* What a skip list promises: insert adds a key that is not there,         *)
(* deleteSL removes one, search returns the value of a key, or 0.          *)
(***************************************************************************)
CONSTANTS Keys, Values

VARIABLE dict

Init == dict = [key \in Keys |-> 0]

Insert(key, value) == dict[key] = 0 /\ dict' = [dict EXCEPT ![key] = value]

Delete(key) == dict[key] # 0 /\ dict' = [dict EXCEPT ![key] = 0]

Next == \E key \in Keys : Delete(key) \/ \E value \in Values : Insert(key, value)

Spec == Init /\ [][Next]_dict
=============================================================================
