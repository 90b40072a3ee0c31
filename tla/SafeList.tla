------------------------------- MODULE SafeList -------------------------------
(***************************************************************************)
(* The list of comLib/SafeList.h: a std::list guarded by m_Lock and a      *)
(* semaphore that counts its items (m_EmptySemaphore).  Pop takes from the *)
(* semaphore first and from the list later; every other call changes both  *)
(* with m_Lock held, and waits for the semaphore with it held.             *)
(***************************************************************************)
EXTENDS Integers, Sequences, FiniteSets, Semaphore

CONSTANTS Users, Items,
          m_max_count,
          Profiles,        \* a profile gives the operations each thread ever calls
          MaxErased        \* bound: units that Erase may leave without an item

CallNames == {"Push_back", "Push_front", "Push", "Pop_back", "Pop_front", "Pop",
              "Clear", "Enum", "Erase"}

\* A list without room for one item cannot make room for another.
ASSUME SafeListAssumption ==
    /\ IsFiniteSet(Users) /\ Items # {}
    /\ Profiles \subseteq [Users -> SUBSET CallNames]
    /\ m_max_count \in Nat \ {0}

VARIABLES m_List,
          itemSemaphore,       \* m_EmptySemaphore: items nobody has claimed
          listHolder,          \* the threads that hold m_Lock across a wait
          listPc,
          pushed,              \* what a thread pushes once Push has made room
          profile

safeVars == <<m_List, itemSemaphore, listHolder, listPc, pushed, profile>>

Inside(points) == {t \in Users : listPc[t] \in points}
ListFree == listHolder = {}
ListGoto(t, point) == listPc' = [listPc EXCEPT ![t] = point]

Calling(t, call) == listPc[t] = "idle" /\ call \in profile[t]
Callers(call) == {t \in Users : call \in profile[t]}
Full == Len(m_List) >= m_max_count

SafeInit ==
    /\ m_List = <<>>
    /\ itemSemaphore = 0
    /\ listHolder = {}
    /\ listPc = [t \in Users |-> "idle"]
    /\ pushed = [t \in Users |-> CHOOSE v \in Items : TRUE]
    /\ profile \in Profiles

-----------------------------------------------------------------------------
\* A full list refuses the value.
Push_back(t, v) ==
    /\ Calling(t, "Push_back") /\ ListFree /\ ~Full
    /\ m_List' = Append(m_List, v)
    /\ Post(itemSemaphore)
    /\ UNCHANGED <<listHolder, listPc, pushed>>

Push_front(t, v) ==
    /\ Calling(t, "Push_front") /\ ListFree /\ ~Full
    /\ m_List' = <<v>> \o m_List
    /\ Post(itemSemaphore)
    /\ UNCHANGED <<listHolder, listPc, pushed>>

Push(t, v) ==
    /\ Calling(t, "Push") /\ ListFree /\ ~Full
    /\ m_List' = Append(m_List, v)
    /\ Post(itemSemaphore)
    /\ UNCHANGED <<listHolder, listPc, pushed>>

\* A full list loses its first item, and Push waits for the semaphore with m_Lock
\* held.
PushEvict(t, v) ==
    /\ Calling(t, "Push") /\ ListFree /\ Full
    /\ m_List' = Tail(m_List)
    /\ listHolder' = {t}
    /\ pushed' = [pushed EXCEPT ![t] = v]
    /\ ListGoto(t, "Push.wait")
    /\ UNCHANGED itemSemaphore

\* Mutant: the unit of the item that went is not taken.
PushEvictedPosts(t) ==
    /\ listPc[t] = "Push.wait"
    /\ m_List' = Append(m_List, pushed[t])
    /\ Post(itemSemaphore)
    /\ listHolder' = {}
    /\ ListGoto(t, "idle")
    /\ UNCHANGED pushed

\* It takes one unit for the item that went and posts one for the item that came.
PushEvicted(t) ==
    /\ listPc[t] = "Push.wait"
    /\ itemSemaphore > 0
    /\ m_List' = Append(m_List, pushed[t])
    /\ listHolder' = {}
    /\ ListGoto(t, "idle")
    /\ UNCHANGED <<itemSemaphore, pushed>>

-----------------------------------------------------------------------------
\* Pop_back and Pop_front return false when the list is empty.
PopEnter(t, call) ==
    /\ Calling(t, call) /\ ListFree
    /\ m_List # <<>>
    /\ listHolder' = {t}
    /\ ListGoto(t, call)
    /\ UNCHANGED <<m_List, itemSemaphore, pushed>>

Pop_back(t) ==
    /\ listPc[t] = "Pop_back"
    /\ Wait(itemSemaphore)
    /\ m_List' = SubSeq(m_List, 1, Len(m_List) - 1)
    /\ listHolder' = {}
    /\ ListGoto(t, "idle")
    /\ UNCHANGED pushed

Pop_front(t) ==
    /\ listPc[t] = "Pop_front"
    /\ Wait(itemSemaphore)
    /\ m_List' = Tail(m_List)
    /\ listHolder' = {}
    /\ ListGoto(t, "idle")
    /\ UNCHANGED pushed

\* Pop claims an item without m_Lock.  It may time out, which changes nothing.
PopClaim(t) ==
    /\ Calling(t, "Pop")
    /\ Wait(itemSemaphore)
    /\ ListGoto(t, "Pop.take")
    /\ UNCHANGED <<m_List, listHolder, pushed>>

\* m_List.front() of an empty list is undefined; the model stops the thread there.
Pop(t) ==
    /\ listPc[t] = "Pop.take" /\ ListFree
    /\ \/ m_List = <<>> /\ UNCHANGED m_List /\ ListGoto(t, "undefined")
       \/ m_List # <<>> /\ m_List' = Tail(m_List) /\ ListGoto(t, "idle")
    /\ UNCHANGED <<itemSemaphore, listHolder, pushed>>

-----------------------------------------------------------------------------
\* Clear removes an item and waits, until the list is empty.
ClearEnter(t) ==
    /\ Calling(t, "Clear") /\ ListFree
    /\ m_List # <<>>
    /\ m_List' = Tail(m_List)
    /\ listHolder' = {t}
    /\ ListGoto(t, "Clear.wait")
    /\ UNCHANGED <<itemSemaphore, pushed>>

Clear(t) ==
    /\ listPc[t] = "Clear.wait"
    /\ Wait(itemSemaphore)
    /\ \/ m_List = <<>> /\ listHolder' = {} /\ ListGoto(t, "idle") /\ UNCHANGED m_List
       \/ m_List # <<>> /\ m_List' = Tail(m_List) /\ UNCHANGED <<listHolder, listPc>>
    /\ UNCHANGED pushed

\* Enum takes the items with Pop_front and gives each to a function, with m_Lock,
\* which is recursive, held throughout.
EnumEnter(t) == PopEnter(t, "Enum")

Enum(t) ==
    /\ listPc[t] = "Enum"
    /\ Wait(itemSemaphore)
    /\ m_List' = Tail(m_List)
    /\ \/ Len(m_List) = 1 /\ listHolder' = {} /\ ListGoto(t, "idle")
       \/ Len(m_List) # 1 /\ UNCHANGED <<listHolder, listPc>>
    /\ UNCHANGED pushed

\* Erase leaves the semaphore alone; the items that stay keep their order.
Erase(t, key) ==
    LET Kept == {i \in 1 .. Len(m_List) : m_List[i] # key}
        n == Cardinality(Kept)
    IN  /\ Calling(t, "Erase") /\ ListFree
        /\ \E place \in [1 .. n -> Kept] :
              /\ \A i, j \in 1 .. n : i < j => place[i] < place[j]
              /\ m_List' = [i \in 1 .. n |-> m_List[place[i]]]
        /\ itemSemaphore - Len(m_List') <= MaxErased
        /\ UNCHANGED <<itemSemaphore, listHolder, listPc, pushed>>

SafeNext ==
    /\ \E t \in Users :
          \/ \E v \in Items : \/ Push_back(t, v) \/ Push_front(t, v)
                              \/ Push(t, v) \/ PushEvict(t, v) \/ Erase(t, v)
          \/ PopEnter(t, "Pop_back") \/ PopEnter(t, "Pop_front")
          \/ ClearEnter(t) \/ EnumEnter(t) \/ PushEvicted(t) \/ Pop_back(t)
          \/ Pop_front(t) \/ PopClaim(t) \/ Pop(t) \/ Clear(t) \/ Enum(t)
    /\ UNCHANGED profile

SafeSpec == SafeInit /\ [][SafeNext]_safeVars

-----------------------------------------------------------------------------
Removing == Inside({"Push.wait", "Clear.wait"})
Claiming == Inside({"Pop.take"})
Unclaimed == Len(m_List) + Cardinality(Removing) - Cardinality(Claiming)

\* The semaphore counts the items that no Pop has claimed, up to the one item that
\* Push or Clear has removed and not yet waited for.  Erase leaves units behind, so
\* with it the semaphore may only count too much.
Counted ==
    IF Callers("Erase") = {} THEN itemSemaphore = Unclaimed ELSE itemSemaphore >= Unclaimed

\* A call that waits with m_Lock held locks out the threads that could post a unit.  It
\* finds one all the same, unless a Pop has claimed an item and not yet taken it; for
\* Push, unless as many threads as the list has room for call Pop.
HolderProceeds ==
    \A t \in listHolder : itemSemaphore = 0 =>
        /\ Claiming # {}
        /\ listPc[t] = "Push.wait" => Cardinality(Callers("Pop")) >= m_max_count

\* Without Erase, a Pop whose Wait succeeded finds an item in the list, although others
\* push, and Push throws items away, between the two.
PopHasItem == Callers("Erase") = {} => Inside({"undefined"}) = {}

\* SafeList: the semaphore counts the items no Pop has claimed, and never too few.  So a
\* call that waits for it with m_Lock held can only wait for a unit that a Pop has, and
\* a Pop whose Wait succeeded finds an item.
ListAccounts == Counted /\ HolderProceeds /\ PopHasItem
=============================================================================
