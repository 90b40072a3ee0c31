----------------------------- MODULE ListsProofs -----------------------------
(***************************************************************************)
(* Proofs about two lists.  SafeList.h (SafeList.tla), for any threads,    *)
(* profiles of calls and limit: the inductive invariant adds to the books  *)
(* what a thread that waits with m_Lock held saw of the list.  The         *)
(* circular lists of list.h (KernelList.tla), for any heads and entries:   *)
(* the inductive invariant is Rings with the types of the pointers.        *)
(***************************************************************************)
EXTENDS KernelList, SafeList, FiniteSetTheorems, TLAPS

-----------------------------------------------------------------------------
\* SafeList.

ListPoints == {"idle", "Push.wait", "Clear.wait", "Pop_back", "Pop_front", "Enum", "Pop.take",
               "undefined"}
Holding == {"Push.wait", "Clear.wait", "Pop_back", "Pop_front", "Enum"}

SafeType ==
    /\ m_List \in Seq(Items)
    /\ itemSemaphore \in Nat
    /\ listPc \in [Users -> ListPoints]
    /\ pushed \in [Users -> Items]
    /\ profile \in [Users -> SUBSET CallNames]

\* One thread at most holds m_Lock across a wait.  What it saw of the list still holds.
LockHeld ==
    /\ listHolder = Inside(Holding)
    /\ \A t, u \in listHolder : t = u
    /\ \A t \in Users : /\ listPc[t] \in {"Pop_back", "Pop_front", "Enum"} => Len(m_List) > 0
                        /\ listPc[t] = "Push.wait" => Len(m_List) >= m_max_count - 1
                        /\ listPc[t] = "Pop.take" => t \in Callers("Pop")

SafeInv == SafeType /\ LockHeld /\ Counted /\ PopHasItem

Bit(b) == IF b THEN 1 ELSE 0

LEMMA MoveCounts ==
    ASSUME SafeType, NEW t \in Users, NEW q \in ListPoints, ListGoto(t, q), NEW P
    PROVE  /\ Cardinality(Inside(P)) \in Nat /\ Cardinality(Inside(P)') \in Nat
           /\ Cardinality(Inside(P)') = Cardinality(Inside(P)) - Bit(listPc[t] \in P) + Bit(q \in P)
  <1>0. IsFiniteSet(Users)
    BY SafeListAssumption
  <1>1. IsFiniteSet(Inside(P)) /\ Cardinality(Inside(P)) \in Nat
    BY <1>0, FS_Subset, FS_CardinalityType DEF Inside
  <1>2. listPc'[t] = q /\ \A u \in Users \ {t} : listPc'[u] = listPc[u]
    BY DEF ListGoto, SafeType
  <1>3. CASE listPc[t] \in P /\ q \in P
    <2>1. Inside(P)' = Inside(P)
      BY <1>2, <1>3 DEF Inside
    <2>. QED
      BY <1>1, <1>3, <2>1 DEF Bit
  <1>4. CASE listPc[t] \notin P /\ q \notin P
    <2>1. Inside(P)' = Inside(P)
      BY <1>2, <1>4 DEF Inside
    <2>. QED
      BY <1>1, <1>4, <2>1 DEF Bit
  <1>5. CASE listPc[t] \in P /\ q \notin P
    <2>1. Inside(P)' = Inside(P) \ {t} /\ t \in Inside(P)
      BY <1>2, <1>5 DEF Inside
    <2>2. Cardinality(Inside(P) \ {t}) = Cardinality(Inside(P)) - 1
          /\ Cardinality(Inside(P) \ {t}) \in Nat
      BY <1>1, <2>1, FS_RemoveElement, FS_CardinalityType
    <2>. QED
      BY <1>1, <1>5, <2>1, <2>2 DEF Bit
  <1>6. CASE listPc[t] \notin P /\ q \in P
    <2>1. Inside(P)' = Inside(P) \cup {t} /\ t \notin Inside(P)
      BY <1>2, <1>6 DEF Inside
    <2>2. Cardinality(Inside(P) \cup {t}) = Cardinality(Inside(P)) + 1
      BY <1>1, <2>1, FS_AddElement, Zenon
    <2>. QED
      BY <1>1, <1>6, <2>1, <2>2 DEF Bit
  <1>. QED
    BY <1>3, <1>4, <1>5, <1>6

LEMMA StayCounts ==
    ASSUME UNCHANGED listPc, NEW P
    PROVE  /\ Cardinality(Inside(P)) \in Nat
           /\ Inside(P)' = Inside(P) /\ Cardinality(Inside(P)') = Cardinality(Inside(P))
  <1>1. Inside(P)' = Inside(P)
    BY DEF Inside
  <1>2. IsFiniteSet(Inside(P))
    BY SafeListAssumption, FS_Subset DEF Inside
  <1>. QED
    BY <1>1, <1>2, FS_CardinalityType

\* What the steps do to the length of the list.
LEMMA ListLengths ==
    ASSUME SafeType
    PROVE  /\ Len(m_List) \in Nat
           /\ \A v \in Items : Append(m_List, v) \in Seq(Items) /\ Len(Append(m_List, v)) = Len(m_List) + 1
           /\ \A v \in Items : <<v>> \o m_List \in Seq(Items) /\ Len(<<v>> \o m_List) = Len(m_List) + 1
           /\ Len(m_List) > 0 =>
                 /\ Tail(m_List) \in Seq(Items) /\ Len(Tail(m_List)) = Len(m_List) - 1
                 /\ SubSeq(m_List, 1, Len(m_List) - 1) \in Seq(Items)
                 /\ Len(SubSeq(m_List, 1, Len(m_List) - 1)) = Len(m_List) - 1
           /\ (m_List = <<>>) <=> (Len(m_List) = 0)
  <1>1. m_List \in Seq(Items) /\ Len(m_List) \in Nat
    BY DEF SafeType
  <1>2. \A v \in Items : Append(m_List, v) \in Seq(Items) /\ Len(Append(m_List, v)) = Len(m_List) + 1
    BY <1>1
  <1>3. \A v \in Items : <<v>> \o m_List \in Seq(Items) /\ Len(<<v>> \o m_List) = Len(m_List) + 1
    BY <1>1
  <1>4. (m_List = <<>>) <=> (Len(m_List) = 0)
    BY <1>1
  <1>5. ASSUME Len(m_List) > 0
        PROVE  Tail(m_List) \in Seq(Items) /\ Len(Tail(m_List)) = Len(m_List) - 1
    BY <1>1, <1>5
  <1>6. ASSUME Len(m_List) > 0
        PROVE  /\ SubSeq(m_List, 1, Len(m_List) - 1) \in Seq(Items)
               /\ Len(SubSeq(m_List, 1, Len(m_List) - 1)) = Len(m_List) - 1
    <2>. DEFINE n == Len(m_List) - 1
    <2>1. n \in Nat /\ n <= Len(m_List)
      BY <1>1, <1>6
    <2>. HIDE DEF n
    <2>2. SubSeq(m_List, 1, n) \in Seq(Items) /\ Len(SubSeq(m_List, 1, n)) = n
      BY <1>1, <2>1
    <2>. QED
      BY <2>2 DEF n
  <1>. QED
    BY <1>1, <1>2, <1>3, <1>4, <1>5, <1>6

LEMMA EraseShortens ==
    ASSUME SafeType, NEW t \in Users, NEW key \in Items, Erase(t, key)
    PROVE  m_List' \in Seq(Items) /\ Len(m_List') \in Nat /\ Len(m_List') <= Len(m_List)
  <1>. DEFINE N == Len(m_List)
              Kept == {i \in 1 .. N : m_List[i] # key}
              n == Cardinality(Kept)
  <1>1. N \in Nat /\ \A i \in 1 .. N : m_List[i] \in Items
    BY DEF SafeType
  <1>2. n \in Nat /\ n <= N
    <2>1. IsFiniteSet(1 .. N) /\ Cardinality(1 .. N) = N
      BY <1>1, FS_Interval, SMTT(30)
    <2>2. IsFiniteSet(Kept) /\ Cardinality(Kept) <= Cardinality(1 .. N)
      BY <2>1, FS_Subset
    <2>. QED
      BY <2>1, <2>2, FS_CardinalityType
  <1>3. PICK place \in [1 .. n -> Kept] : m_List' = [i \in 1 .. n |-> m_List[place[i]]]
    BY Zenon DEF Erase
  <1>4. \A i \in 1 .. n : m_List[place[i]] \in Items
    BY <1>1, <1>3
  <1>. HIDE DEF Kept, n, N
  <1>5. m_List' \in [1 .. n -> Items]
    BY <1>3, <1>4
  <1>6. m_List' \in Seq(Items) /\ Len(m_List') = n
    BY <1>2, <1>5
  <1>. QED
    BY <1>2, <1>6 DEF N

LEMMA Alone ==
    ASSUME SafeType, LockHeld, NEW t \in Users, ListFree \/ listPc[t] \in Holding
    PROVE  \A u \in Users \ {t} : listPc[u] \notin Holding
  BY DEF LockHeld, ListFree, Inside

\* m_Lock after a step that moves the only thread that may hold it.
LEMMA LockMoves ==
    ASSUME SafeType, LockHeld, UNCHANGED profile,
           NEW t \in Users, NEW q \in ListPoints, ListGoto(t, q),
           \A u \in Users \ {t} : listPc[u] \notin Holding,
           listHolder' = IF q \in Holding THEN {t} ELSE {},
           q \in {"Pop_back", "Pop_front", "Enum"} => Len(m_List') > 0,
           q = "Push.wait" => Len(m_List') >= m_max_count - 1,
           q # "Pop.take"
    PROVE  LockHeld'
  <1>1. listPc'[t] = q /\ \A u \in Users \ {t} : listPc'[u] = listPc[u]
    BY DEF ListGoto, SafeType
  <1>2. Inside(Holding)' = IF q \in Holding THEN {t} ELSE {}
    BY <1>1 DEF Inside
  <1>3. \A u \in Users \ {t} : listPc[u] \notin {"Pop_back", "Pop_front", "Enum", "Push.wait"}
    BY DEF Holding
  <1>4. \A u \in Users : listPc'[u] = "Pop.take" => u \in Callers("Pop")'
    BY <1>1 DEF LockHeld, Callers
  <1>. QED
    BY <1>1, <1>2, <1>3, <1>4 DEF LockHeld

\* m_Lock after a step that moves no thread.
LEMMA LockStays ==
    ASSUME SafeType, LockHeld, UNCHANGED <<profile, listPc, listHolder>>,
           \A u \in Users : listPc[u] \in Holding =>
               listPc[u] = "Clear.wait" \/ (listPc[u] = "Enum" /\ Len(m_List') > 0)
    PROVE  LockHeld'
  <1>1. Inside(Holding)' = Inside(Holding)
    BY DEF Inside
  <1>2. \A u \in Users : /\ listPc[u] \in {"Pop_back", "Pop_front", "Enum"} => Len(m_List') > 0
                         /\ listPc[u] # "Push.wait"
    BY DEF Holding
  <1>3. \A u \in Users : listPc'[u] = "Pop.take" => u \in Callers("Pop")'
    BY DEF LockHeld, Callers
  <1>. QED
    BY <1>1, <1>2, <1>3 DEF LockHeld

\* The books are in order again when the semaphore follows the list and the claims.
LEMMA CountFollows ==
    ASSUME SafeInv, UNCHANGED profile,
           Len(m_List) \in Nat, Len(m_List') \in Nat, itemSemaphore' \in Nat,
           Cardinality(Removing) \in Nat, Cardinality(Removing') \in Nat,
           Cardinality(Claiming) \in Nat, Cardinality(Claiming') \in Nat,
           itemSemaphore' - itemSemaphore = (Len(m_List') - Len(m_List))
               + (Cardinality(Removing') - Cardinality(Removing))
               - (Cardinality(Claiming') - Cardinality(Claiming))
    PROVE  Counted'
  <1>1. itemSemaphore \in Nat
    BY DEF SafeInv, SafeType
  <1>2. Callers("Erase")' = Callers("Erase")
    BY DEF Callers
  <1>3. /\ Unclaimed = Len(m_List) + Cardinality(Removing) - Cardinality(Claiming)
        /\ Unclaimed' = Len(m_List') + Cardinality(Removing') - Cardinality(Claiming')
    BY DEF Unclaimed
  <1>. DEFINE l == Len(m_List)  l2 == Len(m_List')
              r == Cardinality(Removing)  r2 == Cardinality(Removing')
              c == Cardinality(Claiming)  c2 == Cardinality(Claiming')
  <1>n. /\ l \in Nat /\ l2 \in Nat /\ r \in Nat /\ r2 \in Nat /\ c \in Nat /\ c2 \in Nat
        /\ Unclaimed = l + r - c /\ Unclaimed' = l2 + r2 - c2
        /\ itemSemaphore' - itemSemaphore = (l2 - l) + (r2 - r) - (c2 - c)
    BY <1>3
  <1>. HIDE DEF l, l2, r, r2, c, c2
  <1>4. Unclaimed \in Int /\ Unclaimed' \in Int
    BY <1>n
  <1>5. itemSemaphore' - itemSemaphore = Unclaimed' - Unclaimed
    <2>1. (l2 + r2 - c2) - (l + r - c) = (l2 - l) + (r2 - r) - (c2 - c)
      BY <1>n
    <2>. QED
      BY <1>n, <2>1, Zenon
  <1>6. CASE Callers("Erase") = {}
    <2>1. itemSemaphore = Unclaimed
      BY <1>6 DEF SafeInv, Counted
    <2>2. itemSemaphore' = Unclaimed'
      BY <1>1, <1>4, <1>5, <2>1
    <2>. QED
      BY <1>2, <1>6, <2>2 DEF Counted
  <1>7. CASE Callers("Erase") # {}
    <2>1. itemSemaphore >= Unclaimed
      BY <1>7 DEF SafeInv, Counted
    <2>2. itemSemaphore' >= Unclaimed'
      BY <1>1, <1>4, <1>5, <2>1
    <2>. QED
      BY <1>2, <1>7, <2>2 DEF Counted
  <1>. QED
    BY <1>6, <1>7

Owes(point) == Bit(point \in {"Push.wait", "Clear.wait"}) - Bit(point \in {"Pop.take"})

LEMMA CountMoves ==
    ASSUME SafeInv, UNCHANGED profile, NEW t \in Users, NEW q \in ListPoints, ListGoto(t, q),
           Len(m_List') \in Nat, itemSemaphore' \in Nat,
           itemSemaphore' - itemSemaphore = (Len(m_List') - Len(m_List)) + Owes(q) - Owes(listPc[t])
    PROVE  Counted'
  <1>. DEFINE r == Cardinality(Removing)  r2 == Cardinality(Removing')
              c == Cardinality(Claiming)  c2 == Cardinality(Claiming')
              d == Len(m_List') - Len(m_List)
              br == Bit(listPc[t] \in {"Push.wait", "Clear.wait"})
              br2 == Bit(q \in {"Push.wait", "Clear.wait"})
              bc == Bit(listPc[t] \in {"Pop.take"})
              bc2 == Bit(q \in {"Pop.take"})
  <1>1. SafeType /\ Len(m_List) \in Nat
    BY ListLengths DEF SafeInv
  <1>2. r \in Nat /\ r2 \in Nat /\ r2 = r - br + br2
    BY <1>1, MoveCounts DEF Removing
  <1>3. c \in Nat /\ c2 \in Nat /\ c2 = c - bc + bc2
    BY <1>1, MoveCounts DEF Claiming
  <1>4. br \in Int /\ br2 \in Int /\ bc \in Int /\ bc2 \in Int
    BY DEF Bit
  <1>5. d \in Int /\ itemSemaphore' - itemSemaphore = d + (br2 - bc2) - (br - bc)
    BY <1>1 DEF Owes
  <1>. HIDE DEF r, r2, c, c2, d, br, br2, bc, bc2
  <1>6. d + (br2 - bc2) - (br - bc) = d + (r2 - r) - (c2 - c)
    BY <1>2, <1>3, <1>4, <1>5
  <1>7. itemSemaphore' - itemSemaphore = d + (r2 - r) - (c2 - c)
    BY <1>5, <1>6, Zenon
  <1>. QED
    BY <1>1, <1>2, <1>3, <1>7, CountFollows, Zenon DEF r, r2, c, c2, d

LEMMA CountStays ==
    ASSUME SafeInv, UNCHANGED <<profile, listPc>>,
           Len(m_List') \in Nat, itemSemaphore' \in Nat,
           itemSemaphore' - itemSemaphore = Len(m_List') - Len(m_List)
    PROVE  Counted'
  <1>. DEFINE r == Cardinality(Removing)  r2 == Cardinality(Removing')
              c == Cardinality(Claiming)  c2 == Cardinality(Claiming')
              d == Len(m_List') - Len(m_List)
  <1>1. SafeType /\ Len(m_List) \in Nat
    BY ListLengths DEF SafeInv
  <1>2. r \in Nat /\ r2 = r
    BY StayCounts DEF Removing
  <1>3. c \in Nat /\ c2 = c
    BY StayCounts DEF Claiming
  <1>5. d \in Int /\ itemSemaphore' - itemSemaphore = d
    BY <1>1
  <1>. HIDE DEF r, r2, c, c2, d
  <1>6. d = d + (r2 - r) - (c2 - c)
    BY <1>2, <1>3, <1>5
  <1>7. itemSemaphore' - itemSemaphore = d + (r2 - r) - (c2 - c) /\ r2 \in Nat /\ c2 \in Nat
    BY <1>2, <1>3, <1>5, <1>6, Zenon
  <1>. QED
    BY <1>1, <1>2, <1>3, <1>7, CountFollows, Zenon DEF r, r2, c, c2, d

LEMMA NoneStops ==
    ASSUME SafeInv, UNCHANGED profile, NEW t \in Users, NEW q \in ListPoints,
           ListGoto(t, q), q # "undefined"
    PROVE  PopHasItem'
  BY DEF SafeInv, SafeType, PopHasItem, Callers, Inside, ListGoto

LEMMA NoneStopsStaying ==
    ASSUME SafeInv, UNCHANGED <<profile, listPc>>
    PROVE  PopHasItem'
  BY DEF SafeInv, PopHasItem, Callers, Inside

LEMMA PushKeeps ==
    ASSUME SafeInv, UNCHANGED profile, NEW t \in Users, NEW v \in Items,
           Push_back(t, v) \/ Push_front(t, v) \/ Push(t, v)
    PROVE  SafeInv'
  <1>1. /\ ListFree /\ UNCHANGED <<listHolder, listPc, pushed>> /\ itemSemaphore' = itemSemaphore + 1
        /\ m_List' = Append(m_List, v) \/ m_List' = <<v>> \o m_List
    BY DEF Push_back, Push_front, Push, Post
  <1>t. SafeType /\ LockHeld /\ itemSemaphore \in Nat
    BY DEF SafeInv, SafeType
  <1>2. m_List' \in Seq(Items) /\ Len(m_List) \in Nat /\ Len(m_List') = Len(m_List) + 1
    BY <1>1, <1>t, ListLengths, Zenon
  <1>3. /\ Len(m_List') \in Nat /\ itemSemaphore' \in Nat
        /\ itemSemaphore' - itemSemaphore = Len(m_List') - Len(m_List)
    BY <1>1, <1>2, <1>t
  <1>4. SafeType'
    BY <1>1, <1>2, <1>3, <1>t DEF SafeType
  <1>5. LockHeld'
    BY <1>1, <1>t, LockStays DEF LockHeld, ListFree, Inside
  <1>6. Counted' /\ PopHasItem'
    BY <1>1, <1>3, CountStays, NoneStopsStaying
  <1>. QED
    BY <1>4, <1>5, <1>6 DEF SafeInv

LEMMA EvictKeeps ==
    ASSUME SafeInv, UNCHANGED profile, NEW t \in Users, NEW v \in Items, PushEvict(t, v)
    PROVE  SafeInv'
  <1>1. /\ ListFree /\ listPc[t] = "idle" /\ Len(m_List) >= m_max_count /\ m_List' = Tail(m_List)
        /\ listHolder' = {t} /\ ListGoto(t, "Push.wait") /\ itemSemaphore' = itemSemaphore
        /\ pushed' = [pushed EXCEPT ![t] = v]
    BY DEF PushEvict, Calling, Full
  <1>t. SafeType /\ LockHeld /\ itemSemaphore \in Nat
    BY DEF SafeInv, SafeType
  <1>l. Len(m_List) \in Nat
    BY <1>t, ListLengths
  <1>m. Len(m_List) > 0
    BY <1>1, <1>l, SafeListAssumption
  <1>2. m_List' \in Seq(Items) /\ Len(m_List') = Len(m_List) - 1
    BY <1>1, <1>m, <1>t, ListLengths, Zenon
  <1>3. Len(m_List') \in Nat /\ Len(m_List') >= m_max_count - 1
    BY <1>1, <1>2, <1>l, <1>m, SafeListAssumption
  <1>4. SafeType'
    BY <1>1, <1>2, <1>t DEF SafeType, ListGoto, ListPoints
  <1>5. LockHeld'
    <2>1. \A u \in Users \ {t} : listPc[u] \notin Holding
      BY <1>1, <1>t, Alone
    <2>. QED
      BY <1>1, <1>3, <1>t, <2>1, LockMoves DEF Holding, ListPoints
  <1>6. itemSemaphore' - itemSemaphore = (Len(m_List') - Len(m_List)) + Owes("Push.wait") - Owes(listPc[t])
    <2>1. Owes("Push.wait") = 1 /\ Owes(listPc[t]) = 0
      BY <1>1 DEF Owes, Bit
    <2>. QED
      BY <1>1, <1>2, <1>l, <1>t, <2>1
  <1>7. Counted'
    BY <1>1, <1>3, <1>6, <1>t, CountMoves DEF ListPoints
  <1>8. PopHasItem'
    BY <1>1, NoneStops DEF ListPoints
  <1>. QED
    BY <1>4, <1>5, <1>7, <1>8 DEF SafeInv

LEMMA EvictedKeeps ==
    ASSUME SafeInv, UNCHANGED profile, NEW t \in Users, PushEvicted(t)
    PROVE  SafeInv'
  <1>t. SafeType /\ LockHeld /\ itemSemaphore \in Nat /\ pushed[t] \in Items
    BY DEF SafeInv, SafeType
  <1>1. /\ listPc[t] = "Push.wait" /\ m_List' = Append(m_List, pushed[t])
        /\ listHolder' = {} /\ ListGoto(t, "idle") /\ itemSemaphore' = itemSemaphore
        /\ pushed' = pushed
    BY DEF PushEvicted
  <1>2. m_List' \in Seq(Items) /\ Len(m_List) \in Nat /\ Len(m_List') = Len(m_List) + 1
    BY <1>1, <1>t, ListLengths, Zenon
  <1>3. Len(m_List') \in Nat
    BY <1>2
  <1>4. SafeType'
    BY <1>1, <1>2, <1>t DEF SafeType, ListGoto, ListPoints
  <1>5. LockHeld'
    <2>1. \A u \in Users \ {t} : listPc[u] \notin Holding
      BY <1>1, <1>t, Alone DEF Holding
    <2>. QED
      BY <1>1, <1>t, <2>1, LockMoves DEF Holding, ListPoints
  <1>6. itemSemaphore' - itemSemaphore = (Len(m_List') - Len(m_List)) + Owes("idle") - Owes(listPc[t])
    <2>1. Owes("idle") = 0 /\ Owes(listPc[t]) = 1
      BY <1>1 DEF Owes, Bit
    <2>. QED
      BY <1>1, <1>2, <1>t, <2>1
  <1>7. Counted'
    BY <1>1, <1>3, <1>6, <1>t, CountMoves DEF ListPoints
  <1>8. PopHasItem'
    BY <1>1, NoneStops DEF ListPoints
  <1>. QED
    BY <1>4, <1>5, <1>7, <1>8 DEF SafeInv

LEMMA EnterKeeps ==
    ASSUME SafeInv, UNCHANGED profile, NEW t \in Users, NEW call \in {"Pop_back", "Pop_front", "Enum"},
           PopEnter(t, call)
    PROVE  SafeInv'
  <1>t. SafeType /\ LockHeld /\ itemSemaphore \in Nat
    BY DEF SafeInv, SafeType
  <1>1. /\ listPc[t] = "idle" /\ ListFree /\ m_List # <<>> /\ m_List' = m_List
        /\ listHolder' = {t} /\ ListGoto(t, call) /\ itemSemaphore' = itemSemaphore
        /\ pushed' = pushed
    BY DEF PopEnter, Calling
  <1>2. Len(m_List) \in Nat /\ Len(m_List) > 0
    BY <1>1, <1>t, ListLengths
  <1>4. SafeType'
    BY <1>1, <1>t DEF SafeType, ListGoto, ListPoints
  <1>5. LockHeld'
    <2>1. \A u \in Users \ {t} : listPc[u] \notin Holding
      BY <1>1, <1>t, Alone
    <2>. QED
      BY <1>1, <1>2, <1>t, <2>1, LockMoves DEF Holding, ListPoints
  <1>6. itemSemaphore' - itemSemaphore = (Len(m_List') - Len(m_List)) + Owes(call) - Owes(listPc[t])
    <2>1. Owes(call) = 0 /\ Owes(listPc[t]) = 0
      BY <1>1 DEF Owes, Bit
    <2>. QED
      BY <1>1, <1>2, <1>t, <2>1
  <1>7. Counted'
    BY <1>1, <1>2, <1>6, <1>t, CountMoves DEF ListPoints
  <1>8. PopHasItem'
    BY <1>1, NoneStops DEF ListPoints
  <1>. QED
    BY <1>4, <1>5, <1>7, <1>8 DEF SafeInv

\* A step that takes an item and its unit together.
LEMMA TakeKeeps ==
    ASSUME SafeInv, UNCHANGED <<profile, pushed>>, NEW t \in Users,
           listPc[t] \in {"Pop_back", "Pop_front", "Enum"}, Wait(itemSemaphore),
           m_List' = Tail(m_List) \/ m_List' = SubSeq(m_List, 1, Len(m_List) - 1),
           \/ listHolder' = {} /\ ListGoto(t, "idle")
           \/ listPc[t] = "Enum" /\ Len(m_List) # 1 /\ UNCHANGED <<listHolder, listPc>>
    PROVE  SafeInv'
  <1>t. SafeType /\ LockHeld /\ itemSemaphore \in Nat
    BY DEF SafeInv, SafeType
  <1>1. itemSemaphore > 0 /\ itemSemaphore' = itemSemaphore - 1
    BY DEF Wait
  <1>l. Len(m_List) \in Nat /\ Len(m_List) > 0
    BY <1>t, ListLengths DEF LockHeld
  <1>2. m_List' \in Seq(Items) /\ Len(m_List') = Len(m_List) - 1
    BY <1>l, <1>t, ListLengths, Zenon
  <1>3. Len(m_List') \in Nat /\ itemSemaphore' \in Nat
        /\ itemSemaphore' - itemSemaphore = Len(m_List') - Len(m_List)
    BY <1>1, <1>2, <1>l, <1>t
  <1>a. \A u \in Users \ {t} : listPc[u] \notin Holding
    BY <1>t, Alone DEF Holding
  <1>4. CASE listHolder' = {} /\ ListGoto(t, "idle")
    <2>1. SafeType'
      BY <1>2, <1>3, <1>4, <1>t DEF SafeType, ListGoto, ListPoints
    <2>2. LockHeld'
      BY <1>4, <1>a, <1>t, LockMoves DEF Holding, ListPoints
    <2>3. itemSemaphore' - itemSemaphore = (Len(m_List') - Len(m_List)) + Owes("idle") - Owes(listPc[t])
      <3>1. Owes("idle") = 0 /\ Owes(listPc[t]) = 0
        BY DEF Owes, Bit
      <3>. QED
        BY <1>3, <1>l, <1>t, <3>1
    <2>4. Counted'
      BY <1>3, <1>4, <2>3, CountMoves DEF ListPoints
    <2>5. PopHasItem'
      BY <1>4, NoneStops DEF ListPoints
    <2>. QED
      BY <2>1, <2>2, <2>4, <2>5 DEF SafeInv
  <1>5. CASE listPc[t] = "Enum" /\ Len(m_List) # 1 /\ UNCHANGED <<listHolder, listPc>>
    <2>1. SafeType'
      BY <1>2, <1>3, <1>5, <1>t DEF SafeType
    <2>2. LockHeld'
      <3>1. Len(m_List') > 0
        BY <1>2, <1>5, <1>l
      <3>. QED
        BY <1>5, <1>a, <1>t, <3>1, LockStays
    <2>3. Counted' /\ PopHasItem'
      BY <1>3, <1>5, CountStays, NoneStopsStaying
    <2>. QED
      BY <2>1, <2>2, <2>3 DEF SafeInv
  <1>. QED
    BY <1>4, <1>5

LEMMA ClaimKeeps ==
    ASSUME SafeInv, UNCHANGED profile, NEW t \in Users, PopClaim(t)
    PROVE  SafeInv'
  <1>t. SafeType /\ LockHeld /\ itemSemaphore \in Nat
    BY DEF SafeInv, SafeType
  <1>1. /\ listPc[t] = "idle" /\ "Pop" \in profile[t] /\ ListGoto(t, "Pop.take")
        /\ UNCHANGED <<m_List, listHolder, pushed>>
        /\ itemSemaphore > 0 /\ itemSemaphore' = itemSemaphore - 1
    BY DEF PopClaim, Calling, Wait
  <1>2. Len(m_List) \in Nat /\ itemSemaphore' \in Nat
    BY <1>1, <1>t, ListLengths
  <1>3. listPc'[t] = "Pop.take" /\ \A u \in Users \ {t} : listPc'[u] = listPc[u]
    BY <1>1, <1>t DEF SafeType, ListGoto
  <1>4. SafeType'
    BY <1>1, <1>2, <1>t DEF SafeType, ListGoto, ListPoints
  <1>5. LockHeld'
    <2>1. Inside(Holding)' = Inside(Holding)
      BY <1>1, <1>3 DEF Inside, Holding
    <2>2. \A u \in Users : listPc'[u] = "Pop.take" => u \in Callers("Pop")'
      BY <1>1, <1>3, <1>t DEF LockHeld, Callers
    <2>3. \A u \in Users : listPc'[u] \in Holding => listPc'[u] = listPc[u]
      BY <1>3 DEF Holding
    <2>. QED
      BY <1>1, <1>t, <2>1, <2>2, <2>3 DEF LockHeld, Holding
  <1>6. itemSemaphore' - itemSemaphore = (Len(m_List') - Len(m_List)) + Owes("Pop.take") - Owes(listPc[t])
    <2>1. Owes("Pop.take") = -1 /\ Owes(listPc[t]) = 0
      BY <1>1 DEF Owes, Bit
    <2>. QED
      BY <1>1, <1>2, <1>t, <2>1
  <1>7. Counted'
    BY <1>1, <1>2, <1>6, <1>t, CountMoves DEF ListPoints
  <1>8. PopHasItem'
    BY <1>1, NoneStops DEF ListPoints
  <1>. QED
    BY <1>4, <1>5, <1>7, <1>8 DEF SafeInv

LEMMA PopKeeps ==
    ASSUME SafeInv, UNCHANGED profile, NEW t \in Users, Pop(t)
    PROVE  SafeInv'
  <1>t. SafeType /\ LockHeld /\ itemSemaphore \in Nat
    BY DEF SafeInv, SafeType
  <1>1. listPc[t] = "Pop.take" /\ ListFree /\ UNCHANGED <<itemSemaphore, listHolder, pushed>>
    BY DEF Pop
  <1>l. Len(m_List) \in Nat /\ ((m_List = <<>>) <=> (Len(m_List) = 0))
    BY <1>t, ListLengths
  <1>a. (\A u \in Users \ {t} : listPc[u] \notin Holding) /\ listHolder' = {}
    BY <1>1, <1>t, Alone DEF ListFree
  <1>2. CASE m_List # <<>> /\ m_List' = Tail(m_List) /\ ListGoto(t, "idle")
    <2>1. m_List' \in Seq(Items) /\ Len(m_List') = Len(m_List) - 1 /\ Len(m_List') \in Nat
      <3>1. Len(m_List) > 0
        BY <1>2, <1>l
      <3>2. m_List' \in Seq(Items) /\ Len(m_List') = Len(m_List) - 1
        BY <1>2, <1>t, <3>1, ListLengths, Zenon
      <3>. QED
        BY <1>l, <3>1, <3>2
    <2>2. SafeType'
      BY <1>1, <1>2, <1>t, <2>1 DEF SafeType, ListGoto, ListPoints
    <2>3. LockHeld'
      BY <1>2, <1>a, <1>t, LockMoves DEF Holding, ListPoints
    <2>4. itemSemaphore' - itemSemaphore = (Len(m_List') - Len(m_List)) + Owes("idle") - Owes(listPc[t])
      <3>1. Owes("idle") = 0 /\ Owes(listPc[t]) = -1
        BY <1>1 DEF Owes, Bit
      <3>. QED
        BY <1>1, <1>l, <1>t, <2>1, <3>1
    <2>5. Counted' /\ PopHasItem'
      BY <1>1, <1>2, <1>t, <2>1, <2>4, CountMoves, NoneStops DEF ListPoints
    <2>. QED
      BY <2>2, <2>3, <2>5 DEF SafeInv
  \* front() of an empty list: the units that Pop trusted are those that Erase left.
  <1>3. CASE m_List = <<>> /\ m_List' = m_List /\ ListGoto(t, "undefined")
    <2>. DEFINE r == Cardinality(Removing)  r2 == Cardinality(Removing')
                c == Cardinality(Claiming)  c2 == Cardinality(Claiming')
    <2>1. Removing = {} /\ Removing' = {}
      BY <1>1, <1>3, <1>a, <1>t DEF Removing, Inside, Holding, ListGoto, SafeType
    <2>2. r = 0 /\ r2 = 0
      BY <2>1, FS_EmptySet
    <2>3. c \in Nat /\ c2 \in Nat /\ c2 = c - 1
      <3>1. /\ c \in Nat /\ c2 \in Nat
            /\ c2 = c - Bit(listPc[t] \in {"Pop.take"}) + Bit("undefined" \in {"Pop.take"})
        BY <1>3, <1>t, MoveCounts DEF Claiming, ListPoints
      <3>2. Bit(listPc[t] \in {"Pop.take"}) = 1 /\ Bit("undefined" \in {"Pop.take"}) = 0
        BY <1>1 DEF Bit
      <3>. QED
        BY <3>1, <3>2
    <2>4. Unclaimed = Len(m_List) + r - c /\ Unclaimed' = Len(m_List') + r2 - c2
      BY DEF Unclaimed
    <2>. HIDE DEF r, r2, c, c2
    <2>5. Unclaimed < 0 /\ itemSemaphore' >= Unclaimed'
      BY <1>1, <1>3, <1>l, <1>t, <2>2, <2>3, <2>4
    <2>6. Callers("Erase") # {} /\ Callers("Erase")' = Callers("Erase")
      BY <1>t, <2>5 DEF SafeInv, Counted, Callers
    <2>7. SafeType'
      BY <1>1, <1>3, <1>t DEF SafeType, ListGoto, ListPoints
    <2>8. LockHeld'
      BY <1>3, <1>a, <1>t, LockMoves DEF Holding, ListPoints
    <2>. QED
      BY <2>5, <2>6, <2>7, <2>8 DEF SafeInv, Counted, PopHasItem
  <1>. QED
    BY <1>2, <1>3 DEF Pop

LEMMA ClearKeeps ==
    ASSUME SafeInv, UNCHANGED profile, NEW t \in Users, ClearEnter(t) \/ Clear(t)
    PROVE  SafeInv'
  <1>t. SafeType /\ LockHeld /\ itemSemaphore \in Nat
    BY DEF SafeInv, SafeType
  <1>p. pushed' = pushed
    BY DEF ClearEnter, Clear
  <1>l. Len(m_List) \in Nat /\ ((m_List = <<>>) <=> (Len(m_List) = 0))
    BY <1>t, ListLengths
  <1>s. ASSUME m_List # <<>>, m_List' = Tail(m_List)
        PROVE  m_List' \in Seq(Items) /\ Len(m_List') = Len(m_List) - 1 /\ Len(m_List') \in Nat
    <2>1. Len(m_List) > 0
      BY <1>l, <1>s
    <2>2. m_List' \in Seq(Items) /\ Len(m_List') = Len(m_List) - 1
      BY <1>s, <1>t, <2>1, ListLengths, Zenon
    <2>. QED
      BY <1>l, <2>1, <2>2
  <1>1. CASE ClearEnter(t)
    <2>1. /\ listPc[t] = "idle" /\ ListFree /\ m_List # <<>> /\ m_List' = Tail(m_List)
          /\ listHolder' = {t} /\ ListGoto(t, "Clear.wait") /\ itemSemaphore' = itemSemaphore
      BY <1>1 DEF ClearEnter, Calling
    <2>2. SafeType'
      BY <1>p, <1>s, <1>t, <2>1 DEF SafeType, ListGoto, ListPoints
    <2>3. LockHeld'
      <3>1. \A u \in Users \ {t} : listPc[u] \notin Holding
        BY <1>t, <2>1, Alone
      <3>. QED
        BY <1>t, <2>1, <3>1, LockMoves DEF Holding, ListPoints
    <2>4. itemSemaphore' - itemSemaphore = (Len(m_List') - Len(m_List)) + Owes("Clear.wait") - Owes(listPc[t])
      <3>1. Owes("Clear.wait") = 1 /\ Owes(listPc[t]) = 0
        BY <2>1 DEF Owes, Bit
      <3>. QED
        BY <1>l, <1>s, <1>t, <2>1, <3>1
    <2>5. Counted' /\ PopHasItem'
      BY <1>s, <1>t, <2>1, <2>4, CountMoves, NoneStops DEF ListPoints
    <2>. QED
      BY <2>2, <2>3, <2>5 DEF SafeInv
  <1>2. CASE Clear(t)
    <2>1. listPc[t] = "Clear.wait" /\ itemSemaphore > 0 /\ itemSemaphore' = itemSemaphore - 1
      BY <1>2 DEF Clear, Wait
    <2>a. \A u \in Users \ {t} : listPc[u] \notin Holding
      BY <1>t, <2>1, Alone DEF Holding
    <2>n. itemSemaphore' \in Nat
      BY <1>t, <2>1
    <2>2. CASE m_List = <<>> /\ listHolder' = {} /\ ListGoto(t, "idle") /\ UNCHANGED m_List
      <3>1. SafeType'
        BY <1>p, <1>t, <2>2, <2>n DEF SafeType, ListGoto, ListPoints
      <3>2. LockHeld'
        BY <1>t, <2>2, <2>a, LockMoves DEF Holding, ListPoints
      <3>3. itemSemaphore' - itemSemaphore = (Len(m_List') - Len(m_List)) + Owes("idle") - Owes(listPc[t])
        <4>1. Owes("idle") = 0 /\ Owes(listPc[t]) = 1
          BY <2>1 DEF Owes, Bit
        <4>. QED
          BY <1>l, <1>t, <2>1, <2>2, <4>1
      <3>4. Counted' /\ PopHasItem'
        BY <1>l, <2>2, <2>n, <3>3, CountMoves, NoneStops DEF ListPoints
      <3>. QED
        BY <3>1, <3>2, <3>4 DEF SafeInv
    <2>3. CASE m_List # <<>> /\ m_List' = Tail(m_List) /\ UNCHANGED <<listHolder, listPc>>
      <3>1. SafeType'
        BY <1>p, <1>s, <1>t, <2>3, <2>n DEF SafeType
      <3>2. LockHeld'
        BY <1>t, <2>1, <2>3, <2>a, LockStays
      <3>3. itemSemaphore' - itemSemaphore = Len(m_List') - Len(m_List)
        BY <1>l, <1>s, <1>t, <2>1, <2>3
      <3>4. Counted' /\ PopHasItem'
        BY <1>s, <2>3, <2>n, <3>3, CountStays, NoneStopsStaying
      <3>. QED
        BY <3>1, <3>2, <3>4 DEF SafeInv
    <2>. QED
      BY <1>2, <2>2, <2>3 DEF Clear
  <1>. QED
    BY <1>1, <1>2

LEMMA EraseKeeps ==
    ASSUME SafeInv, UNCHANGED profile, NEW t \in Users, NEW key \in Items, Erase(t, key)
    PROVE  SafeInv'
  <1>t. SafeType /\ LockHeld /\ itemSemaphore \in Nat
    BY DEF SafeInv, SafeType
  <1>1. /\ ListFree /\ t \in Callers("Erase")
        /\ UNCHANGED <<itemSemaphore, listHolder, listPc, pushed>>
    BY DEF Erase, Calling, Callers
  <1>2. m_List' \in Seq(Items) /\ Len(m_List') \in Nat /\ Len(m_List') <= Len(m_List)
    BY <1>t, EraseShortens
  <1>3. SafeType'
    BY <1>1, <1>2, <1>t DEF SafeType
  <1>4. LockHeld'
    BY <1>1, <1>t, LockStays DEF LockHeld, ListFree, Inside
  <1>5. Callers("Erase") # {} /\ Callers("Erase")' = Callers("Erase")
    BY <1>1 DEF Callers
  <1>6. itemSemaphore' >= Unclaimed'
    <2>. DEFINE l == Len(m_List)  l2 == Len(m_List')
                r == Cardinality(Removing)  c == Cardinality(Claiming)
    <2>1. r \in Nat /\ Cardinality(Removing') = r /\ c \in Nat /\ Cardinality(Claiming') = c
      BY <1>1, StayCounts DEF Removing, Claiming
    <2>2. l \in Nat /\ l2 \in Nat /\ l2 <= l
      BY <1>2, <1>t, ListLengths
    <2>3. itemSemaphore >= l + r - c
      BY <1>5 DEF SafeInv, Counted, Unclaimed
    <2>4. Unclaimed' = l2 + r - c
      BY <2>1 DEF Unclaimed
    <2>. HIDE DEF l, l2, r, c
    <2>. QED
      BY <1>1, <1>t, <2>1, <2>2, <2>3, <2>4
  <1>7. Counted' /\ PopHasItem'
    BY <1>5, <1>6 DEF Counted, PopHasItem
  <1>. QED
    BY <1>3, <1>4, <1>7 DEF SafeInv

LEMMA SafeKeeps == SafeInv /\ [SafeNext]_safeVars => SafeInv'
  <1>. SUFFICES ASSUME SafeInv, [SafeNext]_safeVars PROVE SafeInv'
    OBVIOUS
  <1>1. CASE UNCHANGED safeVars
    <2>1. SafeType' /\ LockHeld'
      BY <1>1 DEF safeVars, SafeInv, SafeType, LockHeld, Inside, Callers
    <2>2. Counted' /\ PopHasItem'
      BY <1>1 DEF safeVars, SafeInv, Counted, Unclaimed, Removing, Claiming, Inside, Callers,
                  PopHasItem
    <2>. QED
      BY <2>1, <2>2 DEF SafeInv
  <1>2. CASE SafeNext
    <2>. PICK t \in Users :
           \/ \E v \in Items : \/ Push_back(t, v) \/ Push_front(t, v)
                               \/ Push(t, v) \/ PushEvict(t, v) \/ Erase(t, v)
           \/ PopEnter(t, "Pop_back") \/ PopEnter(t, "Pop_front")
           \/ ClearEnter(t) \/ EnumEnter(t) \/ PushEvicted(t) \/ Pop_back(t)
           \/ Pop_front(t) \/ PopClaim(t) \/ Pop(t) \/ Clear(t) \/ Enum(t)
      BY <1>2 DEF SafeNext
    <2>p. UNCHANGED profile
      BY <1>2 DEF SafeNext
    <2>1. ASSUME NEW v \in Items,
                 \/ Push_back(t, v) \/ Push_front(t, v)
                 \/ Push(t, v) \/ PushEvict(t, v) \/ Erase(t, v)
          PROVE  SafeInv'
      BY <2>1, <2>p, PushKeeps, EvictKeeps, EraseKeeps
    <2>2. CASE PopEnter(t, "Pop_back") \/ PopEnter(t, "Pop_front") \/ EnumEnter(t)
      BY <2>2, <2>p, EnterKeeps DEF EnumEnter
    <2>3. CASE ClearEnter(t) \/ Clear(t)
      BY <2>3, <2>p, ClearKeeps
    <2>4. CASE PushEvicted(t)
      BY <2>4, <2>p, EvictedKeeps
    <2>5. CASE Pop_back(t)
      BY <2>5, <2>p, TakeKeeps DEF Pop_back
    <2>6. CASE Pop_front(t)
      BY <2>6, <2>p, TakeKeeps DEF Pop_front
    <2>7. CASE Enum(t)
      BY <2>7, <2>p, TakeKeeps DEF Enum
    <2>8. CASE PopClaim(t)
      BY <2>8, <2>p, ClaimKeeps
    <2>9. CASE Pop(t)
      BY <2>9, <2>p, PopKeeps
    <2>. QED
      BY <2>1, <2>2, <2>3, <2>4, <2>5, <2>6, <2>7, <2>8, <2>9
  <1>. QED
    BY <1>1, <1>2

LEMMA SafeBegins == SafeInit => SafeInv
  <1>. SUFFICES ASSUME SafeInit PROVE SafeInv
    OBVIOUS
  <1>1. SafeType
    <2>1. (CHOOSE v \in Items : TRUE) \in Items
      BY SafeListAssumption
    <2>. QED
      BY <2>1, SafeListAssumption DEF SafeInit, SafeType, ListPoints
  <1>2. LockHeld
    BY DEF SafeInit, LockHeld, Inside, Holding
  <1>3. Removing = {} /\ Claiming = {} /\ Inside({"undefined"}) = {}
    BY DEF SafeInit, Removing, Claiming, Inside
  <1>4. Unclaimed = 0
    BY <1>3, FS_EmptySet DEF SafeInit, Unclaimed
  <1>. QED
    BY <1>1, <1>2, <1>3, <1>4 DEF SafeInit, SafeInv, Counted, PopHasItem

LEMMA HolderNotStuck == SafeInv => HolderProceeds
  <1>. SUFFICES ASSUME SafeInv, NEW t \in listHolder, itemSemaphore = 0
                PROVE  /\ Claiming # {}
                       /\ listPc[t] = "Push.wait" => Cardinality(Callers("Pop")) >= m_max_count
    BY DEF HolderProceeds
  <1>. DEFINE l == Len(m_List)  r == Cardinality(Removing)  c == Cardinality(Claiming)
              p == Cardinality(Callers("Pop"))
  <1>t. SafeType /\ LockHeld /\ t \in Users /\ listPc[t] \in Holding
    BY DEF SafeInv, LockHeld, Inside
  <1>0. m_max_count \in Nat /\ m_max_count > 0
    BY SafeListAssumption
  <1>1. IsFiniteSet(Removing) /\ IsFiniteSet(Claiming) /\ IsFiniteSet(Callers("Pop"))
    BY SafeListAssumption, FS_Subset DEF Removing, Claiming, Callers, Inside
  <1>2. l \in Nat /\ r \in Nat /\ c \in Nat /\ p \in Nat
    BY <1>1, <1>t, FS_CardinalityType, ListLengths
  <1>3. c >= l + r
    <2>1. 0 >= l + r - c
      BY <1>2 DEF SafeInv, Counted, Unclaimed
    <2>. HIDE DEF l, r, c
    <2>. QED
      BY <1>2, <2>1
  <1>4. c <= p
    <2>1. Claiming \subseteq Callers("Pop")
      BY <1>t DEF LockHeld, Claiming, Inside
    <2>. QED
      BY <1>1, <2>1, FS_Subset
  <1>5. listPc[t] \in {"Push.wait", "Clear.wait"} => r > 0
    <2>. SUFFICES ASSUME listPc[t] \in {"Push.wait", "Clear.wait"} PROVE r > 0
      OBVIOUS
    <2>1. Removing # {}
      BY <1>t DEF Removing, Inside
    <2>2. r # 0
      BY <1>1, <2>1, FS_EmptySet
    <2>. QED
      BY <1>2, <2>2
  <1>6. l + r > 0
    <2>1. listPc[t] \notin {"Push.wait", "Clear.wait"} => l > 0
      BY <1>t DEF LockHeld, Holding
    <2>. HIDE DEF l, r
    <2>. QED
      BY <1>2, <1>5, <2>1
  <1>7. Claiming # {}
    <2>1. c # 0
      <3>. HIDE DEF l, r, c
      <3>. QED
        BY <1>2, <1>3, <1>6
    <2>. QED
      BY <2>1, FS_EmptySet
  <1>8. listPc[t] = "Push.wait" => p >= m_max_count
    <2>1. listPc[t] = "Push.wait" => l >= m_max_count - 1
      BY <1>t DEF LockHeld
    <2>. HIDE DEF l, r, c, p
    <2>. QED
      BY <1>0, <1>2, <1>3, <1>4, <1>5, <2>1
  <1>. QED
    BY <1>7, <1>8

\* The calls of SafeList, for any threads, any choice of calls and any limit: the
\* semaphore never counts too few of the items that no Pop has claimed, a wait with
\* m_Lock held lasts only behind a Pop that has claimed one, and without Erase a Pop whose
\* Wait succeeded finds an item.
THEOREM ListAccountsExact == SafeSpec => []ListAccounts
  <1>1. SafeInv => ListAccounts
    BY HolderNotStuck DEF SafeInv, ListAccounts
  <1>. QED
    BY <1>1, SafeBegins, SafeKeeps, PTL DEF SafeSpec

-----------------------------------------------------------------------------
\* The circular lists.

\* Pointers lead to nodes or are poisoned, and an entry has both or none.
PointersTyped ==
    /\ next \in [Nodes -> Nodes \cup {LIST_POISON}]
    /\ prev \in [Nodes -> Nodes \cup {LIST_POISON}]
    /\ stale \subseteq Heads

\* home names the head of the ring that a node is in: no two usable heads share one.
Homes(home) ==
    /\ home \in [Nodes -> Nodes]
    /\ \A x \in Linked : home[next[x]] = home[x]
    /\ \A h \in Usable : home[h] = h

\* Without Homes, Rings is not inductive: list_splice of two heads of one ring breaks it.
IInv == PointersTyped /\ Rings /\ \E home : Homes(home)

-----------------------------------------------------------------------------
LEMMA InitIInv == ListInit => IInv
<1> SUFFICES ASSUME ListInit PROVE IInv
  OBVIOUS
<1>1. PointersTyped /\ Rings
  BY ListAssumption, Zenon DEF ListInit, PointersTyped, Rings, Linked, Usable, Nodes
<1>2. Homes([x \in Nodes |-> x])
  BY ListAssumption, Zenon DEF ListInit, Homes, Linked, Usable, Nodes
<1> QED
  BY <1>1, <1>2 DEF IInv

\* Nodes that are linked, and entries that are not.
LEMMA Apart ==
    ASSUME IInv
    PROVE  /\ Linked \subseteq Nodes
           /\ \A h \in Usable : h \in Linked
           /\ \A e \in Entries : e \in Nodes
           /\ \A x \in Linked : next[x] \in Linked /\ prev[x] \in Linked
                                /\ prev[next[x]] = x /\ next[prev[x]] = x
  BY DEF IInv, Rings, Linked, Usable, Nodes, PointersTyped

\* A new entry between two neighbours.
LEMMA AddKeeps ==
    ASSUME IInv, NEW e \in Entries \ Linked, NEW p \in Linked, NEW n \in Linked,
           next[p] = n, prev[n] = p, __list_add(e, p, n), UNCHANGED stale
    PROVE  IInv'
<1>1. /\ prev' = [prev EXCEPT ![n] = e, ![e] = p]
      /\ next' = [next EXCEPT ![e] = n, ![p] = e]
  BY DEF __list_add
<1>2. e \in Nodes /\ p \in Nodes /\ n \in Nodes /\ e # p /\ e # n
  BY Apart
<1>3. PointersTyped'
  BY <1>1, <1>2 DEF IInv, PointersTyped
<1>4. Linked' = Linked \cup {e}
  BY <1>1, <1>2, ListAssumption DEF Linked, Usable, IInv, PointersTyped, Nodes
<1>5. /\ next'[e] = n /\ prev'[e] = p /\ next'[p] = e /\ prev'[n] = e
      /\ \A x \in Linked \ {p} : next'[x] = next[x]
      /\ \A x \in Linked \ {n} : prev'[x] = prev[x]
  BY <1>1, <1>2, Apart DEF IInv, PointersTyped
<1>6. ASSUME NEW x \in Linked'
      PROVE  /\ next'[x] \in Linked' /\ prev'[next'[x]] = x
             /\ prev'[x] \in Linked' /\ next'[prev'[x]] = x
  <2>1. CASE x = e
    BY <1>4, <1>5, <2>1
  <2>2. CASE x \in Linked
    <3>1. next'[x] \in Linked' /\ prev'[next'[x]] = x
      BY <1>4, <1>5, <2>2, Apart
    <3>2. prev'[x] \in Linked' /\ next'[prev'[x]] = x
      BY <1>4, <1>5, <2>2, Apart
    <3> QED
      BY <3>1, <3>2
  <2> QED
    BY <1>4, <2>1, <2>2
<1>7. PICK home : Homes(home)
  BY DEF IInv
<1>8. Homes([home EXCEPT ![e] = home[p]])'
  <2> DEFINE new == [home EXCEPT ![e] = home[p]]
  <2>1. /\ new \in [Nodes -> Nodes] /\ new[e] = home[p]
        /\ \A x \in Linked : new[x] = home[x]
    BY <1>2, <1>7, Apart DEF Homes
  <2> HIDE DEF new
  <2>2. ASSUME NEW x \in Linked' PROVE new[next'[x]] = new[x]
    <3>1. CASE x = e
      BY <1>5, <1>7, <2>1, <3>1, Apart, SMTT(30) DEF Homes
    <3>2. CASE x = p
      BY <1>5, <2>1, <3>2
    <3>3. CASE x \in Linked \ {p}
      BY <1>5, <1>7, <2>1, <3>3, Apart, SMTT(30) DEF Homes
    <3> QED
      BY <1>4, <3>1, <3>2, <3>3
  <2>3. \A h \in Usable' : new[h] = h
    BY <1>7, <2>1, Apart DEF Homes, Usable
  <2> QED
    BY <2>1, <2>2, <2>3 DEF Homes, new
<1> QED
  BY <1>3, <1>6, <1>8 DEF IInv, Rings

LEMMA DelKeeps ==
    ASSUME IInv, NEW e \in Entries, list_del(e)
    PROVE  IInv'
<1> DEFINE p == prev[e]  n == next[e]
<1>1. e \in Linked /\ p \in Linked /\ n \in Linked /\ next[p] = e /\ prev[n] = e
  BY Apart DEF list_del
<1>2. /\ next' = [[next EXCEPT ![p] = n] EXCEPT ![e] = LIST_POISON]
      /\ prev' = [[prev EXCEPT ![n] = p] EXCEPT ![e] = LIST_POISON]
      /\ stale' = stale
  BY DEF list_del, __list_del
<1>3. e \in Nodes /\ p \in Nodes /\ n \in Nodes
  BY <1>1, Apart
<1>4. (p = e <=> n = e) /\ next[e] = n /\ prev[e] = p
  BY <1>1
<1> HIDE DEF p, n
<1>5. PointersTyped'
  BY <1>2, <1>3 DEF IInv, PointersTyped
<1>6. Linked' = Linked \ {e}
  BY <1>1, <1>2, <1>3, ListAssumption DEF Linked, Usable, IInv, PointersTyped, Nodes
<1>7. /\ \A x \in Linked \ {e} : next'[x] = IF x = p THEN n ELSE next[x]
      /\ \A x \in Linked \ {e} : prev'[x] = IF x = n THEN p ELSE prev[x]
  BY <1>2, <1>3, Apart DEF IInv, PointersTyped
<1>8. ASSUME NEW x \in Linked \ {e}
      PROVE  /\ next'[x] \in Linked \ {e} /\ prev'[next'[x]] = x
             /\ prev'[x] \in Linked \ {e} /\ next'[prev'[x]] = x
  <2>1. (next[x] = e => x = p) /\ (prev[x] = e => x = n)
    BY <1>4, Apart
  <2>2. next'[x] \in Linked \ {e} /\ prev'[next'[x]] = x
    BY <1>1, <1>4, <1>7, <2>1, Apart
  <2>3. prev'[x] \in Linked \ {e} /\ next'[prev'[x]] = x
    BY <1>1, <1>4, <1>7, <2>1, Apart
  <2> QED
    BY <2>2, <2>3
<1>9. PICK home : Homes(home)
  BY DEF IInv
<1>10. Homes(home)'
  <2>1. home[n] = home[e] /\ home[p] = home[e]
    BY <1>1, <1>4, <1>9 DEF Homes
  <2>2. \A x \in Linked \ {e} : home[next'[x]] = home[x]
    BY <1>7, <1>9, <2>1 DEF Homes
  <2>3. Usable' = Usable
    BY <1>2 DEF Usable
  <2> QED
    BY <1>6, <1>9, <2>2, <2>3 DEF Homes
<1> QED
  BY <1>5, <1>6, <1>8, <1>10 DEF IInv, Rings

\* The nodes of h's ring but h itself go between g and its successor.
LEMMA SpliceKeeps ==
    ASSUME IInv, NEW h \in Heads, NEW g \in Heads, list_splice(h, g)
    PROVE  IInv'
<1> DEFINE first == next[h]  last == prev[h]  at == next[g]
<1>1. h \in Usable /\ g \in Usable /\ h # g /\ first # h
  BY DEF list_splice, list_empty
<1>2. /\ prev' = [prev EXCEPT ![first] = g, ![at] = last]
      /\ next' = [next EXCEPT ![g] = first, ![last] = at]
      /\ stale' = stale \cup {h}
  BY DEF list_splice, __list_splice
<1>3. /\ h \in Linked /\ g \in Linked /\ first \in Linked /\ last \in Linked /\ at \in Linked
      /\ prev[first] = h /\ next[last] = h /\ prev[at] = g
      /\ next[h] = first /\ prev[h] = last /\ next[g] = at
  BY <1>1, Apart
<1> HIDE DEF first, last, at
<1>4. PICK home : Homes(home)
  BY DEF IInv
<1>5. /\ home[h] = h /\ home[g] = g /\ home[first] = h /\ home[last] = h /\ home[at] = g
  BY <1>1, <1>3, <1>4 DEF Homes
<1>6. first # at /\ last # g /\ at # h /\ last # h
  BY <1>1, <1>3, <1>5
<1>7. Linked' = Linked \ {h} /\ Usable' = Usable \ {h}
  <2>1. \A e \in Entries : next'[e] # LIST_POISON <=> next[e] # LIST_POISON
    BY <1>2, <1>3, Apart, ListAssumption, SMTT(30) DEF Linked, Usable, IInv, PointersTyped, Nodes
  <2>2. Usable' = Usable \ {h}
    BY <1>2 DEF Usable
  <2> QED
    BY <2>1, <2>2, ListAssumption DEF Linked, Usable
<1>8. PointersTyped'
  BY <1>2, <1>3, Apart DEF IInv, PointersTyped
<1>9. /\ next'[g] = first /\ next'[last] = at /\ prev'[first] = g /\ prev'[at] = last
      /\ \A x \in Linked \ {g, last} : next'[x] = next[x]
      /\ \A x \in Linked \ {first, at} : prev'[x] = prev[x]
  BY <1>2, <1>3, <1>6, Apart DEF IInv, PointersTyped
<1>10. ASSUME NEW x \in Linked \ {h}
       PROVE  /\ next'[x] \in Linked \ {h} /\ prev'[next'[x]] = x
              /\ prev'[x] \in Linked \ {h} /\ next'[prev'[x]] = x
  <2>1. /\ next[x] = first => x = h
        /\ next[x] = at => x = g
        /\ next[x] = h => x = last
        /\ prev[x] = g => x = at
        /\ prev[x] = last => x = h
        /\ prev[x] = h => x = first
    BY <1>3, Apart
  <2>2. next'[x] \in Linked \ {h} /\ prev'[next'[x]] = x
    BY <1>1, <1>3, <1>6, <1>9, <2>1, Apart, SMTT(30)
  <2>3. prev'[x] \in Linked \ {h} /\ next'[prev'[x]] = x
    BY <1>1, <1>3, <1>6, <1>9, <2>1, Apart, SMTT(30)
  <2> QED
    BY <2>2, <2>3
<1> DEFINE new == [x \in Nodes |-> IF home[x] = h THEN g ELSE home[x]]
<1>11. /\ new \in [Nodes -> Nodes]
       /\ \A x \in Nodes : new[x] = IF home[x] = h THEN g ELSE home[x]
  BY <1>3, <1>4, Apart DEF Homes
<1> HIDE DEF new
<1>12. ASSUME NEW x \in Linked \ {h} PROVE new[next'[x]] = new[x]
  <2>1. x \in Nodes /\ first \in Nodes /\ at \in Nodes /\ next[x] \in Nodes
    BY <1>3, Apart
  <2>2. CASE x = g
    BY <1>5, <1>9, <1>11, <2>1, <2>2
  <2>3. CASE x = last
    BY <1>5, <1>9, <1>11, <2>1, <2>3
  <2>4. CASE x \notin {g, last}
    BY <1>4, <1>9, <1>11, <2>1, <2>4, SMTT(30) DEF Homes
  <2> QED
    BY <2>2, <2>3, <2>4
<1>13. \A k \in Usable \ {h} : new[k] = k
  BY <1>4, <1>11, Apart DEF Homes
<1>14. Homes(new)'
  BY <1>7, <1>11, <1>12, <1>13 DEF Homes, new
<1> QED
  BY <1>7, <1>8, <1>10, <1>14 DEF IInv, Rings

\* A head that was spliced away becomes a ring of its own.
LEMMA InitHeadKeeps ==
    ASSUME IInv, NEW h \in Heads, INIT_LIST_HEAD(h)
    PROVE  IInv'
<1>1. /\ h \in stale /\ next' = [next EXCEPT ![h] = h] /\ prev' = [prev EXCEPT ![h] = h]
      /\ stale' = stale \ {h}
  BY DEF INIT_LIST_HEAD
<1>2. h \in Nodes /\ h \notin Linked /\ PointersTyped'
  BY <1>1, ListAssumption DEF IInv, PointersTyped, Linked, Usable, Nodes
<1>3. Linked' = Linked \cup {h} /\ Usable' = Usable \cup {h}
  BY <1>1, <1>2, ListAssumption DEF IInv, PointersTyped, Linked, Usable, Nodes
<1>4. /\ next'[h] = h /\ prev'[h] = h
      /\ \A x \in Linked : next'[x] = next[x] /\ prev'[x] = prev[x]
  BY <1>1, <1>2, Apart DEF IInv, PointersTyped
<1>5. Rings'
  BY <1>3, <1>4, Apart, SMTT(30) DEF Rings
<1>6. PICK home : Homes(home)
  BY DEF IInv
<1> DEFINE new == [home EXCEPT ![h] = h]
<1>7. /\ new \in [Nodes -> Nodes] /\ new[h] = h
      /\ \A x \in Linked : new[x] = home[x]
  BY <1>2, <1>6, Apart DEF Homes
<1> HIDE DEF new
<1>8. \A x \in Linked \cup {h} : new[next'[x]] = new[x]
  BY <1>4, <1>6, <1>7, Apart DEF Homes
<1>9. \A k \in Usable \cup {h} : new[k] = k
  BY <1>6, <1>7, Apart DEF Homes
<1>10. Homes(new)'
  BY <1>3, <1>7, <1>8, <1>9 DEF Homes, new
<1> QED
  BY <1>2, <1>5, <1>10 DEF IInv

LEMMA NextIInv == IInv /\ [ListNext]_listVars => IInv'
<1> SUFFICES ASSUME IInv, [ListNext]_listVars PROVE IInv'
  OBVIOUS
<1>1. CASE UNCHANGED listVars
  BY <1>1 DEF listVars, IInv, PointersTyped, Rings, Homes, Linked, Usable
<1>2. ASSUME NEW e \in Entries, NEW h \in Heads, list_add(e, h) PROVE IInv'
  BY <1>2, Apart, AddKeeps DEF list_add
<1>3. ASSUME NEW e \in Entries, NEW h \in Heads, list_add_tail(e, h) PROVE IInv'
  BY <1>3, Apart, AddKeeps DEF list_add_tail
<1> QED
  BY <1>1, <1>2, <1>3, DelKeeps, SpliceKeeps, InitHeadKeeps DEF ListNext

\* Whatever is added, deleted, spliced and initialised, in whatever order, next and prev
\* of everything linked undo each other and lead to nothing that was deleted.
THEOREM StayRings == ListSpec => []Rings
<1>1. IInv => Rings
  BY DEF IInv
<1> QED
  BY InitIInv, NextIInv, <1>1, PTL DEF ListSpec
=============================================================================
