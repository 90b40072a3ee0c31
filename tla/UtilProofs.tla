----------------------------- MODULE UtilProofs -----------------------------
(***************************************************************************)
(* Proofs about the locked pages of secure_allocator (LockedPages.tla),    *)
(* for any blocks, addresses and page size, and about the counting         *)
(* semaphore of CSemaphore.tla, for any threads, grants and count.         *)
(***************************************************************************)
EXTENDS CSemaphore, LockedPages, FiniteSetTheorems, TLAPS

-----------------------------------------------------------------------------
\* The proofs, for any blocks and page size.
\* What the induction needs besides PagesInv: the states of the blocks.
BlockStates == {"free", "allocated", "locked", "cleared", "unlocked"}
PagesTypeOK == memory \in [Blocks -> BlockStates]
PagesIInv == PagesTypeOK /\ PagesInv

\* The holders of a page are finitely many.
LEMMA HoldersFinite == \A p : IsFiniteSet(Holders(p)) /\ Cardinality(Holders(p)) \in Nat
<1>1. \A p : Holders(p) \subseteq Blocks  BY DEF Holders
<1>2. \A p : IsFiniteSet(Holders(p))  BY <1>1, PagesAssumption, FS_Subset
<1> QED  BY <1>2, FS_CardinalityType

\* A step that takes a block neither into nor out of LockRange's care changes no holder.
LEMMA SameHolders ==
    ASSUME PagesTypeOK, NEW b \in Blocks, NEW s \in BlockStates,
           memory' = [memory EXCEPT ![b] = s],
           memory[b] \in {"locked", "cleared"} <=> s \in {"locked", "cleared"}
    PROVE  PagesTypeOK' /\ \A p : Holders(p)' = Holders(p)
<1>1. PagesTypeOK'  BY DEF PagesTypeOK
<1>2. ASSUME NEW a \in Blocks
      PROVE  memory'[a] \in {"locked", "cleared"} <=> memory[a] \in {"locked", "cleared"}
  BY <1>2 DEF PagesTypeOK
<1>3. \A p : Holders(p)' = Holders(p)  BY <1>2 DEF Holders
<1> QED  BY <1>1, <1>3

\* Such a step that leaves the manager alone keeps the invariant.
LEMMA Elsewhere ==
    ASSUME PagesIInv, NEW b \in Blocks, NEW s \in BlockStates,
           memory' = [memory EXCEPT ![b] = s],
           memory[b] \in {"locked", "cleared"} <=> s \in {"locked", "cleared"},
           UNCHANGED <<histogram, locked, refused>>
    PROVE  PagesIInv'
<1>1. PagesTypeOK' /\ \A p : Holders(p)' = Holders(p)  BY SameHolders, Zenon DEF PagesIInv
<1>2. AllPages' = AllPages  BY DEF AllPages
<1> QED  BY <1>1, <1>2 DEF PagesIInv, PagesInv

\* LockRange(b) adds b to the holders of its pages.
LEMMA LockHolders ==
    ASSUME PagesTypeOK, NEW b \in Blocks, LockRange(b)
    PROVE  /\ PagesTypeOK'
           /\ \A p : b \notin Holders(p)
           /\ \A p : Holders(p)' = IF p \in PagesOf(b) THEN Holders(p) \cup {b} ELSE Holders(p)
<1>1. PagesTypeOK'  BY DEF PagesTypeOK, LockRange, BlockStates
<1>2. memory[b] = "allocated" /\ memory'[b] = "locked"  BY DEF LockRange, PagesTypeOK
<1>3. \A a \in Blocks \ {b} : memory'[a] = memory[a]  BY DEF LockRange, PagesTypeOK
<1>4. \A p : b \notin Holders(p)  BY <1>2 DEF Holders
<1>5. ASSUME NEW p
      PROVE  Holders(p)' = IF p \in PagesOf(b) THEN Holders(p) \cup {b} ELSE Holders(p)
  BY <1>2, <1>3 DEF Holders
<1> QED  BY <1>1, <1>4, <1>5

\* UnlockRange(b) takes b from the holders of its pages.
LEMMA UnlockHolders ==
    ASSUME PagesTypeOK, NEW b \in Blocks, UnlockRange(b)
    PROVE  /\ PagesTypeOK'
           /\ \A p : b \in Holders(p) <=> p \in PagesOf(b)
           /\ \A p : Holders(p)' = Holders(p) \ {b}
<1>1. PagesTypeOK'  BY DEF PagesTypeOK, UnlockRange, BlockStates
<1>2. memory[b] = "cleared" /\ memory'[b] = "unlocked"  BY DEF UnlockRange, PagesTypeOK
<1>3. \A a \in Blocks \ {b} : memory'[a] = memory[a]  BY DEF UnlockRange, PagesTypeOK
<1>4. \A p : b \in Holders(p) <=> p \in PagesOf(b)  BY <1>2 DEF Holders
<1>5. ASSUME NEW p PROVE Holders(p)' = Holders(p) \ {b}
  BY <1>2, <1>3 DEF Holders
<1> QED  BY <1>1, <1>4, <1>5

\* LockRange keeps the counts right: a new page has one holder, an old one has one more.
LEMMA LockStep == ASSUME PagesIInv, NEW b \in Blocks, LockRange(b) PROVE PagesIInv'
<1> USE DEF PagesIInv
<1>1. PagesTypeOK' /\ (\A p : b \notin Holders(p))
      /\ \A p : Holders(p)' = IF p \in PagesOf(b) THEN Holders(p) \cup {b} ELSE Holders(p)
  BY LockHolders
<1>2. PagesOf(b) \subseteq AllPages /\ AllPages' = AllPages  BY DEF AllPages
<1>3. DOMAIN histogram' = DOMAIN histogram \cup PagesOf(b)  BY DEF LockRange
<1>4. locked' \cap refused' = {} /\ locked' \cup refused' = DOMAIN histogram'
  <2>1. PICK no \in SUBSET (PagesOf(b) \ DOMAIN histogram) :
            /\ refused' = refused \cup no
            /\ locked' = locked \cup ((PagesOf(b) \ DOMAIN histogram) \ no)
    BY DEF LockRange
  <2> QED  BY <2>1, <1>3 DEF PagesInv
<1>5. DOMAIN histogram' = {p \in AllPages : Holders(p)' # {}}
  BY <1>1, <1>2, <1>3 DEF PagesInv
<1>6. ASSUME NEW p \in DOMAIN histogram' PROVE histogram'[p] = Cardinality(Holders(p)')
  <2>1. CASE p \notin DOMAIN histogram
    <3>1. p \in PagesOf(b) /\ Holders(p) = {}  BY <2>1, <1>2, <1>3, <1>6 DEF PagesInv
    <3>2. Holders(p)' = {b}  BY <1>1, <3>1
    <3>3. histogram'[p] = 1  BY <2>1, <1>3, <1>6 DEF LockRange
    <3> QED  BY <3>2, <3>3, FS_Singleton
  <2>2. CASE p \in DOMAIN histogram /\ p \in PagesOf(b)
    <3>1. histogram[p] = Cardinality(Holders(p))  BY <2>2 DEF PagesInv
    <3>2. histogram'[p] = histogram[p] + 1  BY <2>2, <1>3 DEF LockRange
    <3>3. Cardinality(Holders(p) \cup {b}) = Cardinality(Holders(p)) + 1
      BY <1>1, HoldersFinite, FS_AddElement, Zenon
    <3> QED  BY <3>1, <3>2, <3>3, <1>1, <2>2, Zenon
  <2>3. CASE p \in DOMAIN histogram /\ p \notin PagesOf(b)
    <3>1. histogram'[p] = histogram[p]  BY <2>3, <1>3 DEF LockRange
    <3> QED  BY <3>1, <1>1, <2>3 DEF PagesInv
  <2> QED  BY <2>1, <2>2, <2>3
<1> QED  BY <1>1, <1>4, <1>5, <1>6 DEF PagesInv

\* UnlockRange keeps them right: the pages it drops had b as their only holder.
LEMMA UnlockStep == ASSUME PagesIInv, NEW b \in Blocks, UnlockRange(b) PROVE PagesIInv'
<1> USE DEF PagesIInv
<1>1. PagesTypeOK' /\ (\A p : b \in Holders(p) <=> p \in PagesOf(b))
      /\ \A p : Holders(p)' = Holders(p) \ {b}
  BY UnlockHolders
<1>2. AllPages' = AllPages  BY DEF AllPages
<1>3. DOMAIN histogram' = DOMAIN histogram \ LastOn(b)  BY DEF UnlockRange
<1>4. locked' \cap refused' = {} /\ locked' \cup refused' = DOMAIN histogram'
  BY <1>3 DEF UnlockRange, PagesInv
<1>5. ASSUME NEW p \in PagesOf(b), p \in DOMAIN histogram
      PROVE  Cardinality(Holders(p)') = histogram[p] - 1 /\ IsFiniteSet(Holders(p)')
  <2>1. b \in Holders(p) /\ Holders(p)' = Holders(p) \ {b}  BY <1>1
  <2>2. Cardinality(Holders(p) \ {b}) = Cardinality(Holders(p)) - 1 /\ IsFiniteSet(Holders(p) \ {b})
    BY <2>1, HoldersFinite, FS_RemoveElement
  <2> QED  BY <2>1, <2>2, <1>5 DEF PagesInv
<1>6. ASSUME NEW p \in DOMAIN histogram
      PROVE  p \in LastOn(b) <=> Holders(p)' = {}
  <2>1. CASE p \in PagesOf(b)
    <3>1. histogram[p] \in Nat  BY <1>6, HoldersFinite DEF PagesInv
    <3>2. Holders(p)' = {} <=> Cardinality(Holders(p)') = 0  BY <1>5, <1>6, <2>1, FS_EmptySet
    <3>3. Holders(p)' = {} <=> histogram[p] = 1  BY <3>1, <3>2, <1>5, <1>6, <2>1
    <3> QED  BY <3>3, <2>1, <1>6 DEF LastOn
  <2>2. CASE p \notin PagesOf(b)
    <3>1. Holders(p)' = Holders(p)  BY <1>1, <2>2
    <3>2. Holders(p) # {}  BY <1>6 DEF PagesInv
    <3> QED  BY <3>1, <3>2, <2>2 DEF LastOn
  <2> QED  BY <2>1, <2>2
<1>7. DOMAIN histogram' = {p \in AllPages : Holders(p)' # {}}
  <2>1. ASSUME NEW p \in AllPages, Holders(p)' # {} PROVE p \in DOMAIN histogram
    BY <2>1, <1>1 DEF PagesInv
  <2> QED  BY <2>1, <1>3, <1>6 DEF PagesInv
<1>8. ASSUME NEW p \in DOMAIN histogram' PROVE histogram'[p] = Cardinality(Holders(p)')
  <2>1. CASE p \in PagesOf(b)
    <3>1. histogram'[p] = histogram[p] - 1  BY <2>1, <1>3, <1>8 DEF UnlockRange
    <3> QED  BY <3>1, <1>3, <1>5, <1>8, <2>1
  <2>2. CASE p \notin PagesOf(b)
    <3>1. histogram'[p] = histogram[p]  BY <2>2, <1>3, <1>8 DEF UnlockRange
    <3>2. Holders(p)' = Holders(p)  BY <1>1, <2>2
    <3> QED  BY <3>1, <3>2, <1>3, <1>8 DEF PagesInv
  <2> QED  BY <2>1, <2>2
<1> QED  BY <1>1, <1>2, <1>4, <1>7, <1>8 DEF PagesInv

\* Page locks, for any blocks and any page size: LockedPageManager counts the blocks on
\* every page, so a page is locked exactly as long as some block needs it.
THEOREM PageCounts == PagesSpec => []PagesInv
<1>1. PagesInit => PagesIInv
  <2> SUFFICES ASSUME PagesInit PROVE PagesIInv  OBVIOUS
  <2>1. PagesTypeOK  BY DEF PagesInit, PagesTypeOK, BlockStates
  <2>2. \A p : Holders(p) = {}  BY DEF PagesInit, Holders
  <2>3. DOMAIN histogram = {}  BY DEF PagesInit
  <2> QED  BY <2>1, <2>2, <2>3 DEF PagesInit, PagesIInv, PagesInv
<1>2. PagesIInv /\ [PagesNext]_pagesVars => PagesIInv'
  <2> SUFFICES ASSUME PagesIInv, [PagesNext]_pagesVars PROVE PagesIInv'  OBVIOUS
  <2>1. ASSUME NEW b \in Blocks, Allocate(b) PROVE PagesIInv'
    BY <2>1, Elsewhere, Zenon DEF Allocate, BlockStates
  <2>2. ASSUME NEW b \in Blocks, LockRange(b) PROVE PagesIInv'  BY <2>2, LockStep
  <2>3. ASSUME NEW b \in Blocks, Clear(b) PROVE PagesIInv'  BY <2>3, Elsewhere, Zenon DEF Clear, BlockStates
  <2>4. ASSUME NEW b \in Blocks, UnlockRange(b) PROVE PagesIInv'  BY <2>4, UnlockStep
  <2>5. ASSUME NEW b \in Blocks, Free(b) PROVE PagesIInv'  BY <2>5, Elsewhere, Zenon DEF Free, BlockStates
  <2>6. CASE UNCHANGED pagesVars
    <3>1. (\A p : Holders(p)' = Holders(p)) /\ AllPages' = AllPages
      BY <2>6 DEF pagesVars, Holders, AllPages
    <3> QED  BY <2>6, <3>1 DEF pagesVars, PagesIInv, PagesTypeOK, PagesInv
  <2> QED  BY <2>1, <2>2, <2>3, <2>4, <2>5, <2>6 DEF PagesNext
<1>3. PagesIInv => PagesInv  BY DEF PagesIInv
<1> QED  BY <1>1, <1>2, <1>3, PTL DEF PagesSpec


-----------------------------------------------------------------------------
(* Sets and their sizes. *)

\* The size of a finite set when an element comes or goes.
LEMMA Sizes ==
    ASSUME NEW S, IsFiniteSet(S), NEW x
    PROVE  /\ Cardinality(S) \in Nat
           /\ x \notin S => Cardinality(S \cup {x}) = Cardinality(S) + 1
           /\ x \in S => Cardinality(S \ {x}) = Cardinality(S) - 1
           /\ x \in S => Cardinality(S) > 0
<1>1. Cardinality(S) \in Nat
  BY FS_CardinalityType
<1>2. x \notin S => Cardinality(S \cup {x}) = Cardinality(S) + 1
  BY FS_AddElement
<1>3. x \in S => Cardinality(S \ {x}) = Cardinality(S) - 1
  BY FS_RemoveElement
<1>4. x \in S => Cardinality(S) > 0
  BY <1>1, FS_EmptySet
<1> QED
  BY <1>1, <1>2, <1>3, <1>4

\* An element is exchanged for another one.
LEMMA Exchange ==
    ASSUME NEW S, IsFiniteSet(S), NEW x \in S, NEW y, y \notin S
    PROVE  Cardinality((S \ {x}) \cup {y}) = Cardinality(S)
<1>1. IsFiniteSet(S \ {x}) /\ y \notin S \ {x}
  BY FS_RemoveElement
<1>2. Cardinality((S \ {x}) \cup {y}) = Cardinality(S \ {x}) + 1
  BY <1>1, Sizes
<1>3. Cardinality(S \ {x}) = Cardinality(S) - 1 /\ Cardinality(S) \in Nat
  BY Sizes
<1> QED
  BY <1>2, <1>3

-----------------------------------------------------------------------------
(* Well-formedness. *)

LEMMA InitType == Init => TypeOK
  BY CSemaphoreAssumption DEF Init, TypeOK, InCall

\* A call record is not the record of a thread that is in no call.
LEMMA CallsRecords ==
    /\ NoCall \notin Calls
    /\ \A g, h \in Grant, op \in {"Acquire", "Release", "MoveTo", "Destroy"} :
          /\ [op |-> op, g |-> g, from |-> h] \in Calls
          /\ [op |-> op, g |-> g, from |-> h].g = g
          /\ [op |-> op, g |-> g, from |-> h].from = h
    /\ \A c \in Calls : c.g \in Grant /\ c.from \in Grant
  BY DEF Calls, NoCall

\* What another thread does to its own grants, and a wakeup, do not disturb a thread.
LEMMA Undisturbed ==
    ASSUME TypeOK, NEW u \in Thread, call'[u] = call[u],
           pc'[u] = "idle" <=> pc[u] = "idle", pc'[u] = "notify" <=> pc[u] = "notify",
           \A h \in Grant : Owner[h] = u =>
               /\ h \in sem => h \in sem'
               /\ h \in live => h \in live'
               /\ h \in held <=> h \in held'
    PROVE  InCall(u)'
<1>1. CASE pc[u] = "idle"
  BY <1>1 DEF TypeOK, InCall
<1>2. CASE pc[u] # "idle"
  <2>1. call[u] \in Calls /\ call[u].g \in Grant /\ call[u].from \in Grant
    BY <1>2, CallsRecords DEF TypeOK, InCall
  <2> QED
    BY <1>2, <2>1 DEF TypeOK, InCall
<1> QED
  BY <1>1, <1>2

\* wait for a grant of the calling thread.
LEMMA WaitType ==
    ASSUME TypeOK, NEW t \in Thread, NEW g \in Grant, Owner[g] = t, g \notin held,
           wait(t, g), live' \subseteq Grant, live \subseteq live',
           sem' \subseteq live', sem \subseteq sem', g \in sem'
    PROVE  TypeOK'
<1>1. value < 1 \/ value >= 1
  BY DEF TypeOK
<1>2. CASE value < 1
  <2>1. /\ pc' = [pc EXCEPT ![t] = "waiting"] /\ value' = value /\ held' = held
        /\ call' = [call EXCEPT ![t] = [op |-> "Acquire", g |-> g, from |-> g]]
    BY <1>2 DEF wait, TypeOK
  <2>2. InCall(t)'
    BY <2>1, CallsRecords, Zenon DEF TypeOK, InCall
  <2>3. \A u \in Thread \ {t} : InCall(u)'
    BY <2>1, Undisturbed DEF TypeOK
  <2> QED
    BY <2>1, <2>2, <2>3, CallsRecords, Zenon DEF TypeOK
<1>3. CASE value >= 1
  <2>1. /\ pc' = [pc EXCEPT ![t] = "idle"] /\ held' = held \cup {g}
        /\ call' = [call EXCEPT ![t] = NoCall]
        /\ value' = value - 1 /\ value' \in Nat
    BY <1>3 DEF wait, TypeOK
  <2>2. InCall(t)'
    BY <2>1, CallsRecords DEF TypeOK, InCall
  <2>3. \A u \in Thread \ {t} : InCall(u)'
    BY <2>1, Undisturbed DEF TypeOK
  <2> QED
    BY <2>1, <2>2, <2>3, CallsRecords DEF TypeOK
<1> QED
  BY <1>1, <1>2, <1>3

\* try_wait for a grant of a thread that is in no other call.
LEMMA TryWaitType ==
    ASSUME TypeOK, NEW t \in Thread, NEW g \in Grant, Owner[g] = t, pc[t] = "idle",
           try_wait(g), live' \subseteq Grant, live \subseteq live',
           sem' \subseteq live', sem \subseteq sem', g \in sem', UNCHANGED <<pc, call>>
    PROVE  TypeOK'
<1>1. value' \in Nat /\ held \subseteq held' /\ held' \subseteq held \cup {g}
  BY DEF TypeOK, try_wait
<1>2. InCall(t)'
  BY DEF TypeOK, InCall
<1>3. \A u \in Thread \ {t} : InCall(u)'
  BY <1>1, Undisturbed DEF TypeOK
<1> QED
  BY <1>1, <1>2, <1>3 DEF TypeOK

\* The grants stay well formed when a call is finished, and those of others the same.
LEMMA FinishType ==
    ASSUME TypeOK, NEW t \in Thread, NEW c \in Calls, Finish(c),
           Owner[c.g] = t, Owner[c.from] = t, c.g \in live
    PROVE  /\ live' \subseteq Grant /\ sem' \subseteq live' /\ held' \subseteq sem'
           /\ \A h \in Grant : Owner[h] # t =>
                 /\ h \in sem <=> h \in sem'
                 /\ h \in live <=> h \in live'
                 /\ h \in held <=> h \in held'
<1> DEFINE moved == IF c.op = "MoveTo" /\ c.from # c.g THEN {c.from} ELSE {}
<1>1. /\ held' = (held \ ({c.g} \cup moved)) \cup {g \in {c.g} : moved \cap held # {}}
      /\ sem' = IF c.op = "Release" THEN sem
                ELSE (sem \ ({c.g} \cup moved)) \cup {g \in {c.g} : moved \cap sem # {}}
      /\ live' = IF c.op = "Destroy" THEN live \ {c.g} ELSE live
  BY DEF Finish
<1>2. moved \subseteq {c.from} /\ c.g \notin moved
      /\ (c.op # "MoveTo" => moved = {})
  OBVIOUS
<1>3. c.op = "Destroy" => c.op # "MoveTo" /\ c.op # "Release"
  OBVIOUS
<1>4. c.op = "Release" => c.op # "MoveTo"
  OBVIOUS
<1> HIDE DEF moved
<1> QED
  BY <1>1, <1>2, <1>3, <1>4 DEF TypeOK

\* The calls that Release stands for, made on grants of the calling thread.
LEMMA ReleaseType ==
    ASSUME TypeOK, NEW t \in Thread, NEW c \in Calls, Release(t, c),
           Owner[c.g] = t, Owner[c.from] = t
    PROVE  TypeOK'
<1>1. pc[t] = "idle" /\ c.g \in live /\ c.from \in live
  BY DEF Release
<1>2. CASE c.g \in held
  <2>1. /\ value' = value + 1 /\ UNCHANGED <<live, sem, held>>
        /\ pc' = [pc EXCEPT ![t] = "notify"] /\ call' = [call EXCEPT ![t] = c]
    BY <1>2 DEF Release
  <2>2. InCall(t)'
    BY <1>1, <1>2, <2>1 DEF TypeOK, InCall
  <2>3. \A u \in Thread \ {t} : InCall(u)'
    BY <2>1, Undisturbed DEF TypeOK
  <2> QED
    BY <2>1, <2>2, <2>3 DEF TypeOK
<1>3. CASE c.g \notin held
  <2>1. Finish(c) /\ UNCHANGED <<value, pc, call>>
    BY <1>3 DEF Release
  <2>2. InCall(t)'
    BY <1>1, <2>1 DEF TypeOK, InCall
  <2>3. \A u \in Thread \ {t} : InCall(u)'
    BY <1>1, <2>1, FinishType, Undisturbed
  <2>4. live' \subseteq Grant /\ sem' \subseteq live' /\ held' \subseteq sem'
    BY <1>1, <2>1, FinishType
  <2> QED
    BY <2>1, <2>2, <2>3, <2>4 DEF TypeOK
<1> QED
  BY <1>2, <1>3

\* What notify_one does to the program counters.
LEMMA NotifyPc ==
    ASSUME TypeOK, NEW t \in Thread, notify_one(t)
    PROVE  /\ pc' \in [Thread -> {"idle", "waiting", "woken", "notify"}]
           /\ pc'[t] = "idle"
           /\ \A u \in Thread \ {t} :
                 pc'[u] = pc[u] \/ (pc[u] = "waiting" /\ pc'[u] = "woken")
<1>1. CASE pc' = [pc EXCEPT ![t] = "idle"]
  BY <1>1 DEF TypeOK
<1>2. ASSUME NEW u \in At("waiting"), pc' = [pc EXCEPT ![t] = "idle", ![u] = "woken"]
      PROVE  /\ pc' \in [Thread -> {"idle", "waiting", "woken", "notify"}]
             /\ pc'[t] = "idle"
             /\ \A v \in Thread \ {t} :
                 pc'[v] = pc[v] \/ (pc[v] = "waiting" /\ pc'[v] = "woken")
  <2>1. u \in Thread /\ pc[u] = "waiting" /\ u # t
    BY DEF At, notify_one
  <2> QED
    BY <1>2, <2>1 DEF TypeOK
<1> QED
  BY <1>1, <1>2 DEF notify_one

LEMMA NotifyType ==
    ASSUME TypeOK, NEW t \in Thread, notify_one(t)
    PROVE  TypeOK'
<1>1. /\ call[t] \in Calls /\ call[t].g \in live
      /\ Owner[call[t].g] = t /\ Owner[call[t].from] = t
  BY DEF notify_one, TypeOK, InCall
<1>2. Finish(call[t]) /\ call' = [call EXCEPT ![t] = NoCall] /\ value' = value
  BY DEF notify_one
<1>3. InCall(t)'
  BY <1>2, NotifyPc DEF InCall, TypeOK
<1>4. ASSUME NEW u \in Thread \ {t}
      PROVE  InCall(u)'
  <2>1. call'[u] = call[u]
    BY <1>2 DEF TypeOK
  <2>2. (pc'[u] = "idle" <=> pc[u] = "idle") /\ (pc'[u] = "notify" <=> pc[u] = "notify")
    BY NotifyPc
  <2> QED
    BY <1>1, <1>2, <2>1, <2>2, FinishType, Undisturbed
<1>5. live' \subseteq Grant /\ sem' \subseteq live' /\ held' \subseteq sem'
  BY <1>1, <1>2, FinishType
<1> QED
  BY <1>2, <1>3, <1>4, <1>5, NotifyPc DEF TypeOK

LEMMA WokenType ==
    ASSUME TypeOK, NEW t \in Thread, Woken(t)
    PROVE  TypeOK'
<1>1. call[t].g \in Grant /\ Owner[call[t].g] = t /\ call[t].g \in sem \ held
  BY CallsRecords DEF TypeOK, InCall, Woken
<1> QED
  BY <1>1, WaitType DEF Woken, TypeOK

LEMMA SpuriousType ==
    ASSUME TypeOK, NEW t \in Thread, Spurious(t)
    PROVE  TypeOK'
<1>1. pc' \in [Thread -> {"idle", "waiting", "woken", "notify"}]
      /\ UNCHANGED <<value, live, sem, held, call>>
  BY DEF Spurious, TypeOK
<1>2. \A u \in Thread : InCall(u)'
  BY <1>1, Undisturbed DEF Spurious, TypeOK
<1> QED
  BY <1>1, <1>2 DEF TypeOK

\* The steps that a thread takes with a grant of its own.
LEMMA GrantType ==
    ASSUME TypeOK, NEW t \in Thread, NEW g \in Mine(t)
    PROVE  /\ ConstructEmpty(t, g) => TypeOK'
           /\ Construct(t, g) => TypeOK'
           /\ ConstructTry(t, g) => TypeOK'
           /\ Acquire(t, g) => TypeOK'
           /\ TryAcquire(t, g) => TypeOK'
<1>1. g \in Grant /\ Owner[g] = t
  BY DEF Mine
<1>2. ASSUME ConstructEmpty(t, g) PROVE TypeOK'
  <2>1. \A u \in Thread : InCall(u)'
    BY <1>2, Undisturbed DEF ConstructEmpty
  <2> QED
    BY <1>1, <1>2, <2>1 DEF ConstructEmpty, TypeOK
<1>3. Construct(t, g) => TypeOK'
  BY <1>1, WaitType DEF Construct, TypeOK
<1>4. ConstructTry(t, g) => TypeOK'
  BY <1>1, TryWaitType DEF ConstructTry, TypeOK
<1>5. Acquire(t, g) => TypeOK'
  BY <1>1, WaitType DEF Acquire, TypeOK
<1>6. TryAcquire(t, g) => TypeOK'
  BY <1>1, TryWaitType DEF TryAcquire, TypeOK
<1> QED
  BY <1>2, <1>3, <1>4, <1>5, <1>6

LEMMA NextType == TypeOK /\ [Next]_vars => TypeOK'
<1> SUFFICES ASSUME TypeOK, [Next]_vars PROVE TypeOK'
  OBVIOUS
<1>1. CASE UNCHANGED vars
  BY <1>1 DEF vars, TypeOK, InCall
<1>2. ASSUME NEW t \in Thread, NEW g \in Mine(t), NEW from \in Mine(t),
             NEW op \in {"Release", "MoveTo", "Destroy"},
             Release(t, [op |-> op, g |-> g, from |-> from])
      PROVE  TypeOK'
  BY <1>2, CallsRecords, ReleaseType, Zenon DEF Mine
<1> QED
  BY <1>1, <1>2, GrantType, NotifyType, WokenType, SpuriousType, Zenon DEF Next

\* The grants, the semaphore and the calls in progress stay well formed.
THEOREM TypeCorrect == Spec => []TypeOK
  BY InitType, NextType, PTL DEF Spec

-----------------------------------------------------------------------------
(* No unit is lost. *)

\* The grants that hold a unit are finitely many.
LEMMA HoldingFinite ==
    ASSUME TypeOK
    PROVE  IsFiniteSet(Holding) /\ Holding \subseteq Grant /\ Cardinality(Holding) \in Nat
<1>1. Holding \subseteq Grant
  BY DEF Holding, TypeOK
<1> QED
  BY <1>1, FS_Subset, FS_CardinalityType, CSemaphoreAssumption

\* A unit goes from the semaphore to a grant or comes back, or nothing changes hands.
Transfer(g) ==
    \/ value' = value /\ Cardinality(Holding') = Cardinality(Holding)
    \/ value' = value - 1 /\ g \notin Holding /\ Holding' = Holding \cup {g}
    \/ value' = value + 1 /\ g \in Holding /\ Holding' = Holding \ {g}

LEMMA TransferConserves ==
    ASSUME TypeOK, Conservation, NEW g, Transfer(g)
    PROVE  Conservation'
<1>1. value \in Nat /\ Count \in Nat /\ Cardinality(Holding) \in Nat
  BY HoldingFinite, CSemaphoreAssumption DEF TypeOK
<1>2. /\ g \notin Holding => Cardinality(Holding \cup {g}) = Cardinality(Holding) + 1
      /\ g \in Holding => Cardinality(Holding \ {g}) = Cardinality(Holding) - 1
  BY HoldingFinite, Sizes
<1>3. CASE value' = value /\ Cardinality(Holding') = Cardinality(Holding)
  BY <1>3 DEF Conservation
<1>4. CASE value' = value - 1 /\ Cardinality(Holding') = Cardinality(Holding) + 1
  BY <1>1, <1>4 DEF Conservation
<1>5. CASE value' = value + 1 /\ Cardinality(Holding') = Cardinality(Holding) - 1
  BY <1>1, <1>5 DEF Conservation
<1> QED
  BY <1>2, <1>3, <1>4, <1>5 DEF Transfer

\* The holding grants when nobody enters or leaves post.
LEMMA SamePosts ==
    ASSUME TypeOK, NEW t \in Thread, pc[t] # "notify", pc'[t] # "notify",
           \A u \in Thread \ {t} : pc'[u] = pc[u] /\ call'[u] = call[u],
           held' \subseteq Grant
    PROVE  Holding' = {g \in held' : Owner[g] = t \/ ~ (pc[Owner[g]] = "notify"
                                                       /\ call[Owner[g]].g = g)}
  BY CSemaphoreAssumption DEF Holding

LEMMA WaitTransfers ==
    ASSUME TypeOK, NEW t \in Thread, NEW g \in Grant, Owner[g] = t, g \notin held,
           pc[t] # "notify", wait(t, g)
    PROVE  Transfer(g)
<1>1. value < 1 \/ value >= 1
  BY DEF TypeOK
<1>2. CASE value < 1
  <2>1. /\ value' = value /\ held' = held /\ pc'[t] # "notify"
        /\ \A u \in Thread \ {t} : pc'[u] = pc[u] /\ call'[u] = call[u]
    BY <1>2 DEF wait, TypeOK
  <2>2. Holding' = Holding
    BY <2>1, SamePosts, CSemaphoreAssumption DEF Holding, TypeOK
  <2> QED
    BY <2>1, <2>2 DEF Transfer
<1>3. CASE value >= 1
  <2>1. /\ value' = value - 1 /\ held' = held \cup {g} /\ pc'[t] # "notify"
        /\ \A u \in Thread \ {t} : pc'[u] = pc[u] /\ call'[u] = call[u]
    BY <1>3 DEF wait, TypeOK
  <2>2. Holding' = Holding \cup {g} /\ g \notin Holding
    BY <2>1, SamePosts, CSemaphoreAssumption, SMTT(30) DEF Holding, TypeOK
  <2> QED
    BY <2>1, <2>2 DEF Transfer
<1> QED
  BY <1>1, <1>2, <1>3

LEMMA TryWaitTransfers ==
    ASSUME TypeOK, NEW t \in Thread, NEW g \in Grant, Owner[g] = t, pc[t] = "idle",
           g \notin held, try_wait(g), UNCHANGED <<pc, call>>
    PROVE  Transfer(g)
<1>1. CASE value' = value /\ held' = held
  <2>1. Holding' = Holding
    BY <1>1 DEF Holding
  <2> QED
    BY <1>1, <2>1 DEF Transfer
<1>2. CASE value' = value - 1 /\ held' = held \cup {g}
  <2>1. Holding' = Holding \cup {g} /\ g \notin Holding
    BY <1>2 DEF Holding
  <2> QED
    BY <1>2, <2>1 DEF Transfer
<1> QED
  BY <1>1, <1>2 DEF try_wait

\* The grants with a unit at the end of a call: the moved one is replaced by c.g.
LEMMA FinishHeld ==
    ASSUME NEW c \in Calls, Finish(c)
    PROVE  \/ held' = held \ {c.g}
           \/ c.from \in held /\ c.from # c.g /\ held' = (held \ {c.g, c.from}) \cup {c.g}
<1>1. CASE c.op = "MoveTo" /\ c.from # c.g
  BY <1>1 DEF Finish
<1>2. CASE ~ (c.op = "MoveTo" /\ c.from # c.g)
  BY <1>2 DEF Finish
<1> QED
  BY <1>1, <1>2

\* The end of a call whose grant c.g has no unit any more, or never had one.
LEMMA FinishTransfers ==
    ASSUME TypeOK, TypeOK', NEW t \in Thread, NEW c \in Calls, Finish(c), value' = value,
           Owner[c.g] = t, Owner[c.from] = t, c.g \notin Holding,
           \A h \in held \ {c.g} : Owner[h] = t => h \in Holding,
           \A h \in held' : Owner[h] = t => h \in Holding',
           \A h \in Grant : Owner[h] # t => (h \in Holding <=> h \in Holding')
    PROVE  Transfer(c.g)
<1>1. /\ Holding \subseteq held /\ Holding' \subseteq held'
      /\ held \subseteq Grant /\ held' \subseteq Grant
  BY DEF Holding, TypeOK
<1>2. CASE held' = held \ {c.g}
  <2>1. Holding' = Holding
    BY <1>1, <1>2
  <2> QED
    BY <2>1 DEF Transfer
<1>3. CASE c.from \in held /\ c.from # c.g /\ held' = (held \ {c.g, c.from}) \cup {c.g}
  <2>1. c.from \in Holding /\ Holding' = (Holding \ {c.from}) \cup {c.g}
    BY <1>1, <1>3
  <2>2. Cardinality(Holding') = Cardinality(Holding)
    BY <2>1, HoldingFinite, Exchange
  <2> QED
    BY <2>2 DEF Transfer
<1> QED
  BY <1>2, <1>3, FinishHeld

LEMMA NotifyTransfers ==
    ASSUME TypeOK, NEW t \in Thread, notify_one(t)
    PROVE  \E g : Transfer(g)
<1> DEFINE c == call[t]
<1>1. /\ c \in Calls /\ c.g \in held /\ Owner[c.g] = t /\ Owner[c.from] = t /\ pc[t] = "notify"
      /\ Finish(c) /\ value' = value /\ call' = [call EXCEPT ![t] = NoCall]
  BY DEF notify_one, TypeOK, InCall
<1>2. TypeOK'
  BY NotifyType
<1>3. c.g \notin Holding
  BY <1>1 DEF Holding
<1>4. \A h \in held \ {c.g} : Owner[h] = t => h \in Holding
  BY DEF Holding
<1>5. \A h \in held' : Owner[h] = t => h \in Holding'
  BY NotifyPc DEF Holding
<1>6. ASSUME NEW h \in Grant, Owner[h] # t
      PROVE  h \in Holding <=> h \in Holding'
  <2>1. Owner[h] \in Thread
    BY CSemaphoreAssumption
  <2>2. call'[Owner[h]] = call[Owner[h]]
    BY <1>1, <1>6, <2>1 DEF TypeOK
  <2>3. pc'[Owner[h]] = "notify" <=> pc[Owner[h]] = "notify"
    BY <1>6, <2>1, NotifyPc
  <2>4. h \in held <=> h \in held'
    BY <1>1, <1>6, FinishType DEF TypeOK
  <2> QED
    BY <2>2, <2>3, <2>4 DEF Holding
<1>7. Transfer(c.g)
  BY <1>1, <1>2, <1>3, <1>4, <1>5, <1>6, FinishTransfers
<1> QED
  BY <1>7

LEMMA ReleaseTransfers ==
    ASSUME TypeOK, NEW t \in Thread, NEW c \in Calls, Release(t, c),
           Owner[c.g] = t, Owner[c.from] = t
    PROVE  Transfer(c.g)
<1>1. pc[t] = "idle" /\ c.g \in live
  BY DEF Release
<1>2. CASE c.g \in held
  <2>1. /\ value' = value + 1 /\ UNCHANGED <<live, sem, held>>
        /\ pc' = [pc EXCEPT ![t] = "notify"] /\ call' = [call EXCEPT ![t] = c]
    BY <1>2 DEF Release
  <2>2. c.g \in Holding
    BY <1>1, <1>2 DEF Holding
  <2>3. ASSUME NEW h \in held PROVE h \in Holding' <=> h \in Holding /\ h # c.g
    <3>1. Owner[h] \in Thread
      BY CSemaphoreAssumption DEF TypeOK
    <3>2. CASE Owner[h] = t
      BY <1>1, <2>1, <3>2 DEF Holding, TypeOK
    <3>3. CASE Owner[h] # t
      BY <2>1, <3>1, <3>3 DEF Holding, TypeOK
    <3> QED
      BY <3>2, <3>3
  <2>4. Holding' = Holding \ {c.g}
    BY <2>1, <2>3 DEF Holding
  <2> QED
    BY <2>1, <2>2, <2>4 DEF Transfer
<1>3. CASE c.g \notin held
  <2>1. Finish(c) /\ UNCHANGED <<value, pc, call>>
    BY <1>3 DEF Release
  <2>2. c.g \notin Holding
    BY <1>3 DEF Holding
  <2>3. \A h \in held \ {c.g} : Owner[h] = t => h \in Holding
    BY <1>1 DEF Holding
  <2>4. \A h \in held' : Owner[h] = t => h \in Holding'
    BY <1>1, <2>1 DEF Holding
  <2>5. \A h \in Grant : Owner[h] # t => (h \in Holding <=> h \in Holding')
    BY <1>1, <2>1, FinishType DEF Holding
  <2>6. TypeOK'
    BY ReleaseType
  <2> QED
    BY <2>1, <2>2, <2>3, <2>4, <2>5, <2>6, FinishTransfers
<1> QED
  BY <1>2, <1>3

LEMMA NextTransfers ==
    ASSUME TypeOK, [Next]_vars
    PROVE  \E g : Transfer(g)
<1>1. CASE UNCHANGED <<value, held, pc, call>>
  BY <1>1 DEF Transfer, Holding
<1>2. ASSUME NEW t \in Thread, Spurious(t) PROVE \E g : Transfer(g)
  <2>1. value' = value /\ held' = held /\ call' = call
    BY <1>2 DEF Spurious
  <2>2. \A u \in Thread : pc'[u] = "notify" <=> pc[u] = "notify"
    BY <1>2 DEF Spurious, TypeOK
  <2>3. Holding' = Holding
    BY <2>1, <2>2, CSemaphoreAssumption DEF Holding, TypeOK
  <2> QED
    BY <2>1, <2>3 DEF Transfer
<1>3. ASSUME NEW t \in Thread, Woken(t) PROVE \E g : Transfer(g)
  <2>1. call[t].g \in Grant /\ Owner[call[t].g] = t /\ call[t].g \notin held
    BY <1>3, CallsRecords DEF TypeOK, InCall, Woken
  <2> QED
    BY <1>3, <2>1, WaitTransfers DEF Woken
<1>4. ASSUME NEW t \in Thread, NEW g \in Mine(t), NEW from \in Mine(t),
             NEW op \in {"Release", "MoveTo", "Destroy"},
             Release(t, [op |-> op, g |-> g, from |-> from])
      PROVE  \E h : Transfer(h)
  BY <1>4, CallsRecords, ReleaseTransfers, Zenon DEF Mine
<1>5. ASSUME NEW t \in Thread, NEW g \in Mine(t),
             Construct(t, g) \/ ConstructTry(t, g) \/ Acquire(t, g) \/ TryAcquire(t, g)
      PROVE  \E h : Transfer(h)
  <2>1. g \in Grant /\ Owner[g] = t /\ g \notin held /\ pc[t] = "idle"
    BY <1>5 DEF Mine, Construct, ConstructTry, Acquire, TryAcquire, TypeOK
  <2>2. wait(t, g) \/ (try_wait(g) /\ UNCHANGED <<pc, call>>)
    BY <1>5 DEF Construct, ConstructTry, Acquire, TryAcquire
  <2> QED
    BY <2>1, <2>2, WaitTransfers, TryWaitTransfers
<1>6. \A t \in Thread : \A g \in Mine(t) : ConstructEmpty(t, g) => \E h : Transfer(h)
  BY <1>1 DEF ConstructEmpty
<1> QED
  BY <1>1, <1>2, <1>3, <1>4, <1>5, <1>6, NotifyTransfers, Zenon DEF Next, vars

\* Value and grants together always make up Count, so at most Count grants have a unit:
\* for every number of threads and grants, and with MoveTo and the destructor.
THEOREM Conserved == Spec => []Conservation
<1>1. Init => Conservation
  <2> SUFFICES ASSUME Init PROVE Conservation
    OBVIOUS
  <2>1. Holding = {} /\ value = Count
    BY DEF Init, Holding
  <2> QED
    BY <2>1, FS_EmptySet, CSemaphoreAssumption DEF Conservation
<1>2. TypeOK /\ Conservation /\ [Next]_vars => Conservation'
  BY NextTransfers, TransferConserves
<1> QED
  BY <1>1, <1>2, TypeCorrect, PTL DEF Spec

-----------------------------------------------------------------------------
(* No wakeup is lost. *)

LEMMA AtFinite ==
    ASSUME NEW p
    PROVE  IsFiniteSet(At(p)) /\ Cardinality(At(p)) \in Nat
<1>1. At(p) \subseteq Thread
  BY DEF At
<1> QED
  BY <1>1, FS_Subset, FS_CardinalityType, CSemaphoreAssumption

\* A thread that finds no unit and sleeps, finds the value at 0.
LEMMA WaitKeepsWakeups ==
    ASSUME TypeOK, NoWakeupLost, NEW t \in Thread, NEW g, pc[t] \in {"idle", "woken"},
           wait(t, g)
    PROVE  NoWakeupLost'
<1> DEFINE W == Cardinality(At("woken"))  N == Cardinality(At("notify"))
<1>0. W \in Nat /\ N \in Nat /\ W' \in Nat /\ N' \in Nat /\ value \in Nat
  <2>1. \A p : Cardinality(At(p)) \in Nat
    BY AtFinite
  <2>2. IsFiniteSet(At("woken")') /\ IsFiniteSet(At("notify")')
    BY FS_Subset, CSemaphoreAssumption DEF At
  <2> QED
    BY <2>1, <2>2, FS_CardinalityType DEF TypeOK
<1>1. CASE value < 1
  <2>1. value' = 0
    BY <1>0, <1>1 DEF wait
  <2> QED
    BY <1>0, <2>1 DEF NoWakeupLost
<1>2. CASE value >= 1
  <2>1. value' = value - 1 /\ pc' = [pc EXCEPT ![t] = "idle"]
    BY <1>0, <1>2 DEF wait
  <2>2. CASE pc[t] = "idle"
    <3>1. pc' = pc
      BY <2>1, <2>2 DEF TypeOK
    <3>2. W' = W /\ N' = N /\ At("waiting")' = At("waiting")
      BY <3>1 DEF At
    <3> HIDE DEF W, N
    <3>3. At("waiting") # {} => value <= W + N
      BY DEF NoWakeupLost, W, N
    <3>4. At("waiting")' # {} => value' <= W' + N'
      BY <1>0, <2>1, <3>2, <3>3
    <3> QED
      BY <3>4 DEF NoWakeupLost, W, N
  <2>3. CASE pc[t] = "woken"
    <3>0. /\ At("woken")' = At("woken") \ {t} /\ t \in At("woken")
          /\ At("notify")' = At("notify") /\ At("waiting")' = At("waiting")
      BY <2>1, <2>3 DEF At, TypeOK
    <3>1. W' = W - 1 /\ At("waiting")' = At("waiting")
      BY <3>0, AtFinite, Sizes
    <3>2. N' = N
      BY <3>0
    <3> HIDE DEF W, N
    <3>3. At("waiting") # {} => value <= W + N
      BY DEF NoWakeupLost, W, N
    <3>4. At("waiting")' # {} => value' <= W' + N'
      BY <1>0, <2>1, <3>1, <3>2, <3>3
    <3> QED
      BY <3>4 DEF NoWakeupLost, W, N
  <2> QED
    BY <2>2, <2>3
<1> QED
  BY <1>0, <1>1, <1>2

LEMMA TryWaitKeepsWakeups ==
    ASSUME TypeOK, NoWakeupLost, NEW g, try_wait(g), pc' = pc
    PROVE  NoWakeupLost'
<1> DEFINE W == Cardinality(At("woken"))  N == Cardinality(At("notify"))
<1>1. W \in Nat /\ N \in Nat /\ value \in Nat /\ value' \in Int /\ value' <= value
  BY AtFinite DEF try_wait, TypeOK
<1>2. W' = W /\ N' = N /\ At("waiting")' = At("waiting")
  BY DEF At
<1> HIDE DEF W, N
<1>3. At("waiting") # {} => value <= W + N
  BY DEF NoWakeupLost, W, N
<1>4. At("waiting")' # {} => value' <= W' + N'
  BY <1>1, <1>2, <1>3
<1> QED
  BY <1>4 DEF NoWakeupLost, W, N

\* A unit that is posted has its notification pending.
LEMMA ReleaseKeepsWakeups ==
    ASSUME TypeOK, NoWakeupLost, NEW t \in Thread, NEW c, Release(t, c)
    PROVE  NoWakeupLost'
<1> DEFINE W == Cardinality(At("woken"))  N == Cardinality(At("notify"))
<1>1. W \in Nat /\ N \in Nat /\ value \in Nat /\ pc[t] = "idle"
  BY AtFinite DEF Release, TypeOK
<1>2. CASE c.g \in held
  <2>1. value' = value + 1 /\ pc' = [pc EXCEPT ![t] = "notify"]
    BY <1>2 DEF Release
  <2>0. /\ At("notify")' = At("notify") \cup {t} /\ t \notin At("notify")
        /\ At("woken")' = At("woken") /\ At("waiting")' = At("waiting")
    BY <1>1, <2>1 DEF At, TypeOK
  <2>2. N' = N + 1 /\ At("waiting")' = At("waiting")
    BY <2>0, AtFinite, Sizes
  <2>3. W' = W
    BY <2>0
  <2> HIDE DEF W, N
  <2>4. At("waiting") # {} => value <= W + N
    BY DEF NoWakeupLost, W, N
  <2>5. At("waiting")' # {} => value' <= W' + N'
    BY <1>1, <2>1, <2>2, <2>3, <2>4
  <2> QED
    BY <2>5 DEF NoWakeupLost, W, N
<1>3. CASE c.g \notin held
  BY <1>3 DEF Release, NoWakeupLost, At
<1> QED
  BY <1>2, <1>3

\* The notification wakes a thread, unless nobody waits.
LEMMA NotifyKeepsWakeups ==
    ASSUME TypeOK, NoWakeupLost, NEW t \in Thread, notify_one(t)
    PROVE  NoWakeupLost'
<1> DEFINE W == Cardinality(At("woken"))  N == Cardinality(At("notify"))
<1>1. W \in Nat /\ N \in Nat /\ value \in Nat /\ value' = value /\ pc[t] = "notify"
  BY AtFinite DEF notify_one, TypeOK
<1>2. CASE At("waiting") = {}
  <2>1. At("waiting")' = {}
    BY <1>2, NotifyPc DEF At
  <2> QED
    BY <2>1 DEF NoWakeupLost
<1>3. CASE At("waiting") # {}
  <2>1. PICK u \in At("waiting") : pc' = [pc EXCEPT ![t] = "idle", ![u] = "woken"]
    BY <1>3 DEF notify_one
  <2>2. u \in Thread /\ pc[u] = "waiting" /\ u # t
    BY <1>1 DEF At
  <2>3. At("woken")' = At("woken") \cup {u} /\ u \notin At("woken")
    BY <1>1, <2>1, <2>2 DEF At, TypeOK
  <2>4. At("notify")' = At("notify") \ {t} /\ t \in At("notify")
    BY <1>1, <2>1, <2>2 DEF At, TypeOK
  <2>5. W' = W + 1 /\ N' = N - 1
    BY <2>3, <2>4, AtFinite, Sizes
  <2> HIDE DEF W, N
  <2>6. value <= W + N
    BY <1>3 DEF NoWakeupLost, W, N
  <2>7. value' <= W' + N'
    BY <1>1, <2>5, <2>6
  <2> QED
    BY <2>7 DEF NoWakeupLost, W, N
<1> QED
  BY <1>2, <1>3

LEMMA SpuriousKeepsWakeups ==
    ASSUME TypeOK, NoWakeupLost, NEW t \in Thread, Spurious(t)
    PROVE  NoWakeupLost'
<1> DEFINE W == Cardinality(At("woken"))  N == Cardinality(At("notify"))
<1>1. W \in Nat /\ N \in Nat /\ value \in Nat /\ value' = value /\ pc[t] = "waiting"
  BY AtFinite DEF Spurious, TypeOK
<1>0. /\ At("woken")' = At("woken") \cup {t} /\ t \notin At("woken")
      /\ At("notify")' = At("notify")
  BY <1>1 DEF At, TypeOK, Spurious
<1>2. W' = W + 1
  BY <1>0, AtFinite, Sizes
<1>3. N' = N
  BY <1>0
<1>4. value <= W + N
  BY <1>1 DEF NoWakeupLost, At
<1> HIDE DEF W, N
<1>5. value' <= W' + N'
  BY <1>1, <1>2, <1>3, <1>4
<1> QED
  BY <1>5 DEF NoWakeupLost, W, N

\* No thread sleeps in CSemaphore::wait while there is a unit that nobody was woken for,
\* for every number of threads: the mutex need not be held for notify_one.
THEOREM WakeupsKept == Spec => []NoWakeupLost
<1>1. Init => NoWakeupLost
  BY DEF Init, NoWakeupLost, At
<1>2. ASSUME TypeOK, NoWakeupLost, [Next]_vars PROVE NoWakeupLost'
  <2>1. CASE UNCHANGED <<value, pc>>
    <3>2. At("waiting")' = At("waiting") /\ At("woken")' = At("woken")
          /\ At("notify")' = At("notify")
      BY <2>1 DEF At
    <3> QED
      BY <1>2, <2>1, <3>2 DEF NoWakeupLost
  <2>2. ASSUME NEW t \in Thread, NEW g \in Mine(t), Construct(t, g) \/ Acquire(t, g)
        PROVE  NoWakeupLost'
    BY <1>2, <2>2, WaitKeepsWakeups DEF Construct, Acquire
  <2>3. ASSUME NEW t \in Thread, NEW g \in Mine(t), ConstructTry(t, g) \/ TryAcquire(t, g)
        PROVE  NoWakeupLost'
    BY <1>2, <2>3, TryWaitKeepsWakeups DEF ConstructTry, TryAcquire
  <2>4. ASSUME NEW t \in Thread, Woken(t) PROVE NoWakeupLost'
    BY <1>2, <2>4, WaitKeepsWakeups DEF Woken
  <2>5. \A t \in Thread : \A g \in Mine(t) : ConstructEmpty(t, g) => NoWakeupLost'
    BY <2>1 DEF ConstructEmpty
  <2> QED
    BY <1>2, <2>1, <2>2, <2>3, <2>4, <2>5, ReleaseKeepsWakeups, NotifyKeepsWakeups, Zenon,
       SpuriousKeepsWakeups DEF Next, vars
<1> QED
  BY <1>1, <1>2, TypeCorrect, PTL DEF Spec

\* CSemaphore and its grants keep their units and their wakeups, for every number of
\* threads, grants and units.
THEOREM Invariance == Spec => []SemInv
<1>1. TypeOK /\ Conservation /\ NoWakeupLost => SemInv
  BY DEF SemInv
<1> QED
  BY <1>1, TypeCorrect, Conserved, WakeupsKept, PTL
=============================================================================
