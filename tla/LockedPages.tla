----------------------------- MODULE LockedPages -----------------------------
(***************************************************************************)
(* secure_allocator over LockedPageManager (util/serialize/allocators.h):  *)
(* memory with secrets is kept out of swap.  mlock does not stack, so the  *)
(* manager counts the ranges on each page.  Threads allocate and free      *)
(* blocks in any order; LockRange and UnlockRange hold the mutex and are   *)
(* atomic.  mlock may refuse a page, which the manager ignores.            *)
(***************************************************************************)
EXTENDS Integers, FiniteSets

CONSTANTS Blocks,      \* blocks of memory that may be allocated
          page_size,
          Base, Size   \* the address and the number of bytes of a block

ASSUME PagesAssumption ==
    /\ IsFiniteSet(Blocks)
    /\ page_size \in Nat \ {0}
    /\ Base \in [Blocks -> Nat] /\ Size \in [Blocks -> Nat]

VARIABLES memory,      \* per block: free, allocated, locked, cleared or unlocked
          histogram,   \* page -> lock count
          locked,      \* pages that mlock has locked
          refused      \* counted pages that mlock did not lock

pagesVars == <<memory, histogram, locked, refused>>

\* The pages from start_page to end_page; an empty range has none.
PagesOf(b) ==
    IF Size[b] = 0 THEN {}
    ELSE (Base[b] \div page_size) .. ((Base[b] + Size[b] - 1) \div page_size)

Overlap(a, b) ==
    Size[a] > 0 /\ Size[b] > 0 /\ Base[a] < Base[b] + Size[b] /\ Base[b] < Base[a] + Size[a]

PagesInit ==
    /\ memory = [b \in Blocks |-> "free"]
    /\ histogram = [p \in {} |-> 0]
    /\ locked = {} /\ refused = {}

\* std::allocator::allocate gives memory that nobody has.
Allocate(b) ==
    /\ memory[b] = "free"
    /\ \A a \in Blocks \ {b} : memory[a] # "free" => ~Overlap(a, b)
    /\ memory' = [memory EXCEPT ![b] = "allocated"]
    /\ UNCHANGED <<histogram, locked, refused>>

\* LockRange: a page that is not counted yet is locked, if the system agrees.
LockRange(b) ==
    /\ memory[b] = "allocated"
    /\ memory' = [memory EXCEPT ![b] = "locked"]
    /\ histogram' = [p \in DOMAIN histogram \cup PagesOf(b) |->
                        IF p \notin DOMAIN histogram THEN 1
                        ELSE IF p \in PagesOf(b) THEN histogram[p] + 1 ELSE histogram[p]]
    /\ \E no \in SUBSET (PagesOf(b) \ DOMAIN histogram) :
          /\ refused' = refused \cup no
          /\ locked' = locked \cup ((PagesOf(b) \ DOMAIN histogram) \ no)

\* deallocate clears the block first.
Clear(b) ==
    /\ memory[b] = "locked"
    /\ memory' = [memory EXCEPT ![b] = "cleared"]
    /\ UNCHANGED <<histogram, locked, refused>>

\* The pages of b that nothing else keeps locked.
LastOn(b) == {p \in PagesOf(b) : p \in DOMAIN histogram /\ histogram[p] = 1}

\* Mutant: a page is unlocked with the first range on it, as by a bare munlock.
UnlockNaively(b) ==
    /\ memory[b] = "cleared"
    /\ memory' = [memory EXCEPT ![b] = "unlocked"]
    /\ histogram' = [p \in DOMAIN histogram \ PagesOf(b) |-> histogram[p]]
    /\ locked' = locked \ PagesOf(b)
    /\ refused' = refused \ PagesOf(b)

\* UnlockRange: a page whose count falls to zero is unlocked and no longer counted.
UnlockRange(b) ==
    /\ memory[b] = "cleared"
    /\ memory' = [memory EXCEPT ![b] = "unlocked"]
    /\ histogram' = [p \in DOMAIN histogram \ LastOn(b) |->
                        IF p \in PagesOf(b) THEN histogram[p] - 1 ELSE histogram[p]]
    /\ locked' = locked \ LastOn(b)
    /\ refused' = refused \ LastOn(b)

\* std::allocator::deallocate.
Free(b) ==
    /\ memory[b] = "unlocked"
    /\ memory' = [memory EXCEPT ![b] = "free"]
    /\ UNCHANGED <<histogram, locked, refused>>

PagesNext == \E b \in Blocks : Allocate(b) \/ LockRange(b) \/ Clear(b) \/ UnlockRange(b) \/ Free(b)

PagesSpec == PagesInit /\ [][PagesNext]_pagesVars

-----------------------------------------------------------------------------
\* The blocks that keep page p locked.
Holders(p) == {b \in Blocks : memory[b] \in {"locked", "cleared"} /\ p \in PagesOf(b)}

AllPages == UNION {PagesOf(b) : b \in Blocks}

\* Page locks (LockRange, UnlockRange): the manager counts for every page the blocks that
\* have something on it, so that every page of a block with secrets is locked unless mlock
\* refused it, no page is unlocked while a block needs it, UnlockRange finds every page it
\* looks for, and no page stays locked for nothing.
PagesInv ==
    /\ locked \cap refused = {}
    /\ locked \cup refused = DOMAIN histogram
    /\ DOMAIN histogram = {p \in AllPages : Holders(p) # {}}
    /\ \A p \in DOMAIN histogram : histogram[p] = Cardinality(Holders(p))
=============================================================================
