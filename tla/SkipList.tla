------------------------------- MODULE SkipList -------------------------------
(***************************************************************************)
(* The skip list of datastruct/skiplist/skiplist.c.  A node is its key,    *)
(* the header is 0 and NULL a number above all keys.  A node has as many   *)
(* levels as randomLevel gave it.                                          *)
(***************************************************************************)
EXTENDS Integers, FiniteSets

CONSTANTS MaxKey, Values, MAX_LEVEL

VARIABLES level,
          forward,     \* node -> level -> node; NULL where nothing was written
          k,           \* node -> its number of levels, 0 when it is not allocated
          value

vars == <<level, forward, k, value>>

Keys == 1 .. MaxKey
header == 0
NULL == MaxKey + 1
Node == 0 .. MaxKey
Levels == 0 .. MAX_LEVEL - 1

createSkiplist ==
    /\ level = 0
    /\ forward = [p \in Node |-> [i \in Levels |-> NULL]]
    /\ k = [p \in Keys |-> 0]
    /\ value = [p \in Keys |-> 0]

Init == createSkiplist

-----------------------------------------------------------------------------
\* The last node before key on level i, from node p on.
Advance(i, p, key) ==
    LET walk[q \in Node] == IF forward[q][i] < key THEN walk[forward[q][i]] ELSE q
    IN  walk[p]

\* Where the search for key leaves each level, from the highest down.
update(key) ==
    LET u[i \in 0 .. level - 1] == Advance(i, IF i = level - 1 THEN header ELSE u[i + 1], key)
    IN  u

\* The node that the search ends before.
Found(key) == IF level = 0 THEN NULL ELSE forward[update(key)[0]][0]

\* randomLevel gives the height.
insert(key, v, height) ==
    LET u == update(key)
        before(i) == IF i < level THEN u[i] ELSE header
    IN  /\ Found(key) # key
        /\ level' = IF height > level THEN height ELSE level
        /\ forward' = [p \in Node |-> [i \in Levels |->
               IF i < height /\ p = key THEN forward[before(i)][i]
               ELSE IF i < height /\ p = before(i) THEN key
               ELSE forward[p][i]]]
        /\ k' = [k EXCEPT ![key] = height]
        /\ value' = [value EXCEPT ![key] = v]

\* What search returns.
search(key) ==
    LET step[i \in -1 .. MAX_LEVEL, p \in Node] ==
            IF i < 0 THEN 0
            ELSE LET q == forward[p][i]
                 IN  IF q > key THEN step[i - 1, p]
                     ELSE IF q = key THEN value[q] ELSE step[i, q]
    IN  step[level - 1, header]

\* How many levels, from the highest down, have nothing after the header.
Lowered(fwd) == Cardinality({i \in 0 .. level - 1 : fwd[header][i] = NULL})

\* The pointers without node key.
Unlink(key) ==
    LET u == update(key)
    IN  [p \in Node |-> [i \in Levels |->
            IF p = key THEN NULL
            ELSE IF i < level /\ p = u[i] /\ forward[p][i] = key THEN forward[key][i]
            ELSE forward[p][i]]]

\* Mutant: the level is not lowered.
deleteSLHigh(key) ==
    /\ Found(key) = key
    /\ forward' = Unlink(key)
    /\ k' = [k EXCEPT ![key] = 0]
    /\ value' = [value EXCEPT ![key] = 0]
    /\ UNCHANGED level

deleteSL(key) ==
    /\ Found(key) = key
    /\ forward' = Unlink(key)
    /\ k' = [k EXCEPT ![key] = 0]
    /\ value' = [value EXCEPT ![key] = 0]
    /\ level' = level - Lowered(forward')

Next ==
    \/ \E key \in Keys, v \in Values, height \in 1 .. MAX_LEVEL : insert(key, v, height)
    \/ \E key \in Keys : deleteSL(key)

Spec == Init /\ [][Next]_vars

-----------------------------------------------------------------------------
\* Every level is the ordered list of exactly the allocated nodes that are at least
\* so high: no pointer leads to a node that was freed or skips one.
LevelsComplete ==
    \A i \in Levels :
        LET on == {p \in Keys : k[p] > i}
        IN  \A p \in on \cup {header} :
                /\ forward[p][i] \in on \cup {NULL}
                /\ forward[p][i] > p
                /\ \A q \in on : q > p => q >= forward[p][i]

\* The level is the height of the highest node, after deletions too.
LevelTight ==
    /\ \A p \in Keys : k[p] <= level
    /\ level > 0 => \E p \in Keys : k[p] = level

Dict == [key \in Keys |-> search(key)]
Abstract == INSTANCE Dictionary WITH dict <- Dict

\* Seen through search, insert and deleteSL change the key they are called with and no
\* other, whatever heights randomLevel gives.
DictionaryStep ==
    /\ [Abstract!Next]_Dict
    /\ \A key \in Keys :
           /\ \A v \in Values, height \in 1 .. MAX_LEVEL :
                  insert(key, v, height) => Abstract!Insert(key, v)
           /\ deleteSL(key) => Abstract!Delete(key)
=============================================================================
