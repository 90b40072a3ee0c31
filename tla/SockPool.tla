------------------------------- MODULE SockPool -------------------------------
(***************************************************************************)
(* The pool of client connections of tpc/poolsocket/poolsocket.cpp.  The   *)
(* critical section pCS covers every call, and the Sleep of getConnet is   *)
(* inside it, so a call is one step.  A socket is its number: closing a    *)
(* socket frees the number and the system may hand it out again.  No call  *)
(* is going on when the pool is destroyed, since destroy frees pCS;        *)
(* connections may be in use then.                                         *)
(***************************************************************************)
EXTENDS Integers, FiniteSets, Functions

CONSTANTS Clients,
          Sockets,         \* socket numbers; leaked sockets use them up
          NoSocket,
          bounds           \* capacity of the pool

ASSUME PoolAssumption == bounds \in Nat \ {0} /\ NoSocket \notin Sockets

VARIABLES fdArray,         \* slot -> socket; slots from valid on are stale
          valid,
          terminated,
          handle,          \* "none", "ready" or "freed"
          sockets,         \* the open sockets
          held,            \* the connection each client has, or NoSocket
          last             \* the connection it put back last, or NoSocket

poolVars == <<fdArray, valid, terminated, handle, sockets, held, last>>

Slots == 0 .. bounds - 1
Pooled == {fdArray[i] : i \in 0 .. valid - 1}
InUse == {held[c] : c \in Clients} \ {NoSocket}
Free == Sockets \ sockets

PoolInit ==
    /\ fdArray = [i \in Slots |-> NoSocket]
    /\ valid = 0
    /\ terminated = 0
    /\ handle = "none"
    /\ sockets = {}
    /\ held = [c \in Clients |-> NoSocket]
    /\ last = [c \in Clients |-> NoSocket]

-----------------------------------------------------------------------------
\* Connecting opens a socket.  When it fails there is none, or there is one that is
\* left open.
ConnectFails(open) == \/ sockets' = open
                      \/ \E s \in Sockets \ open : sockets' = open \cup {s}

\* Every connection is made.  memset clears as many bytes as a pointer has, so
\* terminated is whatever malloc returns.
sckCltPool_init ==
    /\ handle = "none"
    /\ fdArray' \in [Slots -> Free]
    /\ IsInjective(fdArray')
    /\ sockets' = sockets \cup {fdArray'[i] : i \in Slots}
    /\ valid' = bounds
    /\ terminated' \in {0, 1}
    /\ handle' = "ready"
    /\ UNCHANGED <<held, last>>

\* The connection of slot i fails.  The slots before i are closed, and so is whatever
\* number is in a slot from i on whose status, never written, is 1.
InitFails(i) ==
    /\ handle = "none"
    /\ \E junk \in SUBSET sockets :
           Cardinality(junk) <= bounds - i /\ ConnectFails(sockets \ junk)
    /\ UNCHANGED <<fdArray, valid, terminated, handle, held, last>>

\* A getConnet that finds no valid connection sleeps with pCS held, so it finds none
\* afterwards either, and changes nothing.  The status of a slot below valid is 1.
getConnet(c) ==
    /\ handle = "ready" /\ held[c] = NoSocket
    /\ terminated # 1 /\ valid > 0
    /\ held' = [held EXCEPT ![c] = fdArray[valid - 1]]
    /\ valid' = valid - 1
    /\ UNCHANGED <<fdArray, terminated, handle, sockets, last>>

Keep(fd) ==
    /\ fdArray' = [fdArray EXCEPT ![valid] = fd]
    /\ valid' = valid + 1

\* A broken connection is closed and connected again once.
Replace(fd) ==
    \/ \E new \in Free \cup {fd} :
           Keep(new) /\ sockets' = (sockets \ {fd}) \cup {new}
    \/ ConnectFails(sockets \ {fd}) /\ UNCHANGED <<fdArray, valid>>

\* Mutant: the pool is not searched for the connection.
PuttingUnsearched(fd, validFlag) ==
    IF terminated = 1 THEN Keep(fd) /\ UNCHANGED sockets
    ELSE IF valid >= bounds THEN UNCHANGED <<fdArray, valid, sockets>>
    ELSE IF validFlag = 1 THEN Keep(fd) /\ UNCHANGED sockets
    ELSE Replace(fd)

\* A pool that was not destroyed but looks terminated takes the connection without
\* looking at its bounds; nobody can have got one from it.
Putting(fd, validFlag) ==
    IF terminated = 1 THEN Keep(fd) /\ UNCHANGED sockets
    ELSE IF fd \in Pooled \/ valid >= bounds THEN UNCHANGED <<fdArray, valid, sockets>>
    ELSE IF validFlag = 1 THEN Keep(fd) /\ UNCHANGED sockets
    ELSE Replace(fd)

putConnet(c, fd, validFlag) ==
    /\ handle = "ready"
    /\ Putting(fd, validFlag)
    /\ held' = [held EXCEPT ![c] = NoSocket]
    /\ last' = [last EXCEPT ![c] = fd]
    /\ UNCHANGED <<terminated, handle>>

\* A client puts back the connection it has.
Put(c, validFlag) == held[c] # NoSocket /\ putConnet(c, held[c], validFlag)

\* A client puts the same connection back a second time, before anybody got it.
PutAgain(c) == held[c] = NoSocket /\ last[c] \in Pooled /\ putConnet(c, last[c], 1)

\* Every slot is closed, the stale ones too.
sckCltPool_destroy ==
    /\ handle = "ready"
    /\ terminated' = 1
    /\ sockets' = sockets \ {fdArray[i] : i \in Slots}
    /\ handle' = "freed"
    /\ UNCHANGED <<fdArray, valid, held, last>>

PoolNext ==
    \/ sckCltPool_init
    \/ \E i \in Slots : InitFails(i)
    \/ \E c \in Clients : getConnet(c)
    \/ \E c \in Clients, validFlag \in {0, 1} : Put(c, validFlag)
    \/ \E c \in Clients : PutAgain(c)
    \/ sckCltPool_destroy

PoolSpec == PoolInit /\ [][PoolNext]_poolVars

-----------------------------------------------------------------------------
\* A connection is in the pool once or with one client, never with two and never in
\* both places, although socket numbers come back: getConnet lowers valid over the
\* slot it hands out and putConnet searches the pool.
Exclusive ==
    handle = "ready" =>
        /\ Cardinality(Pooled) = valid
        /\ Pooled \cap InUse = {}
        /\ \A c, d \in Clients : c # d /\ held[c] # NoSocket => held[c] # held[d]

\* What is in the pool and what clients have are open sockets: putConnet never leaves
\* the number of a connection it closed among the valid slots.
PoolOpen == handle = "ready" => Pooled \cup InUse \subseteq sockets

\* The pool has no more connections than its capacity, those in use included, so the
\* full pool never turns away a connection that was got from it, and no slot past the
\* arrays is written.
Capacity == handle = "ready" => valid + Cardinality(InUse) <= bounds

\* Pool: a connection is in the pool or with one client, it is open, and there are no
\* more of them than slots, through broken connections, reconnects that fail and socket
\* numbers that are used again.
PoolSound == Exclusive /\ PoolOpen /\ Capacity

=============================================================================
