------------------------------- MODULE SockUtil -------------------------------
(***************************************************************************)
(* tpc/poolsocket/socketutil.cpp: messages over one direction of a         *)
(* connection, and accepting connections.                                  *)
(*                                                                         *)
(* A sender calls sckClient_send or sckServer_send, a receiver calls       *)
(* sckServer_rev or sckClient_rev in a loop.  A message travels as its     *)
(* length, HeadLen bytes with the highest first, and its bytes.  TCP is a  *)
(* queue of bytes of limited size from which recv takes some of what there *)
(* is, at least one byte.  The sender closes the connection when a send    *)
(* returned anything but 0 or a timeout, the receiver when a rev did.      *)
(*                                                                         *)
(* Threads call sckServer_accept with a timeout on one listening socket,   *)
(* which select watches and accept then takes a connection from.           *)
(***************************************************************************)
EXTENDS Integers, Sequences, SequencesExt

CONSTANTS Base,            \* a byte is a number below Base
          HeadLen,         \* bytes of the length, 4 in the code
          MaxLen,          \* bound on the length of a message
          MaxMessages,     \* bound on the messages that are begun
          WireSize         \* bytes the connection holds

VARIABLES role,            \* who sends: "client" or "server"
          wire,
          peer,            \* the sender's end: "open", "closed" or "reset"
          data,            \* the message in send, or None
          rest,            \* the bytes of it that are to be written
          begun,           \* number of messages begun
          sent,            \* the messages for which send returned 0
          framePc,         \* the receiver: "idle", "head", "body", "closed"
          buf,             \* what readn has read
          n,               \* the length that was read
          received         \* the messages rev returned

frameVars == <<role, wire, peer, data, rest, begun, sent, framePc, buf, n, received>>
sender == <<data, rest, begun, sent>>
receiver == <<framePc, buf, n, received>>

Byte == 0 .. Base - 1
Messages == UNION {[1 .. len -> Byte] : len \in 0 .. MaxLen}
None == <<-1>>

htonl(len) == [i \in 1 .. HeadLen |-> (len \div Base^(HeadLen - i)) % Base]
ntohl(bytes) == FoldLeft(LAMBDA len, b : Base * len + b, 0, bytes)

FrameInit ==
    /\ role \in {"client", "server"}
    /\ wire = <<>> /\ peer = "open"
    /\ data = None /\ rest = <<>> /\ begun = 0 /\ sent = <<>>
    /\ framePc = "idle" /\ buf = <<>> /\ n = 0 /\ received = <<>>

-----------------------------------------------------------------------------
(* The sender *)

\* write_timeout returns 0 when there is room; when there is none send returns a
\* timeout, which changes nothing.
write_timeout == Len(wire) < WireSize

Begin(d) ==
    /\ peer = "open" /\ data = None
    /\ begun < MaxMessages
    /\ write_timeout
    /\ data' = d
    /\ rest' = htonl(Len(d)) \o d
    /\ begun' = begun + 1
    /\ UNCHANGED <<role, wire, peer, sent, receiver>>

sckClient_send(d) == role = "client" /\ Len(d) > 0 /\ Begin(d)

\* The server does not refuse an empty message.
sckServer_send(d) == role = "server" /\ Begin(d)

\* The kernel takes some bytes; send returns once it has all of them.
send(k) ==
    /\ data # None
    /\ k <= Len(rest) /\ Len(wire) + k <= WireSize
    /\ wire' = wire \o SubSeq(rest, 1, k)
    /\ rest' = SubSeq(rest, k + 1, Len(rest))
    /\ IF k = Len(rest)
       THEN sent' = Append(sent, data) /\ data' = None
       ELSE UNCHANGED <<sent, data>>
    /\ UNCHANGED <<role, peer, begun, receiver>>

\* send is interrupted or fails: the call returns the count or -1, and the caller
\* closes the connection.
SendStops ==
    /\ data # None /\ rest # <<>>
    /\ data' = None /\ rest' = <<>>
    /\ peer' = "closed"
    /\ UNCHANGED <<role, wire, begun, sent, receiver>>

closeconn ==
    /\ peer = "open" /\ data = None
    /\ peer' = "closed"
    /\ UNCHANGED <<role, wire, sender, receiver>>

\* The connection is lost with all the bytes in it.
Reset ==
    /\ peer # "reset"
    /\ peer' = "reset"
    /\ wire' = <<>>
    /\ data' = None /\ rest' = <<>>
    /\ UNCHANGED <<role, begun, sent, receiver>>

-----------------------------------------------------------------------------
(* The receiver *)

\* read_timeout returns 0 when there is something to read, the end of the stream
\* included; otherwise rev returns a timeout, which changes nothing.
read_timeout == wire # <<>> \/ peer # "open"

rev ==
    /\ framePc = "idle"
    /\ read_timeout
    /\ framePc' = "head"
    /\ UNCHANGED <<role, wire, peer, sender, buf, n, received>>

Count == IF framePc = "head" THEN HeadLen ELSE n

\* What rev does when readn has read all of it.
HeadRead(bytes) ==
    /\ n' = ntohl(bytes)
    /\ framePc' = "body"
    /\ buf' = <<>>
    /\ UNCHANGED received

BodyRead(bytes) ==
    /\ received' = Append(received, bytes)
    /\ framePc' = "idle"
    /\ buf' = <<>>
    /\ UNCHANGED n

\* Mutant: one recv is taken for all.
readnOnce(k) ==
    /\ framePc \in {"head", "body"}
    /\ k <= Count - Len(buf) /\ k <= Len(wire)
    /\ k > 0 \/ Len(buf) = Count
    /\ wire' = SubSeq(wire, k + 1, Len(wire))
    /\ LET bytes == buf \o SubSeq(wire, 1, k)
       IN  IF framePc = "head" THEN HeadRead(bytes) ELSE BodyRead(bytes)
    /\ UNCHANGED <<role, peer, sender>>

\* A recv that returns k bytes; readn of 0 bytes makes no call.
readn(k) ==
    /\ framePc \in {"head", "body"}
    /\ k <= Count - Len(buf) /\ k <= Len(wire)
    /\ k > 0 \/ Len(buf) = Count
    /\ wire' = SubSeq(wire, k + 1, Len(wire))
    /\ LET bytes == buf \o SubSeq(wire, 1, k)
       IN  \/ Len(bytes) = Count /\ framePc = "head" /\ HeadRead(bytes)
           \/ Len(bytes) = Count /\ framePc = "body" /\ BodyRead(bytes)
           \/ Len(bytes) < Count /\ buf' = bytes /\ UNCHANGED <<framePc, n, received>>
    /\ UNCHANGED <<role, peer, sender>>

\* Mutant: readn goes on when recv returns 0.
PeerClosedAgain ==
    /\ framePc \in {"head", "body"} /\ Len(buf) < Count
    /\ wire = <<>> /\ peer # "open"
    /\ UNCHANGED frameVars

\* recv returns 0 or -1: readn returns less than was asked for, rev an error, and the
\* caller closes the connection.
PeerClosed ==
    /\ framePc \in {"head", "body"} /\ Len(buf) < Count
    /\ wire = <<>> /\ peer # "open"
    /\ framePc' = "closed"
    /\ UNCHANGED <<role, wire, peer, sender, buf, n, received>>

Sending == \E k \in 1 .. WireSize : send(k)
Receiving == rev \/ (\E k \in 0 .. WireSize : readn(k)) \/ PeerClosed

FrameNext ==
    \/ \E d \in Messages : sckClient_send(d)
    \/ \E d \in Messages : sckServer_send(d)
    \/ Sending \/ SendStops \/ closeconn \/ Reset
    \/ Receiving

-----------------------------------------------------------------------------
\* However TCP cuts the bytes and wherever the sender stops, rev returns whole
\* messages, each one once and in the order in which they were sent, and none that
\* send did not write completely.
FramesWhole == IsPrefix(received, sent)

\* A rev has started to read and not yet returned.
InRev == framePc \in {"head", "body"}

\* What was sent has been received, unless the connection is lost.
AllReceived == Len(received) >= Len(sent) \/ peer = "reset"

-----------------------------------------------------------------------------
(* Accepting connections *)

CONSTANTS Callers, Acceptors,
          Errno,           \* what accept_timeout returns when accept failed
          NoConn

VARIABLES backlog,         \* connections that are established and wait
          client,          \* "out", "waiting", "accepted" or "gone"
          acceptPc,        \* thread -> "idle", "select" or "accept"
          connfd           \* thread -> what its last call returned

acceptVars == <<backlog, client, acceptPc, connfd>>

AcceptInit ==
    /\ backlog = <<>>
    /\ client = [c \in Callers |-> "out"]
    /\ acceptPc = [t \in Acceptors |-> "idle"]
    /\ connfd = [t \in Acceptors |-> NoConn]

-----------------------------------------------------------------------------
Connect(c) ==
    /\ client[c] \in {"out", "gone"}
    /\ client' = [client EXCEPT ![c] = "waiting"]
    /\ backlog' = Append(backlog, c)
    /\ UNCHANGED <<acceptPc, connfd>>

\* A client ends a connection that was accepted; it may connect again.
Leave(c) ==
    /\ client[c] = "accepted"
    /\ client' = [client EXCEPT ![c] = "gone"]
    /\ UNCHANGED <<backlog, acceptPc, connfd>>

sckServer_accept(t) ==
    /\ acceptPc[t] = "idle"
    /\ acceptPc' = [acceptPc EXCEPT ![t] = "select"]
    /\ connfd' = [connfd EXCEPT ![t] = NoConn]
    /\ UNCHANGED <<backlog, client>>

\* select returns 1.
SelectReady(t) ==
    /\ acceptPc[t] = "select"
    /\ backlog # <<>>
    /\ acceptPc' = [acceptPc EXCEPT ![t] = "accept"]
    /\ UNCHANGED <<backlog, client, connfd>>

\* select returns 0, the call returns Sck_ErrTimeOut.
SelectTimeout(t) ==
    /\ acceptPc[t] = "select"
    /\ backlog = <<>>
    /\ acceptPc' = [acceptPc EXCEPT ![t] = "idle"]
    /\ UNCHANGED <<backlog, client, connfd>>

\* accept returns the connection that waited longest; it blocks when there is none.
Accept(t) ==
    /\ acceptPc[t] = "accept"
    /\ backlog # <<>>
    /\ client' = [client EXCEPT ![Head(backlog)] = "accepted"]
    /\ connfd' = [connfd EXCEPT ![t] = Head(backlog)]
    /\ backlog' = Tail(backlog)
    /\ acceptPc' = [acceptPc EXCEPT ![t] = "idle"]

\* accept fails: accept_timeout returns errno, which is not negative, and
\* sckServer_accept stores it as the connection and returns 0.
AcceptFails(t) ==
    /\ acceptPc[t] = "accept"
    /\ connfd' = [connfd EXCEPT ![t] = Errno]
    /\ acceptPc' = [acceptPc EXCEPT ![t] = "idle"]
    /\ UNCHANGED <<backlog, client>>

accept_timeout(t) == SelectReady(t) \/ SelectTimeout(t) \/ Accept(t) \/ AcceptFails(t)

AcceptNext ==
    \/ \E c \in Callers : Connect(c) \/ Leave(c)
    \/ \E t \in Acceptors : sckServer_accept(t)
    \/ \E t \in Acceptors : accept_timeout(t)
=============================================================================
