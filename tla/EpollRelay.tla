------------------------------ MODULE EpollRelay ------------------------------
(***************************************************************************)
(* The relay of tpc/epoll/epollG5.c: one thread, edge-triggered epoll.  A  *)
(* client that connects gets a connection to the server of its own, and    *)
(* what comes from one side is sent to the other.  The program remembers   *)
(* one pair of sockets, in listen_addr.sock and server_addr.sock.          *)
(*                                                                         *)
(* The network is at the bottom: an end is the remote end of a socket, of  *)
(* a client or of the server.  Sends of the relay fit into the buffers of  *)
(* the kernel, and the server does not close its connections.              *)
(***************************************************************************)
EXTENDS Integers, Sequences, SequencesExt, FiniteSets

CONSTANTS Clients,
          Fd,              \* descriptors, two for each client
          BUFSIZE,         \* in units of data
          MaxSend, MaxReply  \* bounds on the units that a client and the server send

VARIABLES listen_sock, server_sock,   \* listen_addr.sock and server_addr.sock
          events,          \* what epoll_wait returned and the loop has yet to handle
          sock,            \* fd -> the end it is connected to
          interest,        \* fd -> "none", "in" or "out": what epoll watches
          ready,           \* the watched fds, and listenfd, with an edge to report
          backlog,         \* clients that wait to be accepted
          connect,         \* client -> how the connect for it stands
          sent, inq, got,  \* end -> what it sent, what the relay has yet to receive of
                           \* it, and what it received
          hup              \* clients that have closed

vars == <<listen_sock, server_sock, events, sock, interest, ready, backlog, connect, sent, inq, got, hup>>

Side == {"client", "server"}
End == Clients \X Side
Listen == 0
NoEnd == <<>>
Pad == <<>>
Open == {f \in Fd : sock[f] # NoEnd}

Init ==
    /\ listen_sock = 0 /\ server_sock = 0
    /\ events = {}
    /\ sock = [f \in Fd |-> NoEnd] /\ interest = [f \in Fd |-> "none"] /\ ready = {}
    /\ backlog = <<>>
    /\ connect = [c \in Clients |-> "none"]
    /\ sent = [e \in End |-> <<>>] /\ inq = sent /\ got = sent
    /\ hup = {}

-----------------------------------------------------------------------------
(* What the relay does when an event is handled. *)

\* Something to read, or the end of it.
Readable(e) == inq[e] # <<>> \/ (e[2] = "client" /\ e[1] \in hup)

\* epoll_ctl(ADD) of a set of sockets for reading: those that are readable are reported.
WatchIn(fds) ==
    /\ interest' = [f \in Fd |-> IF f \in fds THEN "in" ELSE interest[f]]
    /\ ready' = (ready \ fds) \cup {f \in fds : Readable(sock'[f])}

\* close(2), which also ends the watching.
Close(fds) ==
    /\ sock' = [f \in Fd |-> IF f \in fds THEN NoEnd ELSE sock[f]]
    /\ interest' = [f \in Fd |-> IF f \in fds THEN "none" ELSE interest[f]]
    /\ ready' = ready \ fds

\* The number of a new socket: the lowest that is free.
NewFd(used) == CHOOSE f \in Fd \ used : \A g \in Fd \ used : f <= g

\* connect fails at once, is in progress, or succeeds; in the first case, and when there
\* is no socket for it, the accepted socket stays open and unwatched.
AcceptForwardSocket(e) ==
    /\ e = <<Listen, "in">>
    /\ events' = events \ {e}
    /\ IF backlog = <<>>
       THEN UNCHANGED <<listen_sock, server_sock, sock, interest, ready, backlog, connect>>
       ELSE LET c == Head(backlog)
                a == NewFd(Open)
                b == NewFd(Open \cup {a})
            IN  /\ listen_sock' = a
                /\ backlog' = Tail(backlog)
                /\ \/ /\ sock' = [sock EXCEPT ![a] = <<c, "client">>]
                      /\ connect' = [connect EXCEPT ![c] = "failed"]
                      /\ server_sock' \in {b, -1}
                      /\ UNCHANGED <<interest, ready>>
                   \/ /\ server_sock' = b
                      /\ sock' = [sock EXCEPT ![a] = <<c, "client">>, ![b] = <<c, "server">>]
                      /\ \/ /\ connect' = [connect EXCEPT ![c] = "progress"]
                            /\ interest' = [interest EXCEPT ![b] = "out"]
                            /\ UNCHANGED ready
                         \/ /\ connect' = [connect EXCEPT ![c] = "done"]
                            /\ WatchIn({a, b})
    /\ UNCHANGED <<sent, inq, got, hup>>

\* An EPOLLOUT event.  It is for server_addr.sock only.
SetSocketConnected(e) ==
    /\ e[2] = "out"
    /\ events' = events \ {e}
    /\ \/ e[1] # server_sock /\ UNCHANGED <<sock, interest, ready>>
       \/ /\ e[1] = server_sock
          /\ IF sock[server_sock] = NoEnd \/ connect[sock[server_sock][1]] = "refused"
             THEN Close({server_sock, listen_sock})
             ELSE UNCHANGED sock /\ WatchIn({server_sock, listen_sock})
    /\ UNCHANGED <<listen_sock, server_sock, backlog, connect, sent, inq, got, hup>>

\* What one send transmits: always a whole buffer.
Buffers(q) ==
    LET n == (Len(q) + BUFSIZE - 1) \div BUFSIZE
    IN  [i \in 1 .. n * BUFSIZE |-> IF i <= Len(q) THEN q[i] ELSE Pad]

\* The socket that data from socket f goes to.
Out(f) == IF f = listen_sock THEN server_sock ELSE listen_sock

\* Mutant: one buffer is received for an edge.
TransferSocketDataOnce(e) ==
    /\ e[1] # Listen /\ e[2] = "in"
    /\ events' = events \ {e}
    /\ LET in == e[1]
           end == sock[in]
           to == IF Out(in) \in Fd THEN sock[Out(in)] ELSE NoEnd
           q == SubSeq(inq[end], 1, IF Len(inq[end]) < BUFSIZE THEN Len(inq[end]) ELSE BUFSIZE)
       IN  IF end = NoEnd \/ (q = <<>> /\ Readable(end))
           THEN Close({listen_sock, server_sock}) /\ UNCHANGED <<inq, got>>
           ELSE /\ got' = IF to = NoEnd THEN got ELSE [got EXCEPT ![to] = @ \o Buffers(q)]
                /\ inq' = [inq EXCEPT ![end] = SubSeq(@, Len(q) + 1, Len(@))]
                /\ UNCHANGED <<sock, interest, ready>>
    /\ UNCHANGED <<listen_sock, server_sock, backlog, connect, sent, hup>>

\* Everything there is to read is sent on; at the end of the data, and when the socket
\* was closed since epoll_wait, the sockets of the pair are closed.
TransferSocketData(e) ==
    /\ e[1] # Listen /\ e[2] = "in"
    /\ events' = events \ {e}
    /\ LET in == e[1]
           end == sock[in]
           to == IF Out(in) \in Fd THEN sock[Out(in)] ELSE NoEnd
       IN  IF end = NoEnd THEN Close({listen_sock, server_sock}) /\ UNCHANGED <<inq, got>>
           ELSE /\ got' = IF to = NoEnd THEN got ELSE [got EXCEPT ![to] = @ \o Buffers(inq[end])]
                /\ inq' = [inq EXCEPT ![end] = <<>>]
                /\ IF end[2] = "client" /\ end[1] \in hup THEN Close({listen_sock, server_sock})
                   ELSE UNCHANGED <<sock, interest, ready>>
    /\ UNCHANGED <<listen_sock, server_sock, backlog, connect, sent, hup>>

\* epoll_wait returns all edges, and the loop handles them in any order.
epoll_wait ==
    /\ events = {} /\ ready # {}
    /\ events' = {<<f, IF f = Listen THEN "in" ELSE interest[f]>> : f \in ready}
    /\ ready' = {}
    /\ UNCHANGED <<listen_sock, server_sock, sock, interest, backlog, connect, sent, inq, got, hup>>

ServerLoop ==
    \/ epoll_wait
    \/ \E e \in events : AcceptForwardSocket(e) \/ SetSocketConnected(e) \/ TransferSocketData(e)

-----------------------------------------------------------------------------
(* The network. *)

Edge(e, kind) == ready' = ready \cup {f \in Fd : sock[f] = e /\ interest[f] = kind}

Arrived(c) ==
    \/ \E i \in DOMAIN backlog : backlog[i] = c
    \/ connect[c] # "none"

ClientConnects(c) ==
    /\ ~Arrived(c)
    /\ backlog' = Append(backlog, c)
    /\ ready' = ready \cup {Listen}
    /\ UNCHANGED <<listen_sock, server_sock, events, sock, interest, connect, sent, inq, got, hup>>

\* The connect of the relay to the server is decided.
ConnectEnds(c) ==
    /\ connect[c] = "progress"
    /\ \E result \in {"done", "refused"} : connect' = [connect EXCEPT ![c] = result]
    /\ Edge(<<c, "server">>, "out")
    /\ UNCHANGED <<listen_sock, server_sock, events, sock, interest, backlog, sent, inq, got, hup>>

\* A unit of data says who sent it and where it is in what they sent.
EndSends(e) ==
    /\ IF e[2] = "client" THEN Arrived(e[1]) /\ e[1] \notin hup ELSE connect[e[1]] = "done"
    /\ Len(sent[e]) < IF e[2] = "client" THEN MaxSend ELSE MaxReply
    /\ LET unit == <<e, Len(sent[e]) + 1>>
       IN  sent' = [sent EXCEPT ![e] = Append(@, unit)] /\ inq' = [inq EXCEPT ![e] = Append(@, unit)]
    /\ Edge(e, "in")
    /\ UNCHANGED <<listen_sock, server_sock, events, sock, interest, backlog, connect, got, hup>>

ClientCloses(c) ==
    /\ Arrived(c) /\ c \notin hup
    /\ hup' = hup \cup {c}
    /\ Edge(<<c, "client">>, "in")
    /\ UNCHANGED <<listen_sock, server_sock, events, sock, interest, backlog, connect, sent, inq, got>>

\* Every client before c is gone, and the relay has closed its sockets.
Alone(c) == \A d \in Clients \ {c} : Arrived(d) => d \in hup /\ Open = {} /\ backlog = <<>>

Network(c) == ConnectEnds(c) \/ ClientCloses(c) \/ \E s \in Side : EndSends(<<c, s>>)

\* Clients come one at a time.
Next == ServerLoop \/ \E c \in Clients : Network(c) \/ (Alone(c) /\ ClientConnects(c))

\* Clients come as they like.
NextOverlapping == ServerLoop \/ \E c \in Clients : Network(c) \/ ClientConnects(c)
SpecOverlapping == Init /\ [][NextOverlapping]_vars

-----------------------------------------------------------------------------
\* The end that an end is to be connected with.
Partner(e) == <<e[1], IF e[2] = "client" THEN "server" ELSE "client">>
Data(q) == SelectSeq(q, LAMBDA u : u # Pad)

\* What an end receives, padding aside, is what its partner sent, in order and from the
\* first unit on, through the one buffer and the one pair of sockets of the relay.
InOrder ==
    \A e \in End : IsPrefix(Data(got[e]), sent[Partner(e)])

\* All a client sends before it closes has reached the server, also if it closes while
\* the connect is in progress: edge-triggered epoll reports what came before the socket
\* was watched.
AllArrived ==
    \A c \in Clients :
        connect[c] = "done" => Data(got[<<c, "server">>]) = sent[<<c, "client">>]

\* Clients have closed and so are both sockets of their pairs, unless connect failed at
\* once.
Released == \A f \in Open : sock[f][1] \in hup => connect[sock[f][1]] = "failed"
=============================================================================
