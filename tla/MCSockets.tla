------------------------------ MODULE MCSockets ------------------------------
(***************************************************************************)
(* The programs and the library of tpc/ for TLC: the pool of connections,  *)
(* messages over a connection, accepting connections, the epoll relay, the *)
(* forking proxy, and the clients and servers over TcpStream.  One of them *)
(* runs, the others stay in an initial state.                              *)
(***************************************************************************)
EXTENDS SockPool, Sequences

CONSTANTS Errno, NoConn,
          Fd, BUFSIZE, MaxSend, MaxReply,  \* of the relay
          Talkers                          \* the clients of the proxy that send data

VARIABLES on,
          role, wire, peer, data, rest, begun, sent, framePc, buf, n, received,
          backlog, client, acceptPc, connfd,
          listen_sock, server_sock, events, sock, interest, ready, relayBacklog, connect,
          relaySent, inq, relayGot, hup,
          parent, newsockfd, errno, sigcld, proxyBacklog, child, rdfdset, fds,
          queued, proxySent, proxyGot, ended, gone,
          program, proc, tcpWire, open, reset, faults

frameVars == <<role, wire, peer, data, rest, begun, sent, framePc, buf, n, received>>
acceptVars == <<backlog, client, acceptPc, connfd>>
libraryVars == <<poolVars, frameVars, acceptVars>>
relayVars == <<listen_sock, server_sock, events, sock, interest, ready, relayBacklog, connect,
               relaySent, inq, relayGot, hup>>
proxyVars == <<parent, newsockfd, errno, sigcld, proxyBacklog, child, rdfdset, fds,
               queued, proxySent, proxyGot, ended, gone>>
tcpVars == <<program, proc, tcpWire, open, reset, faults>>
programVars == <<relayVars, proxyVars, tcpVars>>
socketsVars == <<libraryVars, programVars, on>>

Acceptors == {"t1", "t2"}
util == INSTANCE SockUtil WITH Base <- 2, HeadLen <- 2, MaxLen <- 2, MaxMessages <- 2,
                               WireSize <- 3, Callers <- {"a", "b", "c"}
relay == INSTANCE EpollRelay WITH backlog <- relayBacklog, sent <- relaySent, got <- relayGot
proxy == INSTANCE ForkProxy WITH MaxSend <- 1, backlog <- proxyBacklog, ready <- rdfdset,
                                 sent <- proxySent, got <- proxyGot
tcp == INSTANCE TcpPrograms WITH Programs <- {"ttcp", "echo", "nodelay"}, Numbers <- {0, 1, 3},
                                 Lengths <- {0, 3, 8}, Cap <- 3, Buf <- 2, Word <- 2,
                                 wire <- tcpWire

SocketsInit ==
    /\ on \in {"pool", "frame", "accept", "relay", "proxy", "tcp"}
    /\ PoolInit /\ util!AcceptInit
    /\ util!FrameInit /\ (on # "frame" => role = "client")
    /\ relay!Init /\ proxy!Init
    /\ tcp!Init
    /\ on # "tcp" => program = "ttcp" /\ proc["client"].number = 0 /\ proc["client"].len = 0

LibraryStep ==
    \/ on = "pool" /\ PoolNext /\ UNCHANGED <<frameVars, acceptVars>>
    \/ on = "frame" /\ util!FrameNext /\ UNCHANGED <<poolVars, acceptVars>>
    \/ on = "accept" /\ util!AcceptNext /\ UNCHANGED <<poolVars, frameVars>>

ProgramStep ==
    \/ on = "relay" /\ relay!Next /\ UNCHANGED <<proxyVars, tcpVars>>
    \/ on = "proxy" /\ proxy!Next /\ UNCHANGED <<relayVars, tcpVars>>
    \/ on = "tcp" /\ tcp!Next /\ UNCHANGED <<relayVars, proxyVars>>

SocketsNext ==
    /\ \/ LibraryStep /\ UNCHANGED programVars
       \/ ProgramStep /\ UNCHANGED libraryVars
    /\ UNCHANGED on

\* A blocking send goes on as there is room, a receiver that reads goes on reading.  A
\* server calls again and again, its calls go on, and accept does not fail for ever.
LibraryFair ==
    /\ WF_frameVars(on = "frame" /\ util!Sending)
    /\ WF_frameVars(on = "frame" /\ util!Receiving)
    /\ \A t \in Acceptors : /\ WF_acceptVars(on = "accept" /\ util!sckServer_accept(t))
                            /\ WF_acceptVars(on = "accept" /\ util!accept_timeout(t))
                            /\ SF_acceptVars(on = "accept" /\ util!Accept(t))

\* The event loop goes on and a connect is decided; every process runs, a pending signal
\* is delivered and the kernel completes a connect.  Clients and servers of the relays
\* may stop.
ProgramsFair ==
    /\ WF_relayVars(on = "relay" /\ relay!ServerLoop)
    /\ WF_relayVars(on = "relay" /\ \E c \in Clients : relay!ConnectEnds(c))
    /\ WF_proxyVars(on = "proxy" /\ (proxy!Signal \/ proxy!Interrupted))
    /\ WF_proxyVars(on = "proxy" /\ proxy!MainStep)
    /\ \A c \in Clients : WF_proxyVars(on = "proxy" /\ proxy!ChildStep(c))
    /\ WF_tcpVars(on = "tcp" /\ tcp!Connect)
    /\ \A s \in {"client", "server"} : WF_tcpVars(on = "tcp" /\ tcp!Step(s))

SocketsSpec == SocketsInit /\ [][SocketsNext]_socketsVars /\ LibraryFair /\ ProgramsFair

-----------------------------------------------------------------------------

\* Messages: rev returns the messages that were sent, whole, once and in order.  Relay:
\* what an end receives, padding aside, is what its partner sent, in order.
FramesWhole ==
    CASE on = "frame" -> util!FramesWhole
      [] on = "relay" -> relay!InOrder
      [] OTHER        -> TRUE

\* ttcp, echo, nodelay: whatever parts the kernel takes the messages in, neither side sees
\* a short message or a wrong length while nothing has failed, and what is answered and
\* echoed is what was sent.
TransfersExact == on = "tcp" => tcp!TransfersExact

\* Something is on its way, and it has arrived.
OnTheWay ==
    CASE on = "frame" -> ~util!AllReceived
      [] on = "relay" -> ~relay!AllArrived
      [] on = "proxy" -> \E c \in Talkers : proxy!Underway(c, "user")
      [] OTHER        -> FALSE
Through ==
    CASE on = "frame" -> util!AllReceived
      [] on = "relay" -> relay!AllArrived
      [] on = "proxy" -> \A c \in Talkers : proxy!Forwarded(c, "user")
      [] OTHER        -> TRUE
FromHost == on = "proxy" /\ \E c \in Talkers : proxy!Underway(c, "host")
FromHostThrough == \A c \in Talkers : proxy!Forwarded(c, "host")

\* What is sent arrives: messages unless the connection is lost; what the clients of the
\* relay sent before they closed; and what either side of the proxy sent on a served
\* connection, unless the other side has ended.
DataArrives == (OnTheWay ~> Through) /\ (FromHost ~> FromHostThrough)

\* Somebody waits for an end, and it has come.
Expecting ==
    CASE on = "frame"  -> util!InRev
      [] on = "accept" -> client["a"] = "waiting"
      [] on = "relay"  -> hup # {}
      [] on = "tcp"    -> TRUE
      [] OTHER         -> FALSE
Over ==
    CASE on = "frame"  -> ~util!InRev
      [] on = "accept" -> client["a"] = "accepted"
      [] on = "relay"  -> relay!Released
      [] on = "tcp"    -> tcp!Finished \/ tcp!WedgedByTooMuch
      [] OTHER         -> TRUE

\* Calls return and connections end: a rev that started to read returns; a client that
\* waits is accepted although threads race for it (any client, as all are alike); the
\* relay closes both sockets of a client that has closed; and ttcp, echo and nodelay end,
\* also when the other side dies, unless echo or nodelay send more than the connection
\* holds and the two sides wait for each other with both directions full.
CallsReturn == Expecting ~> Over

\* Proxy: a client's socket is held only by its own child and by main until it has closed
\* it; when a side of a connection ends it is closed in every process; and every ended
\* child is waited for, though several may share one signal.
ProxyCleansUp ==
    /\ [](on = "proxy" => proxy!OnlyOwnChild)
    /\ (on = "proxy" /\ proxy!SideEnds) ~> proxy!Disconnected
    /\ (on = "proxy" /\ ~proxy!AllReaped) ~> proxy!AllReaped
=============================================================================
