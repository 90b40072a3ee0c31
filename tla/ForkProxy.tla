----------------------------- MODULE ForkProxy -----------------------------
(***************************************************************************)
(* The forking TCP proxy of tpc/proxy/tcpproxy.c.  main accepts a client,  *)
(* forks a child for it and closes its own copy of the socket.  The child  *)
(* connects to the host and copies in both directions until one side ends. *)
(* Ended children are reaped by a SIGCLD handler, which may run between    *)
(* any two steps of main and interrupts a blocked accept().                *)
(*                                                                         *)
(* The kernel is modelled by what the code relies on: a pending SIGCLD is  *)
(* one bit however many children ended, fork copies the parent's open      *)
(* sockets, a stream ends after the data before it has been read, and a    *)
(* write to a peer that closed is lost or kills the writer with SIGPIPE.   *)
(***************************************************************************)
EXTENDS Integers

CONSTANTS Clients,  \* the connections clients may open
          Talkers,  \* bound: those on which data is sent
          MaxSend   \* bound: units each side of such a connection sends

VARIABLES parent,    \* where main is
          newsockfd, \* what accept() returned: a client, or Failed
          errno,     \* main's errno
          sigcld,    \* SIGCLD is pending for main
          backlog,   \* clients waiting in the listen queue
          child,     \* where the child of a client is
          ready,     \* rdfdset of a child: the sides FD_ISSET reports
          fds,       \* the client sockets a process holds open
          queued,    \* units a side has sent and the child has not read
          sent,      \* units a side has sent
          got,       \* units written to a side
          ended,     \* sides that ended their stream
          gone       \* sides that closed the connection altogether

net == <<queued, sent, got, ended, gone>>
main == <<parent, newsockfd, errno, sigcld, backlog>>
vars == <<main, child, ready, fds, net>>

Main == "main"
Failed == "failed"
Sides == {"user", "host"}
Other(s) == IF s = "user" THEN "host" ELSE "user"

Serving(c) == child[c] \in {"select", "user", "host"}

Init ==
  /\ parent = "accept" /\ newsockfd = Failed /\ errno = "none" /\ sigcld = FALSE
  /\ backlog = {}
  /\ child = [c \in Clients |-> "none"] /\ ready = [c \in Clients |-> {}]
  /\ fds = [p \in Clients \cup {Main} |-> {}]
  /\ queued = [c \in Clients |-> [s \in Sides |-> 0]]
  /\ sent = queued /\ got = queued
  /\ ended = [c \in Clients |-> {}] /\ gone = ended

-----------------------------------------------------------------------------
(* The peers. *)

Connected(c) == c \in backlog \/ newsockfd = c \/ child[c] # "none"

Connect(c) ==
  /\ ~Connected(c) /\ sent[c]["user"] = 0 /\ ended[c] = {} /\ parent # "dead"
  /\ \A p \in DOMAIN fds : c \notin fds[p]
  /\ backlog' = backlog \cup {c}
  /\ UNCHANGED <<parent, newsockfd, errno, sigcld, child, ready, fds, net>>

(* What a side does once the child has ended no longer matters. *)
Open(c, s) == Serving(c) \/ (s = "user" /\ Connected(c) /\ child[c] \in {"none", "connect"})

Send(c, s) ==
  /\ c \in Talkers /\ Open(c, s)
  /\ s \notin ended[c] /\ sent[c][s] < MaxSend
  /\ sent' = [sent EXCEPT ![c][s] = @ + 1]
  /\ queued' = [queued EXCEPT ![c][s] = @ + 1]
  /\ UNCHANGED <<main, child, ready, fds, got, ended, gone>>

(* A side ends its own stream (shutdown) or closes the connection, which   *)
(* makes a difference where data is written to it.                         *)
End(c, s) ==
  /\ Open(c, s) /\ s \notin ended[c]
  /\ ended' = [ended EXCEPT ![c] = @ \cup {s}]
  /\ \/ UNCHANGED gone
     \/ c \in Talkers /\ gone' = [gone EXCEPT ![c] = @ \cup {s}]
  /\ UNCHANGED <<main, child, ready, fds, queued, sent, got>>

-----------------------------------------------------------------------------
(* main and its signal handler. *)

(* Mutant: one child is waited for per signal. *)
reap_statusOne(chld) ==
  LET z == {c \in Clients : chld[c] = "zombie"}
      one == {CHOOSE c \in z : TRUE}
  IN  [c \in Clients |-> IF z # {} /\ c \in one THEN "reaped" ELSE chld[c]]
reap_status(chld) == [c \in Clients |-> IF chld[c] = "zombie" THEN "reaped" ELSE chld[c]]

(* The handler's last waitpid() fails with ECHILD when no child is left,   *)
(* and leaves errno alone when one is still running.                       *)
ErrnoAfterReap(chld) ==
  IF \A c \in Clients : chld[c] \in {"none", "reaped"} THEN "ECHILD" ELSE errno

(* The handler runs before the next step of main. *)
Signal ==
  /\ sigcld /\ parent # "dead"
  /\ sigcld' = FALSE
  /\ child' = reap_status(child)
  /\ errno' = ErrnoAfterReap(child')
  /\ UNCHANGED <<parent, newsockfd, backlog, ready, fds, net>>

(* The handler runs while accept() blocks: accept() fails with EINTR, which *)
(* the system call's wrapper stores after the handler has returned.         *)
Interrupted ==
  /\ sigcld /\ parent = "accept" /\ backlog = {}
  /\ sigcld' = FALSE
  /\ child' = reap_status(child)
  /\ newsockfd' = Failed /\ errno' = "EINTR" /\ parent' = "check"
  /\ UNCHANGED <<backlog, ready, fds, net>>

Accept(c) ==
  /\ parent = "accept" /\ c \in backlog
  /\ backlog' = backlog \ {c}
  /\ newsockfd' = c /\ parent' = "fork"
  /\ fds' = [fds EXCEPT ![Main] = @ \cup {c}]
  /\ UNCHANGED <<errno, sigcld, child, ready, net>>

(* The test of errno after a failed accept().  When main returns, the      *)
(* listen queue goes with it.                                              *)
Check ==
  /\ parent = "check"
  /\ IF errno = "EINTR" THEN parent' = "accept" /\ UNCHANGED <<backlog, fds>>
     ELSE parent' = "dead" /\ backlog' = {} /\ fds' = [fds EXCEPT ![Main] = {}]
  /\ UNCHANGED <<newsockfd, errno, sigcld, child, ready, net>>

Fork ==
  /\ parent = "fork"
  /\ parent' = "close"
  /\ child' = [child EXCEPT ![newsockfd] = "connect"]
  /\ fds' = [fds EXCEPT ![newsockfd] = fds[Main]]
  /\ UNCHANGED <<newsockfd, errno, sigcld, backlog, ready, net>>

(* fork() failed: main goes on as after a successful one. *)
ForkFails ==
  /\ parent = "fork"
  /\ parent' = "close"
  /\ UNCHANGED <<newsockfd, errno, sigcld, backlog, child, ready, fds, net>>

CloseNew ==
  /\ parent = "close"
  /\ parent' = "accept"
  /\ fds' = [fds EXCEPT ![Main] = @ \ {newsockfd}]
  /\ newsockfd' = Failed
  /\ UNCHANGED <<errno, sigcld, backlog, child, ready, net>>

-----------------------------------------------------------------------------
(* The child of a client: do_proxy. *)

(* The child ends and its sockets are closed with it. *)
Exit(c) ==
  /\ child' = [child EXCEPT ![c] = "zombie"]
  /\ ready' = [ready EXCEPT ![c] = {}]
  /\ fds' = [fds EXCEPT ![c] = {}]
  /\ sigcld' = (parent # "dead")
  /\ UNCHANGED <<parent, newsockfd, errno, backlog>>

HostConnect(c) ==
  /\ child[c] = "connect"
  /\ child' = [child EXCEPT ![c] = "select"]
  /\ UNCHANGED <<main, ready, fds, net>>

(* The message to the client is not data of the host and is left out. *)
HostConnectFails(c) == child[c] = "connect" /\ Exit(c) /\ UNCHANGED net

Select(c) ==
  /\ child[c] = "select"
  /\ ready' = [ready EXCEPT ![c] = {s \in Sides : queued[c][s] > 0 \/ s \in ended[c]}]
  /\ ready'[c] # {}
  /\ child' = [child EXCEPT ![c] = "user"]
  /\ UNCHANGED <<main, fds, net>>

After(s) == IF s = "user" THEN "host" ELSE "select"

(* One half of the loop's body: the side s is read if select() reported it *)
(* and what was read is written to the other side.                         *)
Copy(c, s) ==
  /\ child[c] = s
  /\ IF s \notin ready[c]
     THEN child' = [child EXCEPT ![c] = After(s)] /\ UNCHANGED <<main, ready, fds, net>>
     ELSE IF queued[c][s] = 0 THEN Exit(c) /\ UNCHANGED net
     ELSE /\ queued' = [queued EXCEPT ![c][s] = 0]
          /\ UNCHANGED <<sent, ended, gone>>
          /\ \/ /\ got' = [got EXCEPT ![c][Other(s)] = @ + queued[c][s]]
                /\ child' = [child EXCEPT ![c] = After(s)]
                /\ UNCHANGED <<main, ready, fds>>
             \/ Other(s) \in gone[c] /\ Exit(c) /\ UNCHANGED got

-----------------------------------------------------------------------------
MainStep == Signal \/ Interrupted \/ (\E c \in Clients : Accept(c)) \/ Check
            \/ Fork \/ ForkFails \/ CloseNew
ChildStep(c) == HostConnect(c) \/ HostConnectFails(c) \/ Select(c)
                \/ \E s \in Sides : Copy(c, s)
PeerStep(c) == Connect(c) \/ \E s \in Sides : Send(c, s) \/ End(c, s)

Next == MainStep \/ \E c \in Clients : ChildStep(c) \/ PeerStep(c)

Spec == Init /\ [][Next]_vars

-----------------------------------------------------------------------------
(* A client's socket is held only by its own child, and by main until it   *)
(* has closed it: a child never inherits another client's connection.      *)
OnlyOwnChild ==
  /\ \A c \in Clients : fds[c] \subseteq {c}
  /\ fds[Main] \subseteq {newsockfd}

(* Every ended child has been waited for, though several may share one     *)
(* pending signal, as long as main runs.                                   *)
AllReaped == parent = "dead" \/ \A c \in Clients : child[c] # "zombie"

(* A side of a served connection has ended; such connections are closed in *)
(* every process, so that the other side sees the end.                     *)
SideEnds == \E c \in Clients : Serving(c) /\ ended[c] # {}
Disconnected ==
  \A c \in Clients : child[c] # "none" /\ ended[c] # {} =>
     \A p \in Clients \cup {Main} : c \notin fds[p]

(* What a side sends on a served connection has reached the other side,    *)
(* also when it is sent right before the end of the stream, unless the     *)
(* other side ended its own stream or the sender closed without reading    *)
(* on.                                                                     *)
Underway(c, s) == Serving(c) /\ queued[c][s] > 0
Forwarded(c, s) == got[c][Other(s)] = sent[c][s] \/ Other(s) \in ended[c] \/ s \in gone[c]

(* An accept() interrupted by a signal is retried: main never leaves its   *)
(* loop because of one.                                                    *)
Retried == parent # "dead"
=============================================================================
