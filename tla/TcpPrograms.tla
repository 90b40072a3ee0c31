----------------------------- MODULE TcpPrograms -----------------------------
(***************************************************************************)
(* The client and server programs built on TcpStream and Acceptor: ttcp    *)
(* (tpc/ttcp), the echo client and server (tpc/echoserver) and the         *)
(* request client and server of tpc/nodelay.  One client and the server's  *)
(* side of its connection run against each other over a TCP connection     *)
(* that holds Cap bytes in each direction; a write may take any part of    *)
(* what it is given, and either process may be killed.                     *)
(*                                                                         *)
(* A byte of an integer in network order is <<value, position>>, a byte of *)
(* a payload <<Payload, what it is>>.  An interrupted write is repeated    *)
(* and changes nothing.                                                    *)
(***************************************************************************)
EXTENDS Integers, Sequences, SequencesExt

CONSTANTS Programs,       \* of "ttcp", "echo" and "nodelay"
          Numbers,        \* opt.number, or num: how many messages
          Lengths,        \* opt.length, or len: the length of a message
          Cap,            \* bytes a direction of the connection holds
          Buf,            \* sizeof(buf) of the echo server
          Word            \* sizeof(int32_t)

VARIABLES program,        \* the programs that run
          proc,           \* per side: what it is at, and its variables
          wire,           \* per side: the bytes on their way to it
          open,           \* per side: is its end of the connection open
          reset,          \* has the connection been reset
          faults          \* what went wrong: nothing, or a cause

vars == <<program, proc, wire, open, reset, faults>>

Sides == {"client", "server"}
Peer(s) == CHOOSE p \in Sides : p # s
Payload == -2
Garbled == -1
Ended == {"done", "failed", "aborted", "killed"}

htonl(v) == [k \in 1..Word |-> <<v, k>>]
ntohl(b) == IF b = htonl(b[1][1]) THEN b[1][1] ELSE Garbled
Digits(n) == [k \in 1..n |-> <<Payload, (k - 1) % 16>>]
Letters(n) == [k \in 1..n |-> <<Payload, 83>>]

-----------------------------------------------------------------------------
(* What each side does next.  A side that is sending has the bytes left in rest; one *)
(* that is receiving has those that have come in got, and waits for Wanted(s).       *)

At(p, where) == [p EXCEPT !.pc = where, !.got = <<>>]
Sending(p, where, bytes) == [p EXCEPT !.pc = where, !.rest = bytes, !.got = <<>>]

Sends == {"session", "payload", "message", "request", "echo", "answer"}
Receives == {"ack", "reply", "acks", "hello", "length", "data", "head", "body"}

Wanted(p) ==
    CASE p.pc = "hello" -> 2 * Word
      [] p.pc \in {"reply", "data", "body"} -> p.len
      [] OTHER -> Word

\* The programs.  Each is told how its last call ended: ok when all bytes were sent or
\* received, the bytes that were received; the first call is the connect or the accept.

NextPayload(p) ==
    IF p.i < p.number THEN Sending(p, "payload", htonl(p.len) \o Digits(p.len)) ELSE At(p, "done")

transmit(p, ok, bytes) ==
    CASE p.pc = "connect" -> Sending(p, "session", htonl(p.number) \o htonl(p.len))
      [] p.pc = "session" -> IF ok THEN NextPayload(p) ELSE At(p, "failed")
      [] p.pc = "payload" -> At(p, IF ok THEN "ack" ELSE "aborted")
      [] p.pc = "ack" ->
           IF ok /\ ntohl(bytes) = p.len THEN NextPayload([p EXCEPT !.i = @ + 1]) ELSE At(p, "aborted")

NextLength(p) == At(p, IF p.i < p.number THEN "length" ELSE "done")

receive(p, ok, bytes) ==
    CASE p.pc = "accept" -> At(p, IF ok THEN "hello" ELSE "failed")
      [] ~ok -> At(p, "failed")
      [] p.pc = "hello" ->
           NextLength([p EXCEPT !.number = ntohl(SubSeq(bytes, 1, Word)),
                                !.len = ntohl(SubSeq(bytes, Word + 1, 2 * Word))])
      [] p.pc = "length" -> At(p, IF ntohl(bytes) = p.len THEN "data" ELSE "aborted")
      [] p.pc = "data" -> [Sending(p, "answer", htonl(p.len)) EXCEPT !.got = bytes]
      [] p.pc = "answer" -> NextLength([p EXCEPT !.i = @ + 1])

echoclient(p, ok, bytes) ==
    CASE p.pc = "connect" -> Sending(p, "message", Letters(p.len))
      [] p.pc = "message" -> At(p, "reply")
      [] p.pc = "reply" -> [p EXCEPT !.pc = IF ok THEN "done" ELSE "failed", !.got = bytes]

\* The thread of a connection; a failed accept gives it no stream.
echoserver(p, ok, bytes) ==
    CASE p.pc = "accept" -> At(p, IF ok THEN "some" ELSE "aborted")
      [] p.pc = "some" -> IF ok THEN Sending(p, "echo", bytes) ELSE At(p, "done")
      [] p.pc = "echo" -> At(p, IF ok THEN "some" ELSE "failed")

\* Header and payload are sent in one call or in two; their results are only printed.
NextRequest(p) ==
    IF p.i < p.number THEN Sending(p, "request", htonl(p.len) \o Letters(p.len))
    ELSE [At(p, IF p.number = 0 THEN "done" ELSE "acks") EXCEPT !.i = 0]

nodelayclient(p, ok, bytes) ==
    CASE p.pc = "connect" -> NextRequest(p)
      [] p.pc = "request" -> NextRequest([p EXCEPT !.i = @ + 1])
      [] p.pc = "acks" -> At([p EXCEPT !.i = @ + 1], IF p.i + 1 < p.number THEN "acks" ELSE "done")

nodelayserver(p, ok, bytes) ==
    CASE p.pc = "accept" -> At(p, IF ok THEN "head" ELSE "aborted")
      [] p.pc = "head" /\ ok -> At([p EXCEPT !.len = ntohl(bytes)], "body")
      [] p.pc = "head" /\ ~ok -> At(p, IF bytes = <<>> THEN "done" ELSE "aborted")
      [] p.pc = "body" -> IF ok THEN [Sending(p, "answer", htonl(p.len)) EXCEPT !.got = bytes] ELSE At(p, "aborted")
      [] p.pc = "answer" -> At([p EXCEPT !.i = @ + 1], IF ok THEN "head" ELSE "aborted")

After(s, p, ok, bytes) ==
    CASE program = "ttcp" -> IF s = "client" THEN transmit(p, ok, bytes) ELSE receive(p, ok, bytes)
      [] program = "echo" -> IF s = "client" THEN echoclient(p, ok, bytes) ELSE echoserver(p, ok, bytes)
      [] program = "nodelay" -> IF s = "client" THEN nodelayclient(p, ok, bytes) ELSE nodelayserver(p, ok, bytes)

-----------------------------------------------------------------------------
Init ==
    /\ program \in Programs
    /\ \E number \in Numbers, len \in Lengths :
          proc = [s \in Sides |->
                    [pc |-> IF s = "client" THEN "connect" ELSE "accept", rest |-> <<>>, got |-> <<>>, i |-> 0,
                     number |-> IF s = "client" THEN number ELSE 0, len |-> IF s = "client" THEN len ELSE 0]]
    /\ wire = [s \in Sides |-> <<>>] /\ open = [s \in Sides |-> FALSE]
    /\ reset = FALSE /\ faults = "none"

\* Side s goes on as p.  A side that has ended closes its socket: bytes it has not read
\* reset the connection.
GoOn(s, p, unread) ==
    /\ proc' = [proc EXCEPT ![s] = p]
    /\ open' = [open EXCEPT ![s] = @ /\ p.pc \notin Ended]
    /\ reset' = (reset \/ (p.pc \in Ended /\ open[s] /\ unread # <<>>))

\* TcpStream::connect and Acceptor::accept, when nothing goes wrong.
Connect ==
    /\ proc["client"].pc = "connect" /\ proc["server"].pc = "accept"
    /\ proc' = [s \in Sides |-> After(s, proc[s], TRUE, <<>>)]
    /\ open' = [s \in Sides |-> s = "server" \/ proc'["client"].pc \notin Ended]
    /\ UNCHANGED <<program, wire, reset, faults>>

\* The name does not resolve, or the connection is refused.
Refused ==
    /\ proc["client"].pc = "connect" /\ faults' = "refused"
    /\ proc' = [proc EXCEPT !["client"].pc = "failed"]
    /\ UNCHANGED <<program, wire, open, reset>>

\* accept fails.  ttcp returns; the others use the null stream.
AcceptFails ==
    /\ proc["client"].pc = "connect" /\ proc["server"].pc = "accept" /\ faults' = "accept"
    /\ proc' = [s \in Sides |-> After(s, proc[s], s = "client", <<>>)]
    /\ open' = [s \in Sides |-> s = "client" /\ proc'["client"].pc \notin Ended]
    /\ UNCHANGED <<program, wire, reset>>

\* One write of sendAll: it takes at least a byte, or fails when the peer is gone (SIGPIPE is
\* ignored); the first writes to a peer that has gone may still succeed.
\* Mutant: what one write takes is all there is to send.
SendOnce(s) ==
    LET p == proc[s]
        to == Peer(s)
    IN  /\ p.pc \in Sends /\ open[to] /\ (p.rest = <<>> \/ Len(wire[to]) < Cap)
        /\ \E n \in 0..Len(p.rest) :
              /\ n = 0 <=> p.rest = <<>>
              /\ Len(wire[to]) + n <= Cap
              /\ wire' = [wire EXCEPT ![to] = @ \o SubSeq(p.rest, 1, n)]
              /\ GoOn(s, After(s, [p EXCEPT !.rest = <<>>], TRUE, <<>>), wire[s])
        /\ UNCHANGED <<program, faults>>

sendAll(s) ==
    LET p == proc[s]
        to == Peer(s)
    IN  /\ p.pc \in Sends
        /\ \/ \E n \in 0..Len(p.rest) :
                /\ open[to] /\ (n = 0 <=> p.rest = <<>>)
                /\ Len(wire[to]) + n <= Cap \/ n = 0
                /\ wire' = [wire EXCEPT ![to] = @ \o SubSeq(p.rest, 1, n)]
                /\ LET left == [p EXCEPT !.rest = SubSeq(@, n + 1, Len(@))]
                   IN  GoOn(s, IF left.rest = <<>> THEN After(s, left, TRUE, <<>>) ELSE left, wire[s])
           \/ /\ ~open[to] /\ p.rest = <<>>
              /\ GoOn(s, After(s, p, TRUE, <<>>), wire[s]) /\ UNCHANGED wire
           \/ /\ ~open[to] /\ p.rest # <<>>
              /\ LET g == After(s, [p EXCEPT !.rest = <<>>], ~reset, <<>>)
                 IN  /\ proc' = [proc EXCEPT ![s] = g]
                     /\ open' = [open EXCEPT ![s] = @ /\ g.pc \notin Ended]
              /\ reset' = TRUE /\ UNCHANGED wire
        /\ UNCHANGED <<program, faults>>

\* recv with MSG_WAITALL takes bytes as they come until it has all of them, the peer has
\* closed and nothing is left, or the connection is reset.
receiveAll(s) ==
    LET p == proc[s]
        n == IF Wanted(p) - Len(p.got) < Len(wire[s]) THEN Wanted(p) - Len(p.got) ELSE Len(wire[s])
        bytes == p.got \o SubSeq(wire[s], 1, n)
        left == SubSeq(wire[s], n + 1, Len(wire[s]))
    IN  /\ p.pc \in Receives
        /\ \/ /\ Len(bytes) = Wanted(p)
              /\ GoOn(s, After(s, p, TRUE, bytes), left) /\ wire' = [wire EXCEPT ![s] = left]
           \/ /\ n > 0 /\ Len(bytes) < Wanted(p)
              /\ GoOn(s, [p EXCEPT !.got = bytes], left) /\ wire' = [wire EXCEPT ![s] = left]
           \/ /\ ~open[Peer(s)] /\ (wire[s] = <<>> \/ reset) /\ Len(p.got) < Wanted(p)
              /\ GoOn(s, After(s, p, FALSE, p.got), <<>>) /\ wire' = [wire EXCEPT ![s] = <<>>]
        /\ UNCHANGED <<program, faults>>

\* The echo server takes what has come, up to its buffer, and sends it back.
receiveSome(s) ==
    LET p == proc[s] IN
    /\ p.pc = "some"
    /\ \/ /\ wire[s] # <<>>
          /\ \E n \in 1..Len(wire[s]) :
                /\ n <= Buf /\ (n < Len(wire[s]) => n = Buf)
                /\ wire' = [wire EXCEPT ![s] = SubSeq(@, n + 1, Len(@))]
                /\ GoOn(s, After(s, p, TRUE, SubSeq(wire[s], 1, n)), <<>>)
       \/ /\ ~open[Peer(s)] /\ (wire[s] = <<>> \/ reset)
          /\ GoOn(s, After(s, p, FALSE, <<>>), <<>>) /\ wire' = [wire EXCEPT ![s] = <<>>]
    /\ UNCHANGED <<program, faults>>

\* A process is killed once it is connected.
Kill(s) ==
    /\ faults = "none" /\ open[s] /\ faults' = "killed"
    /\ GoOn(s, At(proc[s], "killed"), wire[s])
    /\ UNCHANGED <<program, wire>>

Step(s) == sendAll(s) \/ receiveAll(s) \/ receiveSome(s)
Next == Connect \/ Refused \/ AcceptFails \/ \E s \in Sides : Step(s) \/ Kill(s)

-----------------------------------------------------------------------------
\* Both sides are in the middle of a sendAll and both directions are full: the client writes
\* its requests before it reads any answer.
Wedged ==
    /\ proc["client"].pc \in {"message", "request"} /\ proc["server"].pc \in {"echo", "answer"}
    /\ \A s \in Sides : proc[s].rest # <<>> /\ Len(wire[s]) = Cap
TooMuch ==
    \/ program = "echo" /\ proc["client"].len > 2 * Cap + 1
    \/ program = "nodelay" /\ proc["client"].number * Word > Cap
WedgedByTooMuch == Wedged /\ TooMuch

\* The client has ended, and so has the server's side of its connection.
Finished == proc["client"].pc \in Ended /\ proc["server"].pc \in Ended \cup {"accept"}

\* ttcp, echo, nodelay: whatever parts the kernel takes the messages in, neither side sees a
\* short message or a wrong length while nothing has failed; the server has each payload as
\* it was sent when it answers; ttcp keeps in step, one payload ahead of its answer at most;
\* and the echo that the client ends with is its message.
TransfersExact ==
    LET c == proc["client"]
        r == proc["server"]
    IN  /\ faults = "none" => c.pc \notin {"failed", "aborted"} /\ r.pc \notin {"failed", "aborted"}
        /\ r.pc = "answer" =>
              r.len = c.len /\ r.got = IF program = "ttcp" THEN Digits(r.len) ELSE Letters(r.len)
        /\ program = "ttcp" => c.i <= r.i /\ r.i <= c.i + 1
        /\ program = "echo" /\ c.pc = "done" => c.got = Letters(c.len)
        /\ Wedged => program # "ttcp"
=============================================================================
