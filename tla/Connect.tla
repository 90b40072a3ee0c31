------------------------------- MODULE Connect -------------------------------
(***************************************************************************)
(* Connecting in util/netbase/netbase.cpp: ConnectSocket and               *)
(* ConnectSocketByName, directly or through a SOCKS5 proxy, while other    *)
(* threads set proxies.  The proxy answers in pieces, late, not at all, or *)
(* closes; time is counted in selects of InterruptibleRecv.  The proofs    *)
(* below are for any networks, proxies, timeout and answers.               *)
(***************************************************************************)
EXTENDS Integers, Sequences, TLAPS

CONSTANTS Networks,             \* networks callers connect to
          NetProxies,           \* proxies callers set for a network
          NameProxies,          \* proxies callers set for names
          Randomize,            \* those with randomize_credentials
          SOCKS5_RECV_TIMEOUT,  \* selects of one InterruptibleRecv
          Methods, Verdicts,    \* a proxy's answers to the greeting, to credentials
          Grants, Refusals      \* and to the request

\* The first byte that the destination sends.
Data == 99

\* The bytes of an answer that grants the request, by the type of the address in it.
GrantLength(g) == CASE g[4] = 1 -> 10 [] g[4] = 4 -> 22 [] g[4] = 3 -> 7 + g[5]

\* No proxy and no network has a name that stands for something else, and proxies speak
\* SOCKS5: two bytes choose a method or judge the credentials, an answer that grants the
\* request is complete and what the destination sends follows it, and one that refuses
\* it says so in its first four bytes.
ASSUME ConnectAssumption ==
    /\ "none" \notin NameProxies
    /\ {"none", "name", "long"} \cap Networks = {}
    /\ Methods \cup Verdicts \subseteq {a \in Seq(Nat) : Len(a) = 2}
    /\ Grants \subseteq {g \in Seq(Nat) : /\ Len(g) > 5 /\ g[1] = 5 /\ g[2] = 0 /\ g[3] = 0
                                         /\ g[4] \in {1, 3, 4}
                                         /\ Len(g) = GrantLength(g) + 1 /\ g[Len(g)] = Data}
    /\ Refusals \subseteq {r \in Seq(Nat) : Len(r) >= 4 => \/ r[1] # 5 \/ r[2] # 0 \/ r[3] # 0
                                                         \/ r[4] \notin {1, 3, 4}}

VARIABLES proxyInfo, nameProxy,   \* under cs_proxyInfos
          connectPc, dest,        \* the attempt: where it is and whom to reach
          target,                 \* whom the socket is connected to: a proxy or dest
          copied,                 \* ConnectSocketByName's copy of nameProxy
          reports, failed,        \* outProxyConnectionFailed: is it passed, its value
          sock, ret,              \* hSocket, and what the call returned
          stage, len, got, clock, \* InterruptibleRecv: what is read, len, data, curTime
          transit, wire, closed,  \* from the proxy: on the way, received, end of stream
          atStart, lookedUp       \* nameProxy when the attempt began; was there a lookup

connectVars == <<proxyInfo, nameProxy, connectPc, dest, target, copied, reports, failed, sock,
                 ret, stage, len, got, clock, transit, wire, closed, atStart, lookedUp>>
proxies == <<proxyInfo, nameProxy>>
proxyStream == <<transit, wire, closed>>
reading == <<stage, len, got, clock>>
asked == <<dest, copied, reports, atStart, lookedUp>>

NoProxy == "none"
Direct == "direct"

ConnectInit ==
    /\ proxyInfo = [n \in Networks |-> NoProxy] /\ nameProxy = NoProxy
    /\ connectPc = "idle" /\ dest = "none" /\ target = Direct /\ copied = NoProxy
    /\ reports = FALSE /\ failed = FALSE /\ sock = "none" /\ ret = "none"
    /\ stage = "none" /\ len = 0 /\ got = <<>> /\ clock = 0
    /\ transit = <<>> /\ wire = <<>> /\ closed = FALSE
    /\ atStart = NoProxy /\ lookedUp = FALSE

attempt == <<connectPc, target, failed, sock, ret>>

SetProxy(net, p) ==
    /\ proxyInfo' = [proxyInfo EXCEPT ![net] = p]
    /\ UNCHANGED <<nameProxy, attempt, reading, proxyStream, asked>>

SetNameProxy(p) ==
    /\ nameProxy' = p
    /\ UNCHANGED <<proxyInfo, attempt, reading, proxyStream, asked>>

-----------------------------------------------------------------------------
\* GetProxy for the destination's network, or no proxy needed.
Route(net) == IF proxyInfo[net] # NoProxy THEN proxyInfo[net] ELSE Direct

\* ConnectSocket to an address of network net.
ConnectSocket(net) ==
    /\ connectPc = "idle"
    /\ connectPc' = "dial" /\ dest' = net /\ target' = Route(net) /\ reports' = TRUE
    /\ failed' = FALSE /\ ret' = "none" /\ copied' = NoProxy /\ sock' = "none"
    /\ atStart' = NoProxy /\ lookedUp' = FALSE
    /\ UNCHANGED <<proxies, reading, proxyStream>>

\* ConnectSocketByName up to GetNameProxy.
ConnectSocketByName(d) ==
    /\ connectPc = "idle"
    /\ connectPc' = "resolve" /\ dest' = d /\ target' = Direct /\ reports' = TRUE
    /\ failed' = FALSE /\ ret' = "none" /\ sock' = "none"
    /\ copied' = nameProxy /\ atStart' = nameProxy /\ lookedUp' = FALSE
    /\ UNCHANGED <<proxies, reading, proxyStream>>

\* CNetAddr(strDest, fNameLookup && !HaveNameProxy()): a numeric address resolves to itself,
\* a name to an address or to nothing; then ConnectSocket, without outProxyConnectionFailed.
Resolve ==
    /\ connectPc = "resolve"
    /\ lookedUp' = (dest \notin Networks /\ nameProxy = NoProxy)
    /\ \/ \E net \in Networks :
            /\ dest = net \/ (lookedUp' /\ dest = "name" /\ net # "onion")
            /\ connectPc' = "dial" /\ target' = Route(net) /\ reports' = FALSE /\ dest' = net
       \/ /\ dest \notin Networks
          /\ connectPc' = "named" /\ UNCHANGED <<target, reports, dest>>
    /\ UNCHANGED <<proxies, reading, proxyStream, copied, failed, sock, ret, atStart>>

\* The name is not resolved: through the name proxy if there is one now.
ThroughNameProxy ==
    /\ connectPc = "named"
    /\ \/ nameProxy = NoProxy /\ connectPc' = "idle" /\ ret' = "fail" /\ UNCHANGED target
       \/ nameProxy # NoProxy /\ connectPc' = "dial" /\ target' = copied /\ UNCHANGED ret
    /\ UNCHANGED <<proxies, reading, proxyStream, asked, failed, sock>>

\* The call returns.
Return(r) == connectPc' = "idle" /\ ret' = r

\* Every failure after socket() closes the socket.
CloseAndFail == Return("fail") /\ sock' = "none"

DialFailed == CloseAndFail /\ failed' = (reports /\ target # Direct)

Established == connectPc' = IF target = Direct THEN "done" ELSE "socks"

\* ConnectSocketDirectly: no socket for an onion address or when socket() fails; connect()
\* succeeds, fails or is in progress.
Dial ==
    /\ connectPc = "dial"
    /\ \/ DialFailed
       \/ /\ ~(target = Direct /\ dest = "onion")
          /\ sock' = "open" /\ UNCHANGED <<ret, failed>>
          /\ Established \/ connectPc' = "connecting"
    /\ UNCHANGED <<proxies, reading, proxyStream, asked, target>>

\* select() says that the connection is there, or times out, or fails.
Connecting ==
    /\ connectPc = "connecting"
    /\ \/ DialFailed
       \/ Established /\ UNCHANGED <<sock, ret, failed>>
    /\ UNCHANGED <<proxies, reading, proxyStream, asked, target>>

\* A direct connection needs nothing more.
Done ==
    /\ connectPc = "done" /\ Return("ok")
    /\ UNCHANGED <<proxies, reading, proxyStream, asked, target, failed, sock>>

-----------------------------------------------------------------------------
\* InterruptibleRecv of n bytes.
Read(what, n) == connectPc' = "recv" /\ stage' = what /\ len' = n /\ got' = <<>> /\ clock' = 0

\* send() of a request: the proxy gets it and may answer, or send() fails or is short.
Send(what, n, answers) ==
    \/ /\ Read(what, n) /\ UNCHANGED <<sock, ret, closed>>
       /\ wire' = wire /\ \E a \in answers \cup {<<>>} : transit' = transit \o a
    \/ CloseAndFail /\ UNCHANGED <<reading, proxyStream>>

\* From here on only the answers matter.
ForgetAsked ==
    /\ dest' = "none" /\ copied' = NoProxy /\ reports' = FALSE
    /\ atStart' = NoProxy /\ lookedUp' = FALSE

\* Socks5 begins: a name of more than 255 characters is refused.
Greet ==
    /\ connectPc = "socks"
    /\ \/ dest = "long" /\ CloseAndFail /\ UNCHANGED <<reading, proxyStream>>
       \/ dest # "long" /\ Send("method", 2, Methods)
    /\ ForgetAsked
    /\ UNCHANGED <<proxies, target, failed>>

\* Mutant: recv() takes all there is, as if nothing could follow the answer.
RecvAll ==
    /\ connectPc = "recv" /\ len > 0 /\ clock < SOCKS5_RECV_TIMEOUT /\ wire # <<>>
    /\ got' = got \o wire /\ wire' = <<>> /\ len' = IF Len(wire) > len THEN 0 ELSE len - Len(wire)
    /\ clock' \in {clock, clock + 1}
    /\ UNCHANGED <<proxies, asked, attempt, stage, transit, closed>>

\* One turn of InterruptibleRecv: recv() gives what is there, at most len bytes.
Recv ==
    /\ connectPc = "recv" /\ len > 0 /\ clock < SOCKS5_RECV_TIMEOUT /\ wire # <<>>
    /\ LET n == IF Len(wire) > len THEN len ELSE Len(wire) IN
       got' = got \o SubSeq(wire, 1, n) /\ wire' = SubSeq(wire, n + 1, Len(wire)) /\ len' = len - n
    /\ clock' \in {clock, clock + 1}
    /\ UNCHANGED <<proxies, asked, attempt, stage, transit, closed>>

\* Mutant: a select() that comes back without data is not counted.
WaitUncounted ==
    /\ connectPc = "recv" /\ len > 0 /\ clock < SOCKS5_RECV_TIMEOUT
    /\ wire = <<>> /\ ~(closed /\ transit = <<>>)
    /\ UNCHANGED <<proxies, asked, attempt, reading, proxyStream>>

\* recv() would block, and select() comes back without data.
Wait ==
    /\ connectPc = "recv" /\ len > 0 /\ clock < SOCKS5_RECV_TIMEOUT
    /\ wire = <<>> /\ ~(closed /\ transit = <<>>)
    /\ clock' = clock + 1
    /\ UNCHANGED <<proxies, asked, attempt, stage, len, got, proxyStream>>

\* The end of the stream, or the timeout.
RecvFails ==
    /\ connectPc = "recv" /\ len > 0
    /\ (closed /\ wire \o transit = <<>>) \/ clock >= SOCKS5_RECV_TIMEOUT
    /\ CloseAndFail
    /\ UNCHANGED <<proxies, asked, target, failed, reading, proxyStream>>

\* recv() or select() fails for another reason.
RecvBreaks ==
    /\ connectPc = "recv" /\ len > 0 /\ clock < SOCKS5_RECV_TIMEOUT /\ wire = <<>>
    /\ CloseAndFail
    /\ UNCHANGED <<proxies, asked, target, failed, reading, proxyStream>>

\* The bytes are there: what Socks5 makes of them.
Received ==
    /\ connectPc = "recv" /\ len = 0
    /\ \/ /\ stage = "method"
          /\ \/ got = <<5, 2>> /\ target \in Randomize /\ Send("auth", 2, Verdicts)
             \/ got = <<5, 0>> /\ Send("reply", 4, Grants \cup Refusals)
             \/ /\ got # <<5, 0>> /\ ~(got = <<5, 2>> /\ target \in Randomize)
                /\ CloseAndFail /\ UNCHANGED <<reading, proxyStream>>
       \/ /\ stage = "auth"
          /\ \/ got = <<1, 0>> /\ Send("reply", 4, Grants \cup Refusals)
             \/ got # <<1, 0>> /\ CloseAndFail /\ UNCHANGED <<reading, proxyStream>>
       \/ /\ stage = "reply"
          /\ LET accepted == SubSeq(got, 1, 3) = <<5, 0, 0>> IN
             /\ \/ accepted /\ got[4] = 1 /\ Read("addr", 4) /\ UNCHANGED <<sock, ret>>
                \/ accepted /\ got[4] = 4 /\ Read("addr", 16) /\ UNCHANGED <<sock, ret>>
                \/ accepted /\ got[4] = 3 /\ Read("length", 1) /\ UNCHANGED <<sock, ret>>
                \/ ~(accepted /\ got[4] \in {1, 3, 4}) /\ CloseAndFail /\ UNCHANGED reading
             /\ UNCHANGED proxyStream
       \/ stage = "length" /\ Read("addr", got[1]) /\ UNCHANGED <<sock, ret, proxyStream>>
       \/ stage = "addr" /\ Read("port", 2) /\ UNCHANGED <<sock, ret, proxyStream>>
       \/ stage = "port" /\ Return("ok") /\ UNCHANGED <<sock, reading, proxyStream>>
    /\ UNCHANGED <<proxies, asked, target, failed>>

-----------------------------------------------------------------------------
\* The network delivers some of the proxy's bytes; what comes while others wait to be read
\* might as well have come with them.
Deliver ==
    /\ sock = "open" /\ transit # <<>> /\ wire = <<>>
    /\ \E n \in 1 .. Len(transit) :
          wire' = wire \o SubSeq(transit, 1, n) /\ transit' = SubSeq(transit, n + 1, Len(transit))
    /\ UNCHANGED <<proxies, asked, attempt, reading, closed>>

\* The proxy closes the connection.
ProxyCloses ==
    /\ sock = "open" /\ target # Direct /\ ~closed /\ closed' = TRUE
    /\ UNCHANGED <<proxies, asked, attempt, reading, transit, wire>>

\* The caller is done with a connection, or with the remains of one.
Forget ==
    /\ connectPc = "idle" /\ ret # "none"
    /\ ret' = "none" /\ sock' = "none" /\ wire' = <<>> /\ transit' = <<>> /\ closed' = FALSE
    /\ stage' = "none" /\ len' = 0 /\ got' = <<>> /\ clock' = 0
    /\ target' = Direct /\ failed' = FALSE /\ ForgetAsked
    /\ UNCHANGED <<proxies, connectPc>>

\* The steps of a connecting thread that nothing has to go wrong for.
ConnectStep ==
    \/ Resolve \/ ThroughNameProxy \/ Dial \/ Connecting \/ Done \/ Greet
    \/ Recv \/ Wait \/ RecvFails \/ Received

ConnectNext ==
    \/ \E net \in Networks, p \in NetProxies : SetProxy(net, p)
    \/ \E p \in NameProxies : SetNameProxy(p)
    \/ ret = "none" /\ \E net \in Networks : ConnectSocket(net)
    \/ ret = "none" /\ \E d \in Networks \cup {"name", "long"} : ConnectSocketByName(d)
    \/ ConnectStep \/ RecvBreaks \/ Deliver \/ ProxyCloses \/ Forget

ConnectSpec == ConnectInit /\ [][ConnectNext]_connectVars

-----------------------------------------------------------------------------
\* Handshake (Socks5, InterruptibleRecv): however the proxy's answers are cut into pieces,
\* a handshake that succeeds has read the whole answer and nothing of what the destination
\* sends, a call that fails leaves no open socket, and outProxyConnectionFailed is only
\* said of a proxy that was never reached.
HandshakeWhole ==
    /\ ret = "ok" => sock = "open" /\ wire \o transit = IF target = Direct THEN <<>> ELSE <<Data>>
    /\ ret = "fail" => sock = "none"
    /\ failed => ret = "fail" /\ target # Direct /\ stage = "none"

\* Names (ConnectSocketByName): a name is looked up locally only when no name proxy was
\* set as the attempt began, and a connection through the name proxy dials a proxy that
\* was set, unless the proxy was set while the attempt was under way.
NamesStayProxied ==
    atStart # NoProxy =>
        ~lookedUp /\ (dest \in {"name", "long"} /\ sock = "open" => target \in NameProxies)

\* Connections: a SOCKS5 handshake that succeeds has read the proxy's whole answer and no
\* byte more, one that fails leaves no open socket, and a name goes to the name proxy that
\* was set, never to a local lookup.
ConnectsSound == HandshakeWhole /\ NamesStayProxied

-----------------------------------------------------------------------------
\* Sequences put together and cut, as operators that the provers need not look into.
Join(s, t) == s \o t
UpTo(s, n) == SubSeq(s, 1, n)
After(s, n) == SubSeq(s, n + 1, Len(s))

LEMMA CutFacts ==
    ASSUME NEW S, NEW s \in Seq(S), NEW n \in 0 .. Len(s)
    PROVE  /\ UpTo(s, n) \in Seq(S) /\ Len(UpTo(s, n)) = n
           /\ After(s, n) \in Seq(S) /\ Len(After(s, n)) = Len(s) - n
           /\ \A k \in 1 .. n : UpTo(s, n)[k] = s[k]
           /\ \A k \in 1 .. Len(s) - n : After(s, n)[k] = s[n + k]
  BY DEF UpTo, After

LEMMA JoinFacts ==
    ASSUME NEW S, NEW s \in Seq(S), NEW t \in Seq(S)
    PROVE  /\ Join(s, t) \in Seq(S) /\ Len(Join(s, t)) = Len(s) + Len(t)
           /\ \A k \in 1 .. Len(s) : Join(s, t)[k] = s[k]
           /\ \A k \in 1 .. Len(t) : Join(s, t)[Len(s) + k] = t[k]
           /\ Len(s) \in Nat /\ Len(t) \in Nat
  BY DEF Join

LEMMA JoinEmpty ==
    ASSUME NEW S, NEW s \in Seq(S)
    PROVE  <<>> \in Seq(S) /\ Join(<<>>, s) = s /\ Join(s, <<>>) = s /\ Len(<<>>) = 0
  BY DEF Join

LEMMA Nothing == <<>> \in Seq(Nat) /\ Len(<<>>) = 0
  OBVIOUS

LEMMA ByteOf ==
    ASSUME NEW s \in Seq(Nat), NEW k \in 1 .. Len(s)
    PROVE  s[k] \in Nat
  OBVIOUS

LEMMA Associates ==
    ASSUME NEW S, NEW a \in Seq(S), NEW b \in Seq(S), NEW t \in Seq(S)
    PROVE  Join(Join(a, b), t) = Join(a, Join(b, t))
  BY DEF Join

LEMMA Regroup ==
    ASSUME NEW S, NEW g \in Seq(S), NEW a \in Seq(S), NEW b \in Seq(S), NEW t \in Seq(S)
    PROVE  Join(Join(g, a), Join(b, t)) = Join(g, Join(Join(a, b), t))
  BY DEF Join

LEMMA LastJoined ==
    ASSUME NEW S, NEW a \in Seq(S), NEW r \in Seq(S), Len(r) > 0
    PROVE  Join(a, r)[Len(Join(a, r))] = r[Len(r)]
  BY DEF Join

LEMMA NoBytes ==
    ASSUME NEW S, NEW s \in Seq(S), Len(s) = 0
    PROVE  s = <<>>
  OBVIOUS

LEMMA OneByte ==
    ASSUME NEW S, NEW s \in Seq(S), Len(s) = 1, NEW d, s[1] = d
    PROVE  s = <<d>>
  OBVIOUS

LEMMA SameBytes ==
    ASSUME NEW S, NEW s \in Seq(S), NEW t \in Seq(S), Len(s) = Len(t),
           \A k \in 1 .. Len(s) : s[k] = t[k]
    PROVE  s = t
  OBVIOUS

LEMMA JoinsTo ==
    ASSUME NEW S, NEW w \in Seq(S), NEW a \in Seq(S), NEW b \in Seq(S),
           Len(b) = Len(w) - Len(a),
           \A k \in 1 .. Len(a) : a[k] = w[k],
           \A k \in 1 .. Len(b) : b[k] = w[Len(a) + k]
    PROVE  Join(a, b) = w
  <1>1. /\ Join(a, b) \in Seq(S) /\ Len(Join(a, b)) = Len(a) + Len(b)
        /\ \A k \in 1 .. Len(a) : Join(a, b)[k] = a[k]
        /\ \A k \in 1 .. Len(b) : Join(a, b)[Len(a) + k] = b[k]
        /\ Len(a) \in Nat /\ Len(b) \in Nat /\ Len(w) \in Nat
    BY DEF Join
  <1>2. ASSUME NEW k \in 1 .. Len(w) PROVE Join(a, b)[k] = w[k]
    <2>1. CASE k <= Len(a)
      BY <1>1, <2>1
    <2>2. CASE k > Len(a)
      <3> DEFINE i == k - Len(a)
      <3>1. i \in 1 .. Len(b) /\ Len(a) + i = k
        BY <1>1, <2>2
      <3> HIDE DEF i
      <3>2. Join(a, b)[Len(a) + i] = b[i] /\ b[i] = w[Len(a) + i]
        BY <1>1, <3>1
      <3>. QED
        BY <3>1, <3>2
    <2>. QED
      BY <2>1, <2>2, <1>1
  <1>3. Len(Join(a, b)) = Len(w)
    BY <1>1
  <1>. QED
    BY <1>1, <1>2, <1>3, SameBytes

LEMMA CutJoins ==
    ASSUME NEW S, NEW w \in Seq(S), NEW n \in 0 .. Len(w)
    PROVE  Join(UpTo(w, n), After(w, n)) = w
  <1>1. /\ UpTo(w, n) \in Seq(S) /\ Len(UpTo(w, n)) = n
        /\ After(w, n) \in Seq(S) /\ Len(After(w, n)) = Len(w) - n
        /\ \A k \in 1 .. Len(UpTo(w, n)) : UpTo(w, n)[k] = w[k]
        /\ \A k \in 1 .. Len(After(w, n)) : After(w, n)[k] = w[Len(UpTo(w, n)) + k]
    BY SMTT(30) DEF UpTo, After
  <1>2. Len(After(w, n)) = Len(w) - Len(UpTo(w, n))
    BY <1>1
  <1>. QED
    BY <1>1, <1>2, JoinsTo, Zenon

\* recv() of the first n bytes of w, behind what is there and before what is to come.
LEMMA Taking ==
    ASSUME NEW S, NEW g \in Seq(S), NEW w \in Seq(S), NEW t \in Seq(S), NEW n \in 0 .. Len(w)
    PROVE  /\ After(w, n) \in Seq(S) /\ Join(g, UpTo(w, n)) \in Seq(S)
           /\ Join(Join(g, UpTo(w, n)), Join(After(w, n), t)) = Join(g, Join(w, t))
           /\ Len(Join(g, UpTo(w, n))) = Len(g) + n /\ Len(g) \in Nat
           /\ Len(Join(w, t)) \in Nat /\ Len(Join(After(w, n), t)) = Len(Join(w, t)) - n
           /\ Len(Join(w, t)) > n =>
                 Join(After(w, n), t)[Len(Join(After(w, n), t))] = Join(w, t)[Len(Join(w, t))]
  <1> DEFINE front == UpTo(w, n)
             back == After(w, n)
             rest == Join(After(w, n), t)
  <1>1. /\ front \in Seq(S) /\ back \in Seq(S) /\ Len(front) = n /\ Len(back) = Len(w) - n
        /\ Join(front, back) = w
    <2>1. /\ front \in Seq(S) /\ back \in Seq(S)
          /\ Len(front) = n /\ Len(back) = Len(w) - n
      BY CutFacts, Zenon
    <2>2. Join(front, back) = w
      BY CutJoins, Zenon
    <2>. QED
      BY <2>1, <2>2, Zenon
  <1>2. Join(Join(g, front), Join(back, t)) = Join(g, Join(w, t)) /\ Join(front, rest) = Join(w, t)
    <2> HIDE DEF front, back
    <2>. QED
      BY <1>1, Regroup, Associates DEF back
  <1>3. /\ Join(g, front) \in Seq(S) /\ Len(Join(g, front)) = Len(g) + n /\ Len(g) \in Nat
        /\ Len(Join(w, t)) = Len(w) + Len(t) /\ Len(w) \in Nat /\ Len(t) \in Nat
        /\ rest \in Seq(S) /\ Len(rest) = Len(w) - n + Len(t)
    BY <1>1, JoinFacts, Zenon
  <1>4. Len(Join(w, t)) > n => rest[Len(rest)] = Join(w, t)[Len(Join(w, t))]
    <2> HIDE DEF front, rest
    <2>1. Len(Join(w, t)) > n => Len(rest) > 0
      BY <1>3
    <2>2. Len(rest) > 0 => Join(front, rest)[Len(Join(front, rest))] = rest[Len(rest)]
      BY <1>1, <1>3, LastJoined, Zenon
    <2>. QED
      BY <1>2, <2>1, <2>2, Zenon
  <1>. QED
    BY <1>1, <1>2, <1>3, <1>4

-------------------------------------------------------------------------------
\* What the proxy has sent and Socks5 has not read, and all since the last request.
Left == Join(wire, transit)
Answer == Join(got, Left)

Typed ==
    /\ wire \in Seq(Nat) /\ transit \in Seq(Nat) /\ got \in Seq(Nat) /\ len \in Nat
    /\ connectPc \in {"idle", "resolve", "named", "dial", "connecting", "done", "socks", "recv"}
    /\ ret \in {"none", "ok", "fail"}

\* What is still to come of an answer whose address or port is being read.
Remaining(n) == Len(Left) = n /\ Left[Len(Left)] = Data

\* What a stage of the handshake has read and what it will find.
Reading ==
    connectPc = "recv" =>
        \/ stage = "method" /\ Answer \in Methods \cup {<<>>} /\ Len(got) + len = 2
        \/ stage = "auth" /\ Answer \in Verdicts \cup {<<>>} /\ Len(got) + len = 2
        \/ /\ stage = "reply" /\ Answer \in Grants \cup Refusals \cup {<<>>}
           /\ Len(got) + len = 4
        \/ /\ stage = "length" /\ Len(got) + len = 1
           /\ Answer[1] \in Nat /\ Remaining(3 + Answer[1] + len)
        \/ stage = "addr" /\ Remaining(len + 3)
        \/ stage = "port" /\ Remaining(len + 1)

\* The socket and the stream as the call goes on.
Calling ==
    /\ ret # "none" => connectPc = "idle"
    /\ ret = "none" /\ connectPc # "recv" => wire = <<>> /\ transit = <<>> /\ stage = "none"
    /\ connectPc \in {"resolve", "named", "dial"} => sock = "none"
    /\ connectPc \in {"connecting", "done", "socks", "recv"} => sock = "open"
    /\ connectPc = "done" => target = Direct
    /\ connectPc \in {"socks", "recv"} => target # Direct

\* HandshakeWhole in these words.
Ended ==
    /\ ret = "ok" => sock = "open" /\ Left = IF target = Direct THEN <<>> ELSE <<Data>>
    /\ ret = "fail" => sock = "none"
    /\ failed => ret = "fail" /\ target # Direct /\ stage = "none"

\* Once there is a name proxy there is one for good.
Naming ==
    /\ nameProxy \in NameProxies \cup {NoProxy} /\ copied \in NameProxies \cup {NoProxy}
    /\ atStart = copied
    /\ atStart # NoProxy => nameProxy # NoProxy /\ ~ lookedUp
    /\ connectPc = "recv" => dest = "none"
    /\ dest \in {"name", "long"} /\ (sock = "open" \/ connectPc = "dial") => target = copied

ConnectInv == Typed /\ Reading /\ Calling /\ Ended /\ Naming

LEMMA ConnectBegins == ConnectInit => ConnectInv
  <1>. SUFFICES ASSUME ConnectInit PROVE ConnectInv
    OBVIOUS
  <1>. USE DEF ConnectInit
  <1>1. Typed
    BY DEF Typed
  <1>2. Reading /\ Calling /\ Ended /\ Naming
    BY DEF Reading, Calling, Ended, Naming, NoProxy
  <1>. QED
    BY <1>1, <1>2 DEF ConnectInv

LEMMA InvSound == ConnectInv => ConnectsSound
  <1>. SUFFICES ASSUME ConnectInv PROVE ConnectsSound
    OBVIOUS
  <1>1. Left = wire \o transit
    BY DEF Left, Join
  <1>2. HandshakeWhole
    BY <1>1, Zenon DEF ConnectInv, Ended, HandshakeWhole
  <1>3. NamesStayProxied
    BY DEF ConnectInv, Naming, NamesStayProxied
  <1>. QED
    BY <1>2, <1>3 DEF ConnectsSound

\* The steps that neither send nor receive.
LEMMA SameStream ==
    ASSUME ConnectInv, UNCHANGED <<stage, len, got, wire, transit>>
    PROVE  /\ UNCHANGED Left
           /\ Typed' <=> (connectPc \in {"idle", "resolve", "named", "dial", "connecting", "done",
                                          "socks", "recv"} /\ ret \in {"none", "ok", "fail"})'
           /\ connectPc' \in {connectPc} \cup {"idle", "resolve", "named", "dial", "connecting",
                                              "done", "socks"} => Reading'
  <1>1. UNCHANGED <<Left, Answer>>
    BY DEF Left, Answer
  <1>2. connectPc' \in {connectPc} \cup {"idle", "resolve", "named", "dial", "connecting",
                                              "done", "socks"} => Reading'
    BY <1>1 DEF ConnectInv, Reading, Remaining
  <1>. QED
    BY <1>1, <1>2 DEF ConnectInv, Typed

LEMMA SetKeeps ==
    ASSUME ConnectInv,
           \/ \E net \in Networks, p \in NetProxies : SetProxy(net, p)
           \/ \E p \in NameProxies : SetNameProxy(p)
           \/ ProxyCloses
           \/ Wait
    PROVE  ConnectInv'
  <1>1. /\ UNCHANGED <<stage, len, got, wire, transit, connectPc, ret, sock, target, failed>>
        /\ UNCHANGED <<dest, copied, atStart, lookedUp>>
        /\ nameProxy' = nameProxy \/ nameProxy' \in NameProxies
    BY DEF SetProxy, SetNameProxy, ProxyCloses, Wait, attempt, reading, proxyStream, asked, proxies
  <1>2. Typed' /\ Reading' /\ UNCHANGED Left
    BY <1>1, SameStream DEF ConnectInv, Typed
  <1>3. Calling' /\ Ended'
    BY <1>1, <1>2 DEF ConnectInv, Calling, Ended
  <1>4. Naming'
    BY <1>1, ConnectAssumption DEF ConnectInv, Naming, NoProxy
  <1>. QED
    BY <1>2, <1>3, <1>4 DEF ConnectInv

LEMMA CallKeeps ==
    ASSUME ConnectInv,
           \/ ret = "none" /\ \E net \in Networks : ConnectSocket(net)
           \/ ret = "none" /\ \E d \in Networks \cup {"name", "long"} : ConnectSocketByName(d)
    PROVE  ConnectInv'
  <1>1. /\ UNCHANGED <<stage, len, got, wire, transit, nameProxy, ret>>
        /\ connectPc = "idle" /\ connectPc' \in {"dial", "resolve"} /\ sock' = "none"
        /\ ret = "none" /\ failed' = FALSE /\ atStart' = copied' /\ lookedUp' = FALSE
        /\ copied' \in {nameProxy, NoProxy}
        /\ connectPc' = "dial" => dest' \in Networks
    BY DEF ConnectSocket, ConnectSocketByName, reading, proxyStream, proxies
  <1>2. Typed' /\ Reading' /\ UNCHANGED Left
    BY <1>1, SameStream DEF ConnectInv, Typed
  <1>3. Calling' /\ Ended'
    BY <1>1, <1>2 DEF ConnectInv, Calling, Ended
  <1>4. Naming'
    BY <1>1, ConnectAssumption DEF ConnectInv, Naming, NoProxy
  <1>. QED
    BY <1>2, <1>3, <1>4 DEF ConnectInv
LEMMA ResolveKeeps ==
    ASSUME ConnectInv, Resolve
    PROVE  ConnectInv'
  <1>1. /\ UNCHANGED <<stage, len, got, wire, transit, nameProxy>>
        /\ UNCHANGED <<ret, sock, failed, copied, atStart>>
        /\ connectPc = "resolve" /\ connectPc' \in {"dial", "named"}
        /\ connectPc' = "dial" => dest' \in Networks
        /\ lookedUp' => nameProxy = NoProxy
    BY Zenon DEF Resolve, reading, proxyStream, proxies
  <1>2. Typed' /\ Reading' /\ UNCHANGED Left
    BY <1>1, SameStream DEF ConnectInv, Typed
  <1>3. Calling' /\ Ended'
    BY <1>1, <1>2 DEF ConnectInv, Calling, Ended
  <1>4. Naming'
    BY <1>1, ConnectAssumption DEF ConnectInv, Calling, Naming, NoProxy
  <1>. QED
    BY <1>2, <1>3, <1>4 DEF ConnectInv

LEMMA NamedKeeps ==
    ASSUME ConnectInv, ThroughNameProxy
    PROVE  ConnectInv'
  <1>1. /\ UNCHANGED <<stage, len, got, wire, transit, nameProxy>>
        /\ UNCHANGED <<sock, failed, dest, copied, atStart, lookedUp>>
        /\ connectPc = "named"
        /\ \/ connectPc' = "idle" /\ ret' = "fail" /\ UNCHANGED target
           \/ connectPc' = "dial" /\ target' = copied /\ UNCHANGED ret
    BY DEF ThroughNameProxy, reading, proxyStream, proxies, asked
  <1>2. Typed' /\ Reading' /\ UNCHANGED Left
    BY <1>1, SameStream DEF ConnectInv, Typed
  <1>3. Calling' /\ Ended'
    BY <1>1, <1>2 DEF ConnectInv, Calling, Ended
  <1>4. Naming'
    BY <1>1, ConnectAssumption DEF ConnectInv, Naming, NoProxy
  <1>. QED
    BY <1>2, <1>3, <1>4 DEF ConnectInv

LEMMA DialKeeps ==
    ASSUME ConnectInv, Dial \/ Connecting
    PROVE  ConnectInv'
  <1>1. /\ UNCHANGED <<stage, len, got, wire, transit, nameProxy>>
        /\ UNCHANGED <<target, dest, copied, atStart, lookedUp>>
        /\ connectPc \in {"dial", "connecting"}
        /\ \/ /\ connectPc' = "idle" /\ ret' = "fail" /\ sock' = "none"
              /\ failed' => target # Direct
           \/ /\ \/ connectPc' = "connecting"
                 \/ connectPc' = IF target = Direct THEN "done" ELSE "socks"
              /\ sock' = "open" /\ UNCHANGED <<ret, failed>>
    BY Zenon DEF ConnectInv, Calling, Dial, Connecting, DialFailed, CloseAndFail, Return, Established,
       reading, proxyStream, proxies, asked
  <1>2. Typed' /\ Reading' /\ UNCHANGED Left
    BY <1>1, SameStream DEF ConnectInv, Typed
  <1>3. Calling' /\ Ended'
    BY <1>1, <1>2 DEF ConnectInv, Calling, Ended
  <1>4. Naming'
    BY <1>1, ConnectAssumption DEF ConnectInv, Calling, Naming, NoProxy
  <1>. QED
    BY <1>2, <1>3, <1>4 DEF ConnectInv

LEMMA FailKeeps ==
    ASSUME ConnectInv, RecvFails \/ RecvBreaks
    PROVE  ConnectInv'
  <1>1. /\ UNCHANGED <<stage, len, got, wire, transit, nameProxy>>
        /\ UNCHANGED <<target, failed, dest, copied, atStart, lookedUp>>
        /\ connectPc = "recv" /\ connectPc' = "idle" /\ ret' = "fail" /\ sock' = "none"
    BY DEF RecvFails, RecvBreaks, CloseAndFail, Return, reading, proxyStream, proxies, asked
  <1>2. Typed' /\ Reading' /\ UNCHANGED Left
    BY <1>1, SameStream DEF ConnectInv, Typed
  <1>3. Calling' /\ Ended'
    BY <1>1, <1>2 DEF ConnectInv, Calling, Ended
  <1>4. Naming'
    BY <1>1, ConnectAssumption DEF ConnectInv, Naming, NoProxy
  <1>. QED
    BY <1>2, <1>3, <1>4 DEF ConnectInv

LEMMA DoneKeeps ==
    ASSUME ConnectInv, Done
    PROVE  ConnectInv'
  <1>1. /\ UNCHANGED <<stage, len, got, wire, transit, nameProxy>>
        /\ UNCHANGED <<target, failed, sock, dest, copied, atStart, lookedUp>>
        /\ connectPc = "done" /\ connectPc' = "idle" /\ ret' = "ok"
    BY DEF Done, Return, reading, proxyStream, proxies, asked
  <1>2. Typed' /\ Reading' /\ UNCHANGED Left
    BY <1>1, SameStream DEF ConnectInv, Typed
  <1>3. Left = <<>>
    BY <1>1, JoinEmpty DEF ConnectInv, Calling, Typed, Left
  <1>4. Calling' /\ Ended'
    BY <1>1, <1>2, <1>3 DEF ConnectInv, Calling, Ended
  <1>5. Naming'
    BY <1>1 DEF ConnectInv, Naming
  <1>. QED
    BY <1>2, <1>4, <1>5 DEF ConnectInv

LEMMA ForgetKeeps ==
    ASSUME ConnectInv, Forget
    PROVE  ConnectInv'
  <1>. USE DEF Forget, ForgetAsked, proxies
  <1>1. Typed'
    BY DEF ConnectInv, Typed
  <1>2. Reading' /\ Calling' /\ Ended' /\ Naming'
    BY DEF ConnectInv, Reading, Calling, Ended, Naming
  <1>. QED
    BY <1>1, <1>2 DEF ConnectInv
LEMMA DeliverKeeps ==
    ASSUME ConnectInv, Deliver
    PROVE  ConnectInv'
  <1>1. /\ UNCHANGED <<stage, len, got, connectPc, ret, sock, target, failed, nameProxy>>
        /\ UNCHANGED <<dest, copied, atStart, lookedUp>>
        /\ transit # <<>> /\ sock = "open"
    BY DEF Deliver, proxies, asked, attempt, reading
  <1>2. PICK n \in 0 .. Len(transit) : /\ wire' = Join(wire, UpTo(transit, n))
                                        /\ transit' = After(transit, n)
    BY DEF Deliver, Join, UpTo, After
  <1>3. wire \in Seq(Nat) /\ transit \in Seq(Nat)
    BY DEF ConnectInv, Typed
  <1>4. UpTo(transit, n) \in Seq(Nat) /\ After(transit, n) \in Seq(Nat)
    BY <1>3, CutFacts
  <1>5. wire' \in Seq(Nat) /\ transit' \in Seq(Nat)
    BY <1>2, <1>3, <1>4, JoinFacts
  <1>6. Join(Join(wire, UpTo(transit, n)), After(transit, n)) =
            Join(wire, Join(UpTo(transit, n), After(transit, n)))
    BY <1>3, <1>4, Associates
  <1>7. UNCHANGED <<Left, Answer>>
    <2>1. Join(UpTo(transit, n), After(transit, n)) = transit
      BY <1>3, CutJoins
    <2>. QED
      BY <1>1, <1>2, <1>6, <2>1 DEF Left, Answer
  <1>8. Typed'
    BY <1>1, <1>5 DEF ConnectInv, Typed
  <1>9. Reading'
    BY <1>1, <1>7 DEF ConnectInv, Reading, Remaining
  <1>10. Calling' /\ Ended' /\ Naming'
    BY <1>1, <1>7 DEF ConnectInv, Calling, Ended, Naming
  <1>. QED
    BY <1>8, <1>9, <1>10 DEF ConnectInv

LEMMA RecvKeeps ==
    ASSUME ConnectInv, Recv
    PROVE  ConnectInv'
  <1>1. /\ UNCHANGED <<stage, transit, connectPc, ret, sock, target, failed, nameProxy>>
        /\ UNCHANGED <<dest, copied, atStart, lookedUp>>
        /\ connectPc = "recv"
    BY DEF Recv, proxies, asked, attempt
  <1>2. wire \in Seq(Nat) /\ transit \in Seq(Nat) /\ got \in Seq(Nat) /\ len \in Nat
    BY DEF ConnectInv, Typed
  <1>3. PICK n \in 0 .. Len(wire) :
           /\ n <= len /\ len' = len - n
           /\ got' = Join(got, UpTo(wire, n)) /\ wire' = After(wire, n)
    <2> DEFINE n == IF Len(wire) > len THEN len ELSE Len(wire)
    <2>1. n \in 0 .. Len(wire) /\ n <= len
      BY <1>2
    <2>2. /\ len' = len - n
          /\ got' = Join(got, UpTo(wire, n)) /\ wire' = After(wire, n)
      BY DEF Recv, Join, UpTo, After
    <2>. QED
      BY <2>1, <2>2
  <1>4. /\ Answer' = Answer /\ Len(got') = Len(got) + n /\ Len(got) \in Nat
        /\ got' \in Seq(Nat) /\ wire' \in Seq(Nat)
        /\ Len(Left) \in Nat /\ Len(Left') = Len(Left) - n
        /\ Len(Left) > n => Left'[Len(Left')] = Left[Len(Left)]
    <2>1. /\ After(wire, n) \in Seq(Nat) /\ Join(got, UpTo(wire, n)) \in Seq(Nat)
          /\ Join(Join(got, UpTo(wire, n)), Join(After(wire, n), transit)) = Answer
          /\ Len(Join(got, UpTo(wire, n))) = Len(got) + n /\ Len(got) \in Nat
          /\ Len(Left) \in Nat /\ Len(Join(After(wire, n), transit)) = Len(Left) - n
          /\ Len(Left) > n =>
                Join(After(wire, n), transit)[Len(Join(After(wire, n), transit))] = Left[Len(Left)]
      BY <1>2, Taking DEF Left, Answer
    <2>2. Left' = Join(After(wire, n), transit) /\ Answer' = Join(got', Left')
      BY <1>1, <1>3 DEF Left, Answer
    <2>. QED
      BY <1>3, <2>1, <2>2
  <1>5. Typed'
    BY <1>1, <1>2, <1>3, <1>4 DEF ConnectInv, Typed
  <1>6. Len(got') + len' = Len(got) + len
    BY <1>2, <1>3, <1>4
  <1>7. ASSUME NEW k \in Nat, Remaining(k + len), k > 0
        PROVE  Remaining(k + len)'
    <2>1. Len(Left) = k + len /\ Left[Len(Left)] = Data
      BY <1>7 DEF Remaining
    <2>2. Len(Left) > n /\ Len(Left') = k + len'
      <3>1. Len(Left') = Len(Left) - n
        BY <1>4
      <3>. QED
        BY <1>2, <1>3, <1>7, <2>1, <3>1
    <2>3. Left'[Len(Left')] = Data
      BY <1>4, <2>1, <2>2, Zenon
    <2>. QED
      BY <2>2, <2>3 DEF Remaining
  <1>8. Reading'
    <2>1. CASE stage \in {"method", "auth", "reply"}
      BY <1>1, <1>4, <1>6, <2>1 DEF ConnectInv, Reading
    <2>2. CASE stage \in {"addr", "port"}
      BY <1>1, <1>2, <1>3, <1>7, <2>2 DEF ConnectInv, Reading
    <2>3. CASE stage = "length"
      <3>1. /\ Len(got) + len = 1 /\ Answer[1] \in Nat /\ Remaining(3 + Answer[1] + len)
        BY <1>1, <2>3 DEF ConnectInv, Reading
      <3>2. Remaining(3 + Answer[1] + len)'
        BY <1>4, <1>7, <3>1
      <3>. QED
        BY <1>1, <1>4, <1>6, <2>3, <3>1, <3>2 DEF Reading
    <2>. QED
      BY <1>1, <2>1, <2>2, <2>3 DEF ConnectInv, Reading
  <1>9. Calling' /\ Ended' /\ Naming'
    BY <1>1 DEF ConnectInv, Calling, Ended, Naming
  <1>. QED
    BY <1>5, <1>8, <1>9 DEF ConnectInv
\* A request goes out when everything before it is read, and the answer is all there is.
LEMMA Sending ==
    ASSUME ConnectInv, NEW what, NEW n \in Nat, NEW answers \in SUBSET Seq(Nat),
           wire = <<>>, transit = <<>>, Send(what, n, answers)
    PROVE  /\ \/ /\ connectPc' = "recv" /\ UNCHANGED <<sock, ret>>
                 /\ stage' = what /\ got' = <<>> /\ len' = n
                 /\ Answer' \in answers \cup {<<>>} /\ Len(got') + len' = n
              \/ /\ connectPc' = "idle" /\ ret' = "fail" /\ sock' = "none"
                 /\ UNCHANGED <<stage, got, len>>
           /\ wire' \in Seq(Nat) /\ transit' \in Seq(Nat) /\ got' \in Seq(Nat) /\ len' \in Nat
  <1>1. CASE CloseAndFail /\ UNCHANGED <<reading, proxyStream>>
    BY <1>1 DEF ConnectInv, Typed, CloseAndFail, Return, reading, proxyStream
  <1>2. CASE /\ Read(what, n) /\ UNCHANGED <<sock, ret, closed>>
             /\ wire' = wire /\ \E a \in answers \cup {<<>>} : transit' = transit \o a
    <2>1. PICK a \in answers \cup {<<>>} : transit' = Join(transit, a)
      BY <1>2 DEF Join
    <2>2. a \in Seq(Nat) /\ transit' = a /\ wire' = <<>> /\ got' = <<>>
      <3>1. a \in Seq(Nat)
        BY Nothing, Zenon
      <3>2. Join(transit, a) = a
        BY <3>1, JoinEmpty
      <3>3. wire' = <<>> /\ got' = <<>>
        BY <1>2 DEF Read
      <3>. QED
        BY <2>1, <3>1, <3>2, <3>3, Zenon
    <2>3. Answer' = a
      BY <2>2, JoinEmpty DEF Answer, Left
    <2>4. len' = n /\ Len(got') + len' = n
      BY <1>2 DEF Read
    <2>5. wire' \in Seq(Nat) /\ got' \in Seq(Nat)
      BY <2>2, Nothing, Zenon
    <2>. QED
      BY <1>2, <2>2, <2>3, <2>4, <2>5 DEF Read
  <1>. QED
    BY <1>1, <1>2 DEF Send

\* What is left when the whole answer was read.
LEMMA AllRead ==
    ASSUME ConnectInv, Len(Answer) = 0 \/ Len(Answer) = Len(got)
    PROVE  wire = <<>> /\ transit = <<>>
  <1>1. wire \in Seq(Nat) /\ transit \in Seq(Nat) /\ got \in Seq(Nat)
    BY DEF ConnectInv, Typed
  <1>2. /\ Len(Left) = Len(wire) + Len(transit) /\ Left \in Seq(Nat)
        /\ Len(wire) \in Nat /\ Len(transit) \in Nat
    BY <1>1, JoinFacts DEF Left
  <1>3. Len(Answer) = Len(got) + Len(Left) /\ Len(got) \in Nat
    BY <1>1, <1>2, JoinFacts, Zenon DEF Answer
  <1>4. Len(wire) = 0 /\ Len(transit) = 0
    BY <1>2, <1>3
  <1>. QED
    BY <1>1, <1>4, NoBytes

LEMMA GreetKeeps ==
    ASSUME ConnectInv, Greet
    PROVE  ConnectInv'
  <1>1. /\ UNCHANGED <<nameProxy, target, failed>>
        /\ dest' = "none" /\ copied' = NoProxy /\ atStart' = NoProxy /\ lookedUp' = FALSE
        /\ connectPc = "socks"
    BY DEF Greet, ForgetAsked, proxies
  <1>2. /\ wire = <<>> /\ transit = <<>> /\ stage = "none" /\ target # Direct /\ sock = "open"
        /\ ret = "none" /\ ~ failed
    BY <1>1 DEF ConnectInv, Typed, Calling, Ended
  <1>3. /\ \/ /\ connectPc' = "recv" /\ UNCHANGED <<sock, ret>>
              /\ stage' = "method" /\ got' = <<>> /\ len' = 2
              /\ Answer' \in Methods \cup {<<>>} /\ Len(got') + len' = 2
           \/ /\ connectPc' = "idle" /\ ret' = "fail" /\ sock' = "none"
              /\ UNCHANGED <<stage, got, len>>
        /\ wire' \in Seq(Nat) /\ transit' \in Seq(Nat) /\ got' \in Seq(Nat) /\ len' \in Nat
    <2>1. CASE Send("method", 2, Methods)
      <3>1. Methods \in SUBSET Seq(Nat)
        BY ConnectAssumption
      <3>. QED
        BY <1>2, <2>1, <3>1, Sending
    <2>2. CASE CloseAndFail /\ UNCHANGED <<reading, proxyStream>>
      BY <2>2 DEF ConnectInv, Typed, CloseAndFail, Return, reading, proxyStream
    <2>. QED
      BY <2>1, <2>2 DEF Greet
  <1>4. Typed' /\ Reading'
    <2>1. Typed'
      BY <1>3, Zenon DEF ConnectInv, Typed
    <2>2. Reading'
      BY <1>3 DEF Reading
    <2>. QED
      BY <2>1, <2>2
  <1>5. Calling' /\ Ended' /\ Naming'
    BY <1>1, <1>2, <1>3 DEF ConnectInv, Calling, Ended, Naming
  <1>. QED
    BY <1>4, <1>5 DEF ConnectInv
\* After any part of an answer the call goes on reading, or it fails.
LEMMA GoesOn ==
    ASSUME ConnectInv, connectPc = "recv", UNCHANGED <<proxies, asked, target, failed>>,
           \/ connectPc' = "recv" /\ UNCHANGED <<sock, ret>>
           \/ connectPc' = "idle" /\ ret' = "fail" /\ sock' = "none",
           wire' \in Seq(Nat), transit' \in Seq(Nat), got' \in Seq(Nat), len' \in Nat, Reading'
    PROVE  ConnectInv'
  <1>1. UNCHANGED <<nameProxy, dest, copied, atStart, lookedUp>>
    BY DEF proxies, asked
  <1>2. sock = "open" /\ target # Direct /\ ret = "none" /\ ~ failed
    BY DEF ConnectInv, Typed, Calling, Ended
  <1>3. Typed'
    BY Zenon DEF ConnectInv, Typed
  <1>4. Calling' /\ Ended' /\ Naming'
    BY <1>1, <1>2 DEF ConnectInv, Calling, Ended, Naming
  <1>. QED
    BY <1>3, <1>4 DEF ConnectInv

LEMMA GivesUp ==
    ASSUME ConnectInv, connectPc = "recv", UNCHANGED <<proxies, asked, target, failed>>,
           CloseAndFail, UNCHANGED <<reading, proxyStream>>
    PROVE  ConnectInv'
  <1>1. /\ connectPc' = "idle" /\ ret' = "fail" /\ sock' = "none"
        /\ UNCHANGED <<stage, len, got, wire, transit>>
    BY DEF CloseAndFail, Return, reading, proxyStream
  <1>2. Typed' /\ Reading'
    BY <1>1, SameStream
  <1>. QED
    BY <1>1, <1>2, GoesOn DEF Typed

LEMMA ReadingOn ==
    ASSUME ConnectInv, NEW what, NEW n \in Nat, Read(what, n), UNCHANGED proxyStream
    PROVE  /\ wire' \in Seq(Nat) /\ transit' \in Seq(Nat) /\ got' \in Seq(Nat) /\ len' \in Nat
           /\ Left' = Left /\ Answer' = Left /\ Left \in Seq(Nat)
           /\ connectPc' = "recv" /\ stage' = what /\ len' = n /\ Len(got') = 0
  <1>1. wire \in Seq(Nat) /\ transit \in Seq(Nat)
    BY DEF ConnectInv, Typed
  <1>2. Left \in Seq(Nat)
    BY <1>1, JoinFacts DEF Left
  <1>3. /\ UNCHANGED <<wire, transit>> /\ got' = <<>> /\ len' = n
        /\ stage' = what /\ connectPc' = "recv"
    BY DEF Read, proxyStream
  <1>4. Left' = Left
    BY <1>3 DEF Left
  <1>5. Answer' = Left
    BY <1>2, <1>3, <1>4, JoinEmpty DEF Answer
  <1>. QED
    BY <1>1, <1>2, <1>3, <1>4, <1>5, Nothing, Zenon

LEMMA ShortRead ==
    ASSUME ConnectInv, connectPc = "recv", len = 0, stage \in {"method", "auth"}
    PROVE  wire = <<>> /\ transit = <<>>
  <1>1. Answer \in Methods \cup Verdicts \cup {<<>>} /\ Len(got) + len = 2
    BY DEF ConnectInv, Reading
  <1>2. Len(got) = 2
    <2>1. Len(got) \in Nat
      BY DEF ConnectInv, Typed
    <2>. QED
      BY <1>1, <2>1
  <1>3. Len(Answer) = 2 \/ Len(Answer) = 0
    BY <1>1, ConnectAssumption, Nothing
  <1>. QED
    BY <1>2, <1>3, AllRead

LEMMA MethodKeeps ==
    ASSUME ConnectInv, connectPc = "recv", len = 0, UNCHANGED <<proxies, asked, target, failed>>,
           \/ stage = "method" /\ Send("auth", 2, Verdicts)
           \/ stage \in {"method", "auth"} /\ Send("reply", 4, Grants \cup Refusals)
    PROVE  ConnectInv'
  <1>1. wire = <<>> /\ transit = <<>>
    BY ShortRead
  <1>2. Verdicts \in SUBSET Seq(Nat) /\ Grants \cup Refusals \in SUBSET Seq(Nat)
    BY ConnectAssumption
  <1>3. /\ \/ /\ connectPc' = "recv" /\ UNCHANGED <<sock, ret>>
              /\ \/ stage' = "auth" /\ Answer' \in Verdicts \cup {<<>>} /\ Len(got') + len' = 2
                 \/ /\ stage' = "reply" /\ Answer' \in Grants \cup Refusals \cup {<<>>}
                    /\ Len(got') + len' = 4
           \/ connectPc' = "idle" /\ ret' = "fail" /\ sock' = "none"
        /\ wire' \in Seq(Nat) /\ transit' \in Seq(Nat) /\ got' \in Seq(Nat) /\ len' \in Nat
    <2>1. CASE Send("auth", 2, Verdicts)
      BY <1>1, <1>2, <2>1, Sending
    <2>2. CASE Send("reply", 4, Grants \cup Refusals)
      BY <1>1, <1>2, <2>2, Sending
    <2>. QED
      BY <2>1, <2>2
  <1>4. Reading'
    BY <1>3 DEF Reading
  <1>. QED
    BY <1>3, <1>4, GoesOn
\* The first four bytes of an answer tell a grant from a refusal, and what follows them.
LEMMA Granted ==
    ASSUME ConnectInv, connectPc = "recv", stage = "reply", len = 0,
           SubSeq(got, 1, 3) = <<5, 0, 0>>, got[4] \in {1, 3, 4}
    PROVE  /\ Answer[4] = got[4] /\ Answer[5] \in Nat /\ Left[1] = Answer[5]
           /\ Remaining(GrantLength(Answer) - 3)
  <1>1. wire \in Seq(Nat) /\ transit \in Seq(Nat) /\ got \in Seq(Nat)
    BY DEF ConnectInv, Typed
  <1>2. Len(got) = 4 /\ Answer \in Grants \cup Refusals \cup {<<>>}
    <2>1. Len(got) + len = 4 /\ Answer \in Grants \cup Refusals \cup {<<>>}
      BY DEF ConnectInv, Reading
    <2>2. Len(got) \in Nat
      BY <1>1
    <2>. QED
      BY <2>1, <2>2
  <1>3. got[1] = 5 /\ got[2] = 0 /\ got[3] = 0
    <2>1. 3 \in 0 .. Len(got)
      BY <1>2
    <2>2. \A k \in 1 .. 3 : UpTo(got, 3)[k] = got[k]
      BY <1>1, <2>1, CutFacts, Zenon
    <2>3. UpTo(got, 3) = <<5, 0, 0>>
      BY DEF UpTo
    <2>. QED
      BY <2>2, <2>3
  <1>4. Left \in Seq(Nat)
    BY <1>1, JoinFacts DEF Left
  <1>5. /\ Len(Answer) = 4 + Len(Left) /\ Len(Left) \in Nat
        /\ Answer[1] = got[1] /\ Answer[2] = got[2] /\ Answer[3] = got[3] /\ Answer[4] = got[4]
        /\ \A k \in 1 .. Len(Left) : Answer[4 + k] = Left[k]
    <2>1. /\ Len(Answer) = Len(got) + Len(Left) /\ Len(Left) \in Nat
          /\ \A k \in 1 .. Len(got) : Answer[k] = got[k]
          /\ \A k \in 1 .. Len(Left) : Answer[Len(got) + k] = Left[k]
      BY <1>1, <1>4, SMTT(30) DEF Answer, Join
    <2>. QED
      BY <1>2, <2>1
  <1>6. Answer \in Grants
    <2>1. Answer # <<>>
      BY <1>5, Nothing
    <2>2. Answer \notin Refusals
      <3>1. Answer \in Refusals /\ Len(Answer) >= 4 =>
                \/ Answer[1] # 5 \/ Answer[2] # 0 \/ Answer[3] # 0
                \/ Answer[4] \notin {1, 3, 4}
        BY ConnectAssumption
      <3>2. Len(Answer) >= 4
        BY <1>5
      <3>. QED
        BY <1>3, <1>5, <3>1, <3>2, Zenon
    <2>. QED
      BY <1>2, <2>1, <2>2
  <1>7. /\ Answer \in Seq(Nat) /\ Len(Answer) > 5 /\ Len(Answer) = GrantLength(Answer) + 1
        /\ Answer[Len(Answer)] = Data
    BY <1>6, ConnectAssumption
  <1>8. Left[1] = Answer[5] /\ Left[Len(Left)] = Answer[Len(Answer)] /\ Answer[5] \in Nat
    <2>1. 1 \in 1 .. Len(Left) /\ Len(Left) \in 1 .. Len(Left)
      BY <1>5, <1>7
    <2>2. Answer[4 + 1] = Left[1] /\ Answer[4 + Len(Left)] = Left[Len(Left)]
      BY <1>5, <2>1
    <2>3. 5 \in 1 .. Len(Answer)
      BY <1>7
    <2>4. Answer[5] \in Nat
      BY <1>7, <2>3, ByteOf, Zenon
    <2>5. Answer[5] = Left[1]
      BY <2>2
    <2>. QED
      BY <1>5, <2>2, <2>4, <2>5, Zenon
  <1>9. Len(Left) = GrantLength(Answer) - 3
    <2>1. GrantLength(Answer) \in Int
      BY <1>5, <1>8 DEF GrantLength
    <2>2. /\ Len(Answer) = 4 + Len(Left) /\ Len(Left) \in Nat
          /\ Len(Answer) = GrantLength(Answer) + 1
      BY <1>5, <1>7, Zenon
    <2>. QED
      BY <2>1, <2>2
  <1>. QED
    BY <1>5, <1>7, <1>8, <1>9, Zenon DEF Remaining

LEMMA ReplyKeeps ==
    ASSUME ConnectInv, connectPc = "recv", len = 0, UNCHANGED <<proxies, asked, target, failed>>,
           stage = "reply", SubSeq(got, 1, 3) = <<5, 0, 0>>,
           \/ got[4] = 1 /\ Read("addr", 4)
           \/ got[4] = 4 /\ Read("addr", 16)
           \/ got[4] = 3 /\ Read("length", 1),
           UNCHANGED <<sock, ret, proxyStream>>
    PROVE  ConnectInv'
  <1>1. /\ Answer[4] = got[4] /\ Answer[5] \in Nat /\ Left[1] = Answer[5]
        /\ Remaining(GrantLength(Answer) - 3)
    BY Granted
  <1>2. CASE got[4] = 1 /\ Read("addr", 4)
    <2>1. /\ wire' \in Seq(Nat) /\ transit' \in Seq(Nat) /\ got' \in Seq(Nat) /\ len' \in Nat
          /\ Left' = Left /\ connectPc' = "recv" /\ stage' = "addr" /\ len' = 4
      BY <1>2, ReadingOn
    <2>2. GrantLength(Answer) - 3 = 4 + 3
      BY <1>1, <1>2 DEF GrantLength
    <2>3. Reading'
      BY <1>1, <2>1, <2>2, Zenon DEF Reading, Remaining
    <2>. QED
      BY <2>1, <2>3, GoesOn
  <1>3. CASE got[4] = 4 /\ Read("addr", 16)
    <2>1. /\ wire' \in Seq(Nat) /\ transit' \in Seq(Nat) /\ got' \in Seq(Nat) /\ len' \in Nat
          /\ Left' = Left /\ connectPc' = "recv" /\ stage' = "addr" /\ len' = 16
      BY <1>3, ReadingOn
    <2>2. GrantLength(Answer) - 3 = 16 + 3
      BY <1>1, <1>3 DEF GrantLength
    <2>3. Reading'
      BY <1>1, <2>1, <2>2, Zenon DEF Reading, Remaining
    <2>. QED
      BY <2>1, <2>3, GoesOn
  <1>4. CASE got[4] = 3 /\ Read("length", 1)
    <2>1. /\ wire' \in Seq(Nat) /\ transit' \in Seq(Nat) /\ got' \in Seq(Nat) /\ len' \in Nat
          /\ Left' = Left /\ Answer' = Left /\ Len(got') = 0
          /\ connectPc' = "recv" /\ stage' = "length" /\ len' = 1
      BY <1>4, ReadingOn
    <2>2. GrantLength(Answer) - 3 = 3 + Answer[5] + 1
      BY <1>1, <1>4 DEF GrantLength
    <2>3. Answer'[1] = Answer[5] /\ 3 + Answer'[1] + len' = GrantLength(Answer) - 3
      BY <1>1, <2>1, <2>2
    <2>4. Remaining(3 + Answer[1] + len)'
      BY <1>1, <2>1, <2>3 DEF Remaining
    <2>5. Reading'
      BY <1>1, <2>1, <2>3, <2>4 DEF Reading
    <2>. QED
      BY <2>1, <2>5, GoesOn
  <1>. QED
    BY <1>2, <1>3, <1>4

LEMMA AddressKeeps ==
    ASSUME ConnectInv, connectPc = "recv", len = 0, UNCHANGED <<proxies, asked, target, failed>>,
           \/ stage = "length" /\ Read("addr", got[1])
           \/ stage = "addr" /\ Read("port", 2),
           UNCHANGED <<sock, ret, proxyStream>>
    PROVE  ConnectInv'
  <1>1. CASE stage = "length" /\ Read("addr", got[1])
    <2>1. /\ Len(got) + len = 1 /\ Remaining(3 + Answer[1] + len)
      BY <1>1 DEF ConnectInv, Reading
    <2>2. got \in Seq(Nat) /\ wire \in Seq(Nat) /\ transit \in Seq(Nat)
      BY DEF ConnectInv, Typed
    <2>3. Len(got) = 1 /\ got[1] \in Nat
      <3>1. Len(got) \in Nat
        BY <2>2
      <3>2. Len(got) = 1
        BY <2>1, <3>1
      <3>3. 1 \in 1 .. Len(got)
        BY <3>2
      <3>. QED
        BY <2>2, <3>2, <3>3, ByteOf, Zenon
    <2>4. Left \in Seq(Nat)
      BY <2>2, JoinFacts DEF Left
    <2>5. Answer[1] = got[1]
      <3>1. \A k \in 1 .. Len(got) : Answer[k] = got[k]
        BY <2>2, <2>4, JoinFacts, Zenon DEF Answer
      <3>. QED
        BY <2>3, <3>1
    <2>6. /\ wire' \in Seq(Nat) /\ transit' \in Seq(Nat) /\ got' \in Seq(Nat) /\ len' \in Nat
          /\ Left' = Left /\ connectPc' = "recv" /\ stage' = "addr" /\ len' = got[1]
      BY <1>1, <2>3, ReadingOn
    <2>7. 3 + Answer[1] + len = len' + 3
      BY <2>3, <2>5, <2>6
    <2>8. Reading'
      BY <2>1, <2>6, <2>7 DEF Reading, Remaining
    <2>. QED
      BY <2>6, <2>8, GoesOn
  <1>2. CASE stage = "addr" /\ Read("port", 2)
    <2>1. Remaining(len + 3)
      BY <1>2 DEF ConnectInv, Reading
    <2>2. /\ wire' \in Seq(Nat) /\ transit' \in Seq(Nat) /\ got' \in Seq(Nat) /\ len' \in Nat
          /\ Left' = Left /\ connectPc' = "recv" /\ stage' = "port" /\ len' = 2
      BY <1>2, ReadingOn
    <2>3. len + 3 = len' + 1
      BY <2>2
    <2>4. Reading'
      BY <2>1, <2>2, <2>3, Zenon DEF Reading, Remaining
    <2>. QED
      BY <2>2, <2>4, GoesOn
  <1>. QED
    BY <1>1, <1>2

LEMMA PortKeeps ==
    ASSUME ConnectInv, connectPc = "recv", len = 0, UNCHANGED <<proxies, asked, target, failed>>,
           stage = "port", Return("ok"), UNCHANGED <<sock, reading, proxyStream>>
    PROVE  ConnectInv'
  <1>1. /\ UNCHANGED <<stage, len, got, wire, transit, sock>> /\ connectPc' = "idle" /\ ret' = "ok"
        /\ UNCHANGED <<nameProxy, dest, copied, atStart, lookedUp>>
    BY DEF Return, reading, proxyStream, proxies, asked
  <1>2. Typed' /\ Reading' /\ UNCHANGED Left
    BY <1>1, SameStream
  <1>3. Left = <<Data>>
    <2>1. Len(Left) = 1 /\ Left[1] = Data
      <3>1. Remaining(len + 1)
        BY DEF ConnectInv, Reading
      <3>. QED
        BY <3>1 DEF Remaining
    <2>2. Left \in Seq(Nat)
      BY JoinFacts DEF ConnectInv, Typed, Left
    <2>. QED
      BY <2>1, <2>2, OneByte
  <1>4. sock = "open" /\ target # Direct /\ ret = "none" /\ ~ failed
    BY DEF ConnectInv, Typed, Calling, Ended
  <1>5. Calling' /\ Ended' /\ Naming'
    BY <1>1, <1>2, <1>3, <1>4 DEF ConnectInv, Calling, Ended, Naming
  <1>. QED
    BY <1>2, <1>5 DEF ConnectInv

LEMMA ReceivedKeeps ==
    ASSUME ConnectInv, Received
    PROVE  ConnectInv'
  <1>1. connectPc = "recv" /\ len = 0 /\ UNCHANGED <<proxies, asked, target, failed>>
    BY DEF Received
  <1>2. \/ stage = "method" /\ Send("auth", 2, Verdicts)
        \/ stage \in {"method", "auth"} /\ Send("reply", 4, Grants \cup Refusals)
        \/ CloseAndFail /\ UNCHANGED <<reading, proxyStream>>
        \/ /\ stage = "reply" /\ SubSeq(got, 1, 3) = <<5, 0, 0>>
           /\ \/ got[4] = 1 /\ Read("addr", 4)
              \/ got[4] = 4 /\ Read("addr", 16)
              \/ got[4] = 3 /\ Read("length", 1)
           /\ UNCHANGED <<sock, ret, proxyStream>>
        \/ /\ \/ stage = "length" /\ Read("addr", got[1])
              \/ stage = "addr" /\ Read("port", 2)
           /\ UNCHANGED <<sock, ret, proxyStream>>
        \/ stage = "port" /\ Return("ok") /\ UNCHANGED <<sock, reading, proxyStream>>
    BY Zenon DEF Received
  <1>. QED
    BY <1>1, <1>2, MethodKeeps, GivesUp, ReplyKeeps, AddressKeeps, PortKeeps, Zenon

LEMMA ConnectKeeps == ConnectInv /\ [ConnectNext]_connectVars => ConnectInv'
  <1>. SUFFICES ASSUME ConnectInv, [ConnectNext]_connectVars PROVE ConnectInv'
    OBVIOUS
  <1>1. CASE ConnectNext
    BY <1>1, SetKeeps, CallKeeps, ResolveKeeps, NamedKeeps, DialKeeps, FailKeeps, DoneKeeps,
       ForgetKeeps, DeliverKeeps, RecvKeeps, GreetKeeps, ReceivedKeeps, Zenon
       DEF ConnectNext, ConnectStep
  <1>2. CASE UNCHANGED connectVars
    <2>1. /\ UNCHANGED <<stage, len, got, wire, transit, connectPc, ret, sock, target, failed>>
          /\ UNCHANGED <<dest, copied, atStart, lookedUp, nameProxy>>
      BY <1>2 DEF connectVars
    <2>2. Typed' /\ Reading' /\ UNCHANGED Left
      BY <2>1, SameStream DEF ConnectInv, Typed
    <2>3. Calling' /\ Ended' /\ Naming'
      BY <2>1, <2>2 DEF ConnectInv, Calling, Ended, Naming
    <2>. QED
      BY <2>2, <2>3 DEF ConnectInv
  <1>. QED
    BY <1>1, <1>2

\* ConnectSocket, ConnectSocketByName, Socks5 and InterruptibleRecv, for any proxies, any
\* answers of SOCKS5 proxies and any way to cut them into pieces: a handshake that succeeds
\* has read the proxy's whole answer and no byte more, one that fails leaves no open
\* socket, and a name goes to the name proxy that was set, never to a local lookup.
THEOREM ConnectionsSound == ConnectSpec => []ConnectsSound
  BY ConnectBegins, ConnectKeeps, InvSound, PTL DEF ConnectSpec
=============================================================================
