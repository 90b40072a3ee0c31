---------------------------- MODULE ThreadsProofs ----------------------------
(***************************************************************************)
(* Proofs about the threads and the logs of comLib.                        *)
(*                                                                         *)
(* For any callers, pthreads, clock readings and timeouts: the deadline of *)
(* a timed wait is the one asked for (TimedWait.tla), and the flags and    *)
(* tokens of comLib's Thread tell the truth (Thread.tla).                  *)
(*                                                                         *)
(* For any number and size of volumes, any sizes of messages, any loggers, *)
(* lines, buffer and queue (Logs.tla): the rolling files keep their order  *)
(* through deletions and restarts in the middle of a roll, and lose        *)
(* nothing but the oldest volume; the log thread loses, doubles and moves  *)
(* no byte.  RollIInv adds to RollsSound that the message being written is *)
(* the last one, that m_nSize is the size of the open file, and which      *)
(* names can be in the way of a rename; LogIInv adds to LinesKept that     *)
(* only lines have bytes and that an unbuffered log has an empty buffer.   *)
(***************************************************************************)
EXTENDS Thread, TimedWait, Logs, TLAPS

-----------------------------------------------------------------------------
\* Sequences and numbers.
LEMMA TailFacts ==
    ASSUME NEW S, NEW q \in Seq(S), q # <<>>
    PROVE  /\ Head(q) = q[1] /\ Head(q) \in S /\ Len(q) \in Nat /\ Len(q) > 0
           /\ Tail(q) \in Seq(S) /\ Len(Tail(q)) = Len(q) - 1
           /\ \A k \in 1 .. Len(q) - 1 : Tail(q)[k] = q[k + 1]
  OBVIOUS

LEMMA AppendFacts ==
    ASSUME NEW S, NEW s \in Seq(S), NEW x \in S
    PROVE  /\ Append(s, x) \in Seq(S)
           /\ DOMAIN s = 1 .. Len(s) /\ Len(s) \in Nat
           /\ DOMAIN Append(s, x) = 1 .. Len(s) + 1 /\ Len(Append(s, x)) = Len(s) + 1
           /\ Append(s, x)[Len(s) + 1] = x
           /\ \A a \in 1 .. Len(s) : Append(s, x)[a] = s[a]
  OBVIOUS

LEMMA ConcatFacts ==
    ASSUME NEW S, NEW s \in Seq(S), NEW t \in Seq(S)
    PROVE  /\ s \o t \in Seq(S) /\ Len(s) \in Nat /\ Len(t) \in Nat
           /\ Len(s \o t) = Len(s) + Len(t)
           /\ \A n \in 1 .. Len(s) : (s \o t)[n] = s[n]
           /\ \A n \in 1 .. Len(t) : (s \o t)[Len(s) + n] = t[n]
  OBVIOUS

Byte == Loggers \X Nat \X Nat
Event == [type : {"log", "flush", "check_delete"}, line : Seq(Byte), at : Nat]

\* Begins and BytesInOrder of a queue q, taken bytes s and pushed bytes l.
At(q, l, k) == IF k <= Len(q) THEN q[k].at ELSE Len(l)

Chain(q, s, l) ==
    /\ q \in Seq(Event) /\ s \in Seq(Byte) /\ l \in Seq(Byte)
    /\ At(q, l, 1) = Len(s)
    /\ \A n \in 1 .. Len(s) : s[n] = l[n]
    /\ \A k \in 1 .. Len(q) :
          /\ At(q, l, k + 1) = At(q, l, k) + Len(q[k].line)
          /\ At(q, l, k + 1) <= Len(l)
          /\ \A n \in 1 .. Len(q[k].line) : q[k].line[n] = l[At(q, l, k) + n]

\* What a chain says, in the terms of BytesInOrder.
Reads(q, s, l) ==
    /\ At(q, l, 1) = Len(s)
    /\ \A n \in DOMAIN s : s[n] = l[n]
    /\ \A k \in DOMAIN q :
          /\ At(q, l, k + 1) = At(q, l, k) + Len(q[k].line)
          /\ \A n \in DOMAIN q[k].line : q[k].line[n] = l[At(q, l, k) + n]

LEMMA ChainReads ==
    ASSUME NEW q, NEW s, NEW l, Chain(q, s, l)
    PROVE  Reads(q, s, l)
  <1>1. q \in Seq(Event) /\ DOMAIN q = 1 .. Len(q) /\ DOMAIN s = 1 .. Len(s)
    BY DEF Chain
  <1>2. \A k \in DOMAIN q : DOMAIN q[k].line = 1 .. Len(q[k].line)
    BY <1>1 DEF Event
  <1>. QED
    BY <1>1, <1>2, Zenon DEF Chain, Reads

LEMMA EventTyped ==
    ASSUME NEW type \in {"log", "flush", "check_delete"}, NEW line \in Seq(Byte), NEW n \in Nat
    PROVE  [type |-> type, line |-> line, at |-> n] \in Event
  BY DEF Event

\* Taking the first line of the queue.
LEMMA ChainTail ==
    ASSUME NEW q, NEW s, NEW l, Chain(q, s, l), q # <<>>
    PROVE  Chain(Tail(q), s \o Head(q).line, l)
  <1> DEFINE t == Tail(q)
             line == Head(q).line
             u == s \o line
             n1 == Len(q)
             ls == Len(s)
             ln == Len(line)
  <1>1. /\ q \in Seq(Event) /\ s \in Seq(Byte) /\ l \in Seq(Byte)
        /\ Head(q) = q[1] /\ Head(q) \in Event /\ n1 \in Nat /\ n1 > 0
        /\ t \in Seq(Event) /\ Len(t) = n1 - 1 /\ \A k \in 1 .. n1 - 1 : t[k] = q[k + 1]
    BY TailFacts DEF Chain
  <1>2. line \in Seq(Byte)
    BY <1>1 DEF Event
  <1>3. /\ u \in Seq(Byte) /\ ls \in Nat /\ ln \in Nat /\ Len(u) = ls + ln
        /\ \A n \in 1 .. ls : u[n] = s[n]
        /\ \A n \in 1 .. ln : u[ls + n] = line[n]
    BY <1>1, <1>2, ConcatFacts
  <1>4. /\ \A k \in 1 .. n1 : /\ At(q, l, k + 1) = At(q, l, k) + Len(q[k].line)
                             /\ At(q, l, k + 1) <= Len(l)
                             /\ \A n \in 1 .. Len(q[k].line) : q[k].line[n] = l[At(q, l, k) + n]
        /\ At(q, l, 1) = ls /\ \A n \in 1 .. ls : s[n] = l[n]
    BY DEF Chain
  <1> HIDE DEF t, u, n1, ls, ln
  <1>5. \A k \in 1 .. n1 : At(t, l, k) = At(q, l, k + 1)
    BY <1>1 DEF At, n1
  <1>6. At(t, l, 1) = Len(u)
    <2>1. 1 \in 1 .. n1 /\ line = q[1].line
      BY <1>1
    <2>2. At(q, l, 1 + 1) = ls + ln
      BY <1>4, <2>1 DEF ln
    <2>. QED
      BY <1>3, <1>5, <2>1, <2>2
  <1>7. \A n \in 1 .. Len(u) : u[n] = l[n]
    <2>1. \A n \in 1 .. ln : line[n] = l[ls + n]
      <3>1. 1 \in 1 .. n1 /\ line = q[1].line
        BY <1>1
      <3>. QED
        BY <1>4, <3>1 DEF ln
    <2> HIDE DEF line
    <2>2. SUFFICES ASSUME NEW n \in 1 .. ls + ln PROVE u[n] = l[n]
      BY <1>3
    <2>3. CASE n \in 1 .. ls
      BY <1>3, <1>4, <2>3
    <2>4. CASE n \notin 1 .. ls
      <3>1. n - ls \in 1 .. ln /\ n = ls + (n - ls)
        BY <1>3, <2>4
      <3>. QED
        BY <1>3, <2>1, <3>1, Zenon
    <2>. QED
      BY <2>3, <2>4
  <1>8. ASSUME NEW k \in 1 .. Len(t)
        PROVE  /\ At(t, l, k + 1) = At(t, l, k) + Len(t[k].line)
               /\ At(t, l, k + 1) <= Len(l)
               /\ \A n \in 1 .. Len(t[k].line) : t[k].line[n] = l[At(t, l, k) + n]
    <2>1. k + 1 \in 1 .. n1 /\ k \in 1 .. n1 /\ t[k] = q[k + 1]
      BY <1>1
    <2>2. At(t, l, k) = At(q, l, k + 1) /\ At(t, l, k + 1) = At(q, l, (k + 1) + 1)
      BY <1>5, <2>1
    <2>. QED
      BY <1>4, <2>1, <2>2
  <1>. QED
    BY <1>1, <1>3, <1>6, <1>7, <1>8 DEF Chain, t, u

\* Pushing a line.
LEMMA ChainAppend ==
    ASSUME NEW q, NEW s, NEW l, Chain(q, s, l), NEW e \in Event, e.at = Len(l)
    PROVE  Chain(Append(q, e), s, l \o e.line)
  <1> DEFINE a == Append(q, e)
             line == e.line
             m == l \o line
             n1 == Len(q)
             ll == Len(l)
             ln == Len(line)
  <1>1. /\ q \in Seq(Event) /\ s \in Seq(Byte) /\ l \in Seq(Byte) /\ Len(s) \in Nat
        /\ line \in Seq(Byte)
    BY DEF Chain, Event
  <1>2. /\ a \in Seq(Event) /\ n1 \in Nat /\ Len(a) = n1 + 1 /\ a[n1 + 1] = e
        /\ \A k \in 1 .. n1 : a[k] = q[k]
    BY <1>1, AppendFacts
  <1>3. /\ m \in Seq(Byte) /\ ll \in Nat /\ ln \in Nat /\ Len(m) = ll + ln
        /\ \A n \in 1 .. ll : m[n] = l[n]
        /\ \A n \in 1 .. ln : m[ll + n] = line[n]
    BY <1>1, ConcatFacts
  <1>4. /\ \A k \in 1 .. n1 : /\ At(q, l, k + 1) = At(q, l, k) + Len(q[k].line)
                             /\ At(q, l, k + 1) <= ll
                             /\ \A n \in 1 .. Len(q[k].line) : q[k].line[n] = l[At(q, l, k) + n]
        /\ At(q, l, 1) = Len(s) /\ \A n \in 1 .. Len(s) : s[n] = l[n]
    BY DEF Chain
  <1>5. \A k \in 1 .. n1 : At(q, l, k) \in Nat /\ Len(q[k].line) \in Nat
    <2>1. \A k \in 1 .. n1 : q[k] \in Event
      BY <1>1
    <2>2. \A k \in 1 .. n1 : q[k].at \in Nat /\ q[k].line \in Seq(Byte)
      BY <2>1 DEF Event
    <2>. QED
      BY <2>2 DEF At
  <1> HIDE DEF a, m, n1, ll, ln
  <1>6. \A k \in 1 .. n1 + 1 : At(a, m, k) = At(q, l, k)
    BY <1>2 DEF At, n1, ll
  <1>7. At(q, l, n1 + 1) = ll /\ At(a, m, n1 + 2) = ll + ln
    BY <1>2, <1>3 DEF At, n1, ll
  <1>8. At(a, m, 1) = Len(s)
    BY <1>2, <1>4, <1>6
  <1>9. \A n \in 1 .. Len(s) : s[n] = m[n]
    <2>1. At(q, l, 1) <= ll
      <3>1. CASE n1 = 0
        BY <1>3, <1>7, <3>1
      <3>2. CASE 1 \in 1 .. n1
        <4>1. At(q, l, 1) + Len(q[1].line) <= ll
          BY <1>4, <3>2
        <4>. QED
          BY <1>3, <1>5, <3>2, <4>1
      <3>. QED
        BY <1>2, <3>1, <3>2
    <2>. QED
      BY <1>1, <1>3, <1>4, <2>1
  <1>10. ASSUME NEW k \in 1 .. Len(a)
         PROVE  /\ At(a, m, k + 1) = At(a, m, k) + Len(a[k].line)
                /\ At(a, m, k + 1) <= Len(m)
                /\ \A n \in 1 .. Len(a[k].line) : a[k].line[n] = m[At(a, m, k) + n]
    <2>1. CASE k = n1 + 1
      <3>1. a[k].line = line /\ At(a, m, k) = ll /\ At(a, m, k + 1) = ll + ln
        BY <1>2, <1>6, <1>7, <2>1
      <3>. QED
        BY <1>3, <3>1 DEF ln
    <2>2. CASE k \in 1 .. n1
      <3> DEFINE b == At(q, l, k)
                 c == Len(q[k].line)
      <3>1. a[k] = q[k] /\ At(a, m, k) = b /\ At(a, m, k + 1) = b + c /\ b + c <= ll
            /\ b \in Nat /\ c \in Nat
        BY <1>2, <1>4, <1>5, <1>6, <2>2
      <3>2. \A n \in 1 .. c : q[k].line[n] = l[b + n]
        BY <1>4, <2>2
      <3> HIDE DEF b, c
      <3>3. \A n \in 1 .. c : m[b + n] = l[b + n]
        BY <1>3, <3>1
      <3>4. b + c <= Len(m)
        BY <1>3, <3>1
      <3>. QED
        BY <3>1, <3>2, <3>3, <3>4 DEF c
    <2>. QED
      BY <1>2, <2>1, <2>2
  <1>. QED
    BY <1>1, <1>2, <1>3, <1>8, <1>9, <1>10, Zenon DEF Chain, a, m

LEMMA Division ==
    ASSUME NEW x \in Nat, NEW d \in Nat, d > 0
    PROVE  /\ x = d * (x \div d) + (x % d) /\ x % d \in Nat /\ x % d < d
           /\ x \div d \in Nat
  OBVIOUS

LEMMA Distribution ==
    ASSUME NEW d \in Nat, NEW q \in Nat
    PROVE  (1 + q) * d = d + d * q /\ d * q \in Nat
  OBVIOUS

LEMMA ThreeLines ==
    ASSUME NEW s \in Seq(Byte), NEW t \in Seq(Byte), NEW u \in Seq(Byte)
    PROVE  (s \o t) \o u = s \o (t \o u)
  OBVIOUS

LEMMA SameLine ==
    ASSUME NEW s \in Seq(Byte), NEW t \in Seq(Byte), Len(s) = Len(t),
           \A i \in 1 .. Len(t) : s[i] = t[i]
    PROVE  s = t
  OBVIOUS

LEMMA LineSplit ==
    ASSUME NEW s \in Seq(Byte), NEW w \in 0 .. Len(s)
    PROVE  SubSeq(s, 1, w) \o SubSeq(s, w + 1, Len(s)) = s
  <1> DEFINE a == SubSeq(s, 1, w)
             b == SubSeq(s, w + 1, Len(s))
             n == Len(s)
  <1>1. /\ a \in Seq(Byte) /\ Len(a) = w /\ \A i \in 1 .. w : a[i] = s[i]
        /\ b \in Seq(Byte) /\ Len(b) = n - w /\ \A i \in 1 .. n - w : b[i] = s[w + i]
        /\ n \in Nat /\ w \in Nat
    OBVIOUS
  <1> HIDE DEF a, b, n
  <1>2. a \o b \in Seq(Byte) /\ Len(a \o b) = n
    <2>1. a \o b \in Seq(Byte) /\ Len(a \o b) = Len(a) + Len(b)
      BY <1>1, ConcatFacts, Zenon
    <2>. QED
      BY <1>1, <2>1
  <1>3. ASSUME NEW i \in 1 .. n PROVE (a \o b)[i] = s[i]
    <2>1. CASE i \in 1 .. w
      BY <1>1, <2>1, ConcatFacts
    <2>2. CASE i - w \in 1 .. n - w
      <3>1. (a \o b)[Len(a) + (i - w)] = b[i - w] /\ b[i - w] = s[w + (i - w)]
        BY <1>1, <2>2, ConcatFacts
      <3>. QED
        BY <1>1, <3>1
    <2>. QED
      BY <1>1, <2>1, <2>2
  <1>. QED
    BY <1>2, <1>3, SameLine, Zenon DEF a, b, n

-----------------------------------------------------------------------------
\* The rolling files of LogAppenderFile.
Volume == [lines : Seq(Nat), bytes : Int]
InRoll == {"delete", "rename", "reopen"}
Bounded == m_nVolumeSize # 0 /\ m_nRollVolumes > 1

RollType ==
    /\ Existing \subseteq 0 .. m_nRollVolumes - 1
    /\ \A k \in Existing : volumes[k] \in Volume
    /\ open \in {"closed", "file", "unlinked"}
    /\ m_nSize \in Int
    /\ rollPc \in {"start", "idle", "write"} \cup InRoll
    /\ todo \subseteq 0 .. m_nRollVolumes - 1
    /\ message \in Nat
    /\ size \in Seq(Nat)

\* The message being written is the last one, and no file has it yet.
Numbered ==
    /\ \A k \in Existing : \A a \in DOMAIN Lines(k) : Lines(k)[a] \in 1 .. Len(size)
    /\ rollPc \in InRoll \cup {"write"} =>
          /\ message = Len(size) /\ message > 0
          /\ \A k \in Existing : \A a \in DOMAIN Lines(k) : Lines(k)[a] < message

\* What was renamed in this roll, or never will be, is above what comes next, so that
\* only the last name can be in the way of a rename; volume 0 is renamed in every roll.
RollPlace ==
    /\ rollPc = "rename" =>
          /\ 0 \in Existing => 0 \in todo
          /\ \A j \in Existing \ todo, k \in todo : j > k + 1 \/ j = m_nRollVolumes - 1
    /\ rollPc = "reopen" /\ m_nRollVolumes > 1 => 0 \notin Existing
    /\ rollPc \in InRoll => open = "closed"
    /\ rollPc \in {"delete", "rename"} => m_nRollVolumes > 1

\* m_nSize is the size of the file the stream is open on.
SizeKnown ==
    /\ open = "file" => 0 \in Existing
    /\ open = "file" /\ Bounded => m_nSize = volumes[0].bytes
    /\ rollPc = "write" /\ Bounded => m_nSize < m_nVolumeSize

RollIInv == RollType /\ Numbered /\ RollPlace /\ SizeKnown /\ VolumesInOrder /\ VolumeBounded

LEMMA RollInitInv == RollInit => RollIInv
  <1>. SUFFICES ASSUME RollInit PROVE RollIInv
    OBVIOUS
  <1>1. Existing = {}
    BY DEF RollInit, Existing
  <1>. QED
    BY <1>1, RollAssumption DEF RollInit, RollIInv, RollType, InRoll, Numbered, RollPlace,
       SizeKnown, VolumesInOrder, VolumeBounded

\* What a rename does: file k gets the index k + 1 and replaces the one that had it.
LEMMA RollRenameEffect ==
    ASSUME RollIInv, RollRename
    PROVE  /\ UNCHANGED <<open, m_nSize, message, size, rollPc>> /\ rollPc = "rename"
           /\ \E k \in todo :
                /\ k \in 0 .. m_nRollVolumes - 1
                /\ \A j \in todo : j <= k
                /\ todo' = todo \ {k}
                /\ \/ /\ UNCHANGED <<volumes, Existing>>
                      /\ k \in Existing => k = m_nRollVolumes - 1
                   \/ /\ k < m_nRollVolumes - 1 /\ k \in Existing
                      /\ Existing' = (Existing \ {k}) \cup {k + 1}
                      /\ volumes'[k + 1] = volumes[k]
                      /\ \A j \in Existing' : j # k + 1 => volumes'[j] = volumes[j]
  <1>1. PICK k \in todo : /\ \A j \in todo : j <= k
                          /\ todo' = todo \ {k}
                          /\ volumes' = Renamed(k, k + 1)
    BY DEF RollRename
  <1>2. k \in 0 .. m_nRollVolumes - 1
    BY DEF RollIInv, RollType
  <1>3. CASE k < m_nRollVolumes - 1 /\ k \in Existing
    <2>1. volumes' = [j \in (Existing \ {k}) \cup {k + 1} |-> volumes[IF j = k + 1 THEN k ELSE j]]
      BY <1>1, <1>3 DEF Renamed
    <2>2. /\ Existing' = (Existing \ {k}) \cup {k + 1} /\ volumes'[k + 1] = volumes[k]
          /\ \A j \in Existing' : j # k + 1 => volumes'[j] = volumes[j]
      BY <2>1 DEF Existing
    <2>. QED
      BY <1>1, <1>2, <1>3, <2>2 DEF RollRename
  <1>4. CASE ~ (k < m_nRollVolumes - 1 /\ k \in Existing)
    <2>1. UNCHANGED <<volumes, Existing>>
      BY <1>1, <1>4 DEF Renamed, Existing
    <2>2. k \in Existing => k = m_nRollVolumes - 1
      BY <1>2, <1>4, RollAssumption
    <2>. QED
      BY <1>1, <1>2, <2>1, <2>2 DEF RollRename
  <1>. QED
    BY <1>3, <1>4

LEMMA RollStepInv == RollIInv /\ [RollNext]_rollVars => RollIInv'
  \* OpenAppend leaves the volumes alone or adds an empty one.
  <1>OpenAppendEffect. ASSUME RollType, OpenAppend, UNCHANGED <<todo, size>>
                       PROVE  /\ Existing' = Existing \cup {0} /\ open' = "file"
                              /\ \A k \in Existing : volumes'[k] = volumes[k]
                              /\ 0 \notin Existing => volumes'[0] = [lines |-> <<>>, bytes |-> 0]
    BY <1>OpenAppendEffect DEF OpenAppend, Existing, Put
  <1>OpenAppendKeeps. ASSUME RollIInv, OpenAppend, UNCHANGED <<todo, size>>
                      PROVE  /\ Existing' \subseteq 0 .. m_nRollVolumes - 1
                             /\ \A k \in Existing' : volumes'[k] \in Volume
                             /\ \A k \in Existing' : \A a \in DOMAIN Lines(k)' :
                                   k \in Existing /\ a \in DOMAIN Lines(k) /\ Lines(k)'[a] = Lines(k)[a]
                             /\ VolumesInOrder' /\ VolumeBounded'
    <2>. USE <1>OpenAppendKeeps
    <2>1. /\ Existing' = Existing \cup {0}
          /\ \A k \in Existing : volumes'[k] = volumes[k]
          /\ 0 \notin Existing => volumes'[0] = [lines |-> <<>>, bytes |-> 0]
      BY <1>OpenAppendEffect DEF RollIInv
    <2>2. 0 \in 0 .. m_nRollVolumes - 1
      BY RollAssumption
    <2>3. Existing' \subseteq 0 .. m_nRollVolumes - 1
      BY <2>1, <2>2 DEF RollIInv, RollType
    <2>4. [lines |-> <<>>, bytes |-> 0] \in Volume
      BY DEF Volume
    <2>5. \A k \in Existing' : volumes'[k] \in Volume
      BY <2>1, <2>4 DEF RollIInv, RollType
    <2>6. \A k \in Existing' : \/ k \in Existing /\ volumes'[k] = volumes[k]
                              \/ Lines(k)' = <<>>
      BY <2>1 DEF Lines
    <2>7. \A k \in Existing' : \A a \in DOMAIN Lines(k)' :
             k \in Existing /\ a \in DOMAIN Lines(k) /\ Lines(k)'[a] = Lines(k)[a]
      BY <2>6 DEF Lines
    <2>8. VolumesInOrder'
      BY <2>7 DEF RollIInv, VolumesInOrder
    <2>9. VolumeBounded'
      BY <2>6 DEF RollIInv, VolumeBounded, Lines
    <2>. QED
      BY <2>3, <2>5, <2>7, <2>8, <2>9, Zenon
  <1>doOpenInv. ASSUME RollIInv, doOpen
                PROVE  RollIInv'
    <2>. USE <1>doOpenInv
    <2>1. UNCHANGED <<todo, size>> /\ OpenAppend
      BY DEF doOpen
    <2>2. /\ Existing' = Existing \cup {0} /\ open' = "file"
          /\ \A k \in Existing : volumes'[k] = volumes[k]
          /\ 0 \notin Existing => volumes'[0] = [lines |-> <<>>, bytes |-> 0]
      BY <2>1, <1>OpenAppendEffect DEF RollIInv
    <2>3. /\ Existing' \subseteq 0 .. m_nRollVolumes - 1
          /\ \A k \in Existing' : volumes'[k] \in Volume
          /\ \A k \in Existing' : \A a \in DOMAIN Lines(k)' :
                k \in Existing /\ a \in DOMAIN Lines(k) /\ Lines(k)'[a] = Lines(k)[a]
          /\ VolumesInOrder' /\ VolumeBounded'
      BY <2>1, <1>OpenAppendKeeps
    <2>4. m_nSize' = volumes'[0].bytes
      BY <2>2 DEF doOpen
    <2>5. 0 \in Existing' /\ volumes'[0].bytes \in Int
      BY <2>2, <2>3 DEF Volume
    <2>6. RollType'
      BY <2>2, <2>3, <2>4, <2>5 DEF doOpen, RollIInv, RollType
    <2>7. Numbered'
      BY <2>3 DEF doOpen, RollIInv, Numbered, InRoll
    <2>8. RollPlace' /\ SizeKnown'
      BY <2>4, <2>5 DEF doOpen, RollPlace, SizeKnown, InRoll
    <2>. QED
      BY <2>3, <2>6, <2>7, <2>8 DEF RollIInv
  <1>check_file_deleteInv. ASSUME RollIInv, check_file_delete
                           PROVE  RollIInv'
    <2>. USE <1>check_file_deleteInv
    <2>1. UNCHANGED <<todo, size>> /\ OpenAppend
      BY DEF check_file_delete
    <2>2. /\ Existing' = Existing \cup {0} /\ open' = "file"
          /\ \A k \in Existing : volumes'[k] = volumes[k]
          /\ 0 \notin Existing => volumes'[0] = [lines |-> <<>>, bytes |-> 0]
      BY <2>1, <1>OpenAppendEffect DEF RollIInv
    <2>3. /\ Existing' \subseteq 0 .. m_nRollVolumes - 1
          /\ \A k \in Existing' : volumes'[k] \in Volume
          /\ \A k \in Existing' : \A a \in DOMAIN Lines(k)' :
                k \in Existing /\ a \in DOMAIN Lines(k) /\ Lines(k)'[a] = Lines(k)[a]
          /\ VolumesInOrder' /\ VolumeBounded'
      BY <2>1, <1>OpenAppendKeeps
    <2>4. m_nSize' = 0 /\ volumes'[0].bytes = 0 /\ 0 \in Existing'
      BY <2>2 DEF check_file_delete
    <2>6. RollType'
      BY <2>2, <2>3, <2>4 DEF check_file_delete, RollIInv, RollType
    <2>7. Numbered'
      BY <2>3 DEF check_file_delete, RollIInv, Numbered, InRoll
    <2>8. RollPlace' /\ SizeKnown'
      BY <2>4 DEF check_file_delete, RollPlace, SizeKnown, InRoll
    <2>. QED
      BY <2>3, <2>6, <2>7, <2>8 DEF RollIInv
  <1>RollReopenInv. ASSUME RollIInv, RollReopen
                    PROVE  RollIInv'
    <2>. USE <1>RollReopenInv
    <2>1. UNCHANGED <<todo, size>> /\ OpenAppend
      BY DEF RollReopen
    <2>2. /\ Existing' = Existing \cup {0} /\ open' = "file"
          /\ \A k \in Existing : volumes'[k] = volumes[k]
          /\ 0 \notin Existing => volumes'[0] = [lines |-> <<>>, bytes |-> 0]
      BY <2>1, <1>OpenAppendEffect DEF RollIInv
    <2>3. /\ Existing' \subseteq 0 .. m_nRollVolumes - 1
          /\ \A k \in Existing' : volumes'[k] \in Volume
          /\ \A k \in Existing' : \A a \in DOMAIN Lines(k)' :
                k \in Existing /\ a \in DOMAIN Lines(k) /\ Lines(k)'[a] = Lines(k)[a]
          /\ VolumesInOrder' /\ VolumeBounded'
      BY <2>1, <1>OpenAppendKeeps
    <2>4. m_nSize' = 0 /\ 0 \in Existing' /\ rollPc' = "write"
      BY <2>2 DEF RollReopen
    <2>5. Bounded => volumes'[0].bytes = 0
      BY <2>2 DEF RollReopen, RollIInv, RollPlace, Bounded
    <2>6. RollType'
      BY <2>2, <2>3, <2>4 DEF RollReopen, RollIInv, RollType
    <2>7. Numbered'
      BY <2>3 DEF RollReopen, RollIInv, Numbered, InRoll
    <2>8. RollPlace'
      BY <2>4 DEF RollPlace, InRoll
    <2>9. SizeKnown'
      BY <2>4, <2>5, RollAssumption DEF SizeKnown, Bounded
    <2>. QED
      BY <2>3, <2>6, <2>7, <2>8, <2>9 DEF RollIInv
  <1>doAppendLineInv. ASSUME RollIInv, NEW len \in Sizes, doAppendLine(len)
                      PROVE  RollIInv'
    <2>. USE <1>doAppendLineInv
    <2>t. size \in Seq(Nat) /\ len \in Nat
      BY RollAssumption DEF RollIInv, RollType
    <2>1. /\ size' \in Seq(Nat) /\ Len(size') = Len(size) + 1 /\ message' = Len(size')
          /\ \A n \in 1 .. Len(size) : size'[n] = size[n]
      BY <2>t DEF doAppendLine
    <2>2. Len(size) \in Nat /\ UNCHANGED <<volumes, m_nSize, todo>>
      BY <2>t DEF doAppendLine
    <2>3. UNCHANGED Existing /\ \A k : UNCHANGED Lines(k)
      BY <2>2 DEF Existing, Lines
    <2>4. RollType'
      BY <2>1, <2>2, <2>3 DEF doAppendLine, RollIInv, RollType, InRoll
    <2>5. Numbered'
      <3>1. \A k \in Existing : \A a \in DOMAIN Lines(k) : Lines(k)[a] \in 1 .. Len(size)
        BY DEF RollIInv, Numbered
      <3>. QED
        BY <2>1, <2>2, <2>3, <3>1 DEF Numbered
    <2>6. RollPlace'
      BY <2>2, <2>3 DEF doAppendLine, RollIInv, RollPlace, InRoll
    <2>7. SizeKnown'
      BY <2>2, <2>3, RollAssumption DEF doAppendLine, RollIInv, RollType, SizeKnown, Bounded, InRoll
    <2>8. VolumesInOrder'
      BY <2>3 DEF RollIInv, VolumesInOrder
    <2>9. VolumeBounded'
      <3>1. \A k \in Existing : Lines(k) \in Seq(Nat)
        BY DEF RollIInv, RollType, Volume, Lines
      <3>2. \A k \in Existing : Lines(k) # <<>> => Lines(k)[Len(Lines(k))] \in 1 .. Len(size)
        BY <3>1 DEF RollIInv, Numbered
      <3>. QED
        BY <2>1, <2>2, <2>3, <3>2 DEF RollIInv, VolumeBounded
    <2>. QED
      BY <2>4, <2>5, <2>6, <2>7, <2>8, <2>9 DEF RollIInv
  \* A step that only takes files away.
  <1>FewerVolumes. ASSUME RollIInv, NEW k, volumes' = Without(k), UNCHANGED size
                   PROVE  /\ Existing' = Existing \ {k}
                          /\ \A j \in Existing' : volumes'[j] = volumes[j]
                          /\ VolumesInOrder' /\ VolumeBounded'
    <2>. USE <1>FewerVolumes
    <2>1. Existing' = Existing \ {k} /\ \A j \in Existing' : volumes'[j] = volumes[j]
      BY DEF Existing, Without
    <2>2. VolumesInOrder'
      BY <2>1 DEF RollIInv, VolumesInOrder, Lines
    <2>3. VolumeBounded'
      BY <2>1 DEF RollIInv, VolumeBounded, Lines
    <2>. QED
      BY <2>1, <2>2, <2>3
  <1>RollDeleteInv. ASSUME RollIInv, RollDelete
                    PROVE  RollIInv'
    <2>. USE <1>RollDeleteInv
    <2>1. /\ Existing' \subseteq Existing /\ \A j \in Existing' : volumes'[j] = volumes[j]
          /\ VolumesInOrder' /\ VolumeBounded'
      <3>1. CASE volumes' = Without(m_nRollVolumes - 1)
        BY <3>1, <1>FewerVolumes DEF RollDelete
      <3>2. CASE volumes' = volumes
        BY <3>2, Zenon DEF RollDelete, RollIInv, VolumesInOrder, VolumeBounded, Lines, Existing
      <3>. QED
        BY <3>1, <3>2 DEF RollDelete
    <2>2. todo' = Existing' /\ rollPc' = "rename" /\ rollPc = "delete"
          /\ UNCHANGED <<open, m_nSize, message, size>>
      BY DEF RollDelete, Existing
    <2>3. RollType'
      BY <2>1, <2>2 DEF RollIInv, RollType, InRoll
    <2>4. Numbered'
      BY <2>1, <2>2 DEF RollIInv, Numbered, InRoll, Lines
    <2>5. RollPlace' /\ SizeKnown'
      BY <2>2 DEF RollIInv, RollPlace, SizeKnown, InRoll
    <2>. QED
      BY <2>1, <2>3, <2>4, <2>5 DEF RollIInv
  <1>DeleteVolumeInv. ASSUME RollIInv, NEW k \in Existing, DeleteVolume(k)
                      PROVE  RollIInv'
    <2>. USE <1>DeleteVolumeInv
    <2>1. /\ Existing' = Existing \ {k} /\ \A j \in Existing' : volumes'[j] = volumes[j]
          /\ VolumesInOrder' /\ VolumeBounded'
      BY <1>FewerVolumes DEF DeleteVolume
    <2>2. UNCHANGED <<m_nSize, rollPc, todo, message, size>>
          /\ open' = IF k = 0 /\ open = "file" THEN "unlinked" ELSE open
      BY DEF DeleteVolume
    <2>3. RollType'
      BY <2>1, <2>2 DEF RollIInv, RollType, InRoll
    <2>4. Numbered'
      BY <2>1, <2>2 DEF RollIInv, Numbered, InRoll, Lines
    <2>5. RollPlace' /\ SizeKnown'
      BY <2>1, <2>2 DEF RollIInv, RollPlace, SizeKnown, InRoll
    <2>. QED
      BY <2>1, <2>3, <2>4, <2>5 DEF RollIInv
  <1>RollRenameInv. ASSUME RollIInv, RollRename
                    PROVE  RollIInv'
    <2>. USE <1>RollRenameInv
    <2>1. PICK k \in todo :
            /\ k \in 0 .. m_nRollVolumes - 1
            /\ \A j \in todo : j <= k
            /\ todo' = todo \ {k}
            /\ \/ /\ UNCHANGED <<volumes, Existing>>
                  /\ k \in Existing => k = m_nRollVolumes - 1
               \/ /\ k < m_nRollVolumes - 1 /\ k \in Existing
                  /\ Existing' = (Existing \ {k}) \cup {k + 1}
                  /\ volumes'[k + 1] = volumes[k]
                  /\ \A j \in Existing' : j # k + 1 => volumes'[j] = volumes[j]
      BY RollRenameEffect
    <2>2. UNCHANGED <<open, m_nSize, message, size, rollPc>> /\ rollPc = "rename" /\ open = "closed"
      BY RollRenameEffect DEF RollIInv, RollPlace, InRoll
    <2>3. m_nRollVolumes \in Nat /\ Existing \subseteq Nat /\ todo \subseteq Nat /\ k \in Nat
      BY <2>1, RollAssumption DEF RollIInv, RollType
    <2>4. CASE UNCHANGED <<volumes, Existing>> /\ (k \in Existing => k = m_nRollVolumes - 1)
      <3>1. RollType'
        BY <2>1, <2>2, <2>4 DEF RollIInv, RollType
      <3>2. Numbered' /\ SizeKnown'
        BY <2>2, <2>4 DEF RollIInv, Numbered, SizeKnown, Lines
      <3>4. VolumesInOrder' /\ VolumeBounded'
        BY <2>2, <2>4 DEF RollIInv, VolumesInOrder, VolumeBounded, Lines
      <3>3. RollPlace'
        <4>1. 0 \in Existing => 0 \in todo'
          <5>1. SUFFICES ASSUME 0 \in Existing, k = 0 PROVE FALSE
            BY <2>1, <2>2 DEF RollIInv, RollPlace
          <5>2. m_nRollVolumes > 1
            BY <2>2 DEF RollIInv, RollPlace
          <5>. QED
            BY <5>1, <5>2, <2>3, <2>4
        <4>. QED
          BY <2>1, <2>2, <2>3, <2>4, <4>1 DEF RollIInv, RollPlace, InRoll
      <3>. QED
        BY <3>1, <3>2, <3>3, <3>4 DEF RollIInv
    <2>5. ASSUME k < m_nRollVolumes - 1, k \in Existing,
                 Existing' = (Existing \ {k}) \cup {k + 1},
                 volumes'[k + 1] = volumes[k],
                 \A j \in Existing' : j # k + 1 => volumes'[j] = volumes[j]
          PROVE  RollIInv'
      <3> DEFINE was(j) == IF j = k + 1 THEN k ELSE j
      <3>1. \A j \in Existing' : was(j) \in Existing /\ volumes'[j] = volumes[was(j)]
        BY <2>5
      <3>2. \A i, j \in Existing' : i > j => was(i) > was(j)
        BY <2>3, <2>5
      <3>3. \A i, j \in Existing' : was(i) = was(j) => i = j
        BY <2>3, <2>5
      <3>4. \A j \in Existing' : Lines(j)' = Lines(was(j))
        BY <3>1 DEF Lines
      <3> HIDE DEF was
      <3>5. RollType'
        <4>1. k + 1 \in 0 .. m_nRollVolumes - 1
          BY <2>3, <2>5
        <4>2. Existing' \subseteq 0 .. m_nRollVolumes - 1
          BY <2>5, <4>1 DEF RollIInv, RollType
        <4>. QED
          BY <2>1, <2>2, <3>1, <4>2 DEF RollIInv, RollType
      <3>6. Numbered'
        BY <2>2, <3>1, <3>4, Zenon DEF RollIInv, Numbered
      <3>7. RollPlace'
        <4>1. 0 \in Existing' => 0 \in todo'
          BY <2>1, <2>2, <2>3, <2>5 DEF RollIInv, RollPlace
        <4>2. ASSUME NEW j \in Existing' \ todo', NEW l \in todo'
              PROVE  j > l + 1 \/ j = m_nRollVolumes - 1
          <5>1. l \in todo /\ l < k
            BY <2>1, <2>3, <4>2
          <5>2. CASE j = k + 1
            BY <2>3, <5>1, <5>2
          <5>3. CASE j # k + 1
            BY <2>1, <2>2, <2>5, <4>2, <5>1, <5>3 DEF RollIInv, RollPlace
          <5>. QED
            BY <5>2, <5>3
        <4>3. m_nRollVolumes > 1
          BY <2>2 DEF RollIInv, RollPlace
        <4>. QED
          BY <2>2, <4>1, <4>2, <4>3 DEF RollPlace
      <3>8. SizeKnown'
        BY <2>2 DEF SizeKnown
      <3>9. VolumesInOrder'
        BY <3>1, <3>2, <3>4 DEF RollIInv, VolumesInOrder
      <3>10. VolumeBounded'
        BY <2>2, <3>1, <3>4 DEF RollIInv, VolumeBounded
      <3>. QED
        BY <3>5, <3>6, <3>7, <3>8, <3>9, <3>10 DEF RollIInv
    <2>. QED
      BY <2>1, <2>4, <2>5
  <1>RollRenamedInv. ASSUME RollIInv, RollRenamed
                     PROVE  RollIInv'
    <2>. USE <1>RollRenamedInv
    <2>1. /\ rollPc = "rename" /\ todo = {} /\ rollPc' = "reopen"
          /\ UNCHANGED <<volumes, open, m_nSize, todo, message, size>>
      BY DEF RollRenamed
    <2>2. UNCHANGED Existing /\ \A k : UNCHANGED Lines(k)
      BY <2>1 DEF Existing, Lines
    <2>3. RollType' /\ Numbered'
      BY <2>1, <2>2 DEF RollIInv, RollType, Numbered, InRoll
    <2>4. RollPlace' /\ SizeKnown'
      BY <2>1, <2>2, Zenon DEF RollIInv, RollPlace, SizeKnown, InRoll
    <2>5. VolumesInOrder' /\ VolumeBounded'
      BY <2>1, <2>2 DEF RollIInv, VolumesInOrder, VolumeBounded
    <2>. QED
      BY <2>3, <2>4, <2>5 DEF RollIInv
  <1>RollWriteInv. ASSUME RollIInv, RollWrite
                   PROVE  RollIInv'
    <2>. USE <1>RollWriteInv
    <2>1. /\ rollPc = "write" /\ rollPc' = "idle" /\ message' = 0
          /\ m_nSize' = m_nSize + size[message] /\ UNCHANGED <<open, todo, size>>
      BY DEF RollWrite
    <2>2. /\ message = Len(size) /\ message > 0 /\ message \in Nat
          /\ size \in Seq(Nat) /\ m_nSize \in Int
          /\ \A k \in Existing : \A a \in DOMAIN Lines(k) : Lines(k)[a] < message
      BY <2>1 DEF RollIInv, RollType, Numbered
    <2>3. size[message] \in Nat
      BY <2>2
    <2>4. CASE open # "file"
      <3>1. UNCHANGED volumes /\ UNCHANGED Existing /\ \A k : UNCHANGED Lines(k)
        BY <2>4 DEF RollWrite, Existing, Lines
      <3>2. RollType'
        BY <2>1, <2>2, <2>3, <3>1 DEF RollIInv, RollType
      <3>3. Numbered' /\ RollPlace' /\ SizeKnown'
        BY <2>1, <2>4, <3>1 DEF RollIInv, Numbered, RollPlace, SizeKnown, InRoll
      <3>4. VolumesInOrder' /\ VolumeBounded'
        BY <2>1, <3>1 DEF RollIInv, VolumesInOrder, VolumeBounded
      <3>. QED
        BY <3>2, <3>3, <3>4 DEF RollIInv
    <2>5. CASE open = "file"
      <3>1. 0 \in Existing /\ volumes[0] \in Volume /\ Lines(0) \in Seq(Nat) /\ volumes[0].bytes \in Int
        BY <2>5 DEF RollIInv, RollType, SizeKnown, Volume, Lines
      <3> DEFINE new == [lines |-> Append(Lines(0), message),
                         bytes |-> volumes[0].bytes + size[message]]
      <3>2. /\ UNCHANGED Existing /\ volumes'[0] = new
            /\ \A k \in Existing : k # 0 => volumes'[k] = volumes[k]
        BY <2>5, <3>1, Zenon DEF RollWrite, Put, Existing, Lines
      <3>3. new \in Volume
        BY <2>2, <2>3, <3>1 DEF Volume
      <3>4. /\ Lines(0)' = Append(Lines(0), message)
            /\ \A k \in Existing : k # 0 => Lines(k)' = Lines(k)
        BY <3>2 DEF Lines
      <3>5. /\ DOMAIN Lines(0)' = 1 .. Len(Lines(0)) + 1
            /\ Lines(0)'[Len(Lines(0)) + 1] = message
            /\ \A a \in DOMAIN Lines(0) : Lines(0)'[a] = Lines(0)[a]
            /\ Len(Lines(0)) \in Nat /\ Len(Lines(0)') = Len(Lines(0)) + 1
            /\ DOMAIN Lines(0) = 1 .. Len(Lines(0))
        <4> DEFINE app == Append(Lines(0), message)
        <4>1. /\ DOMAIN app = 1 .. Len(Lines(0)) + 1 /\ app[Len(Lines(0)) + 1] = message
              /\ \A a \in DOMAIN Lines(0) : app[a] = Lines(0)[a]
              /\ Len(Lines(0)) \in Nat /\ Len(app) = Len(Lines(0)) + 1
              /\ DOMAIN Lines(0) = 1 .. Len(Lines(0))
          BY <2>2, <3>1, AppendFacts
        <4>2. Lines(0)' = app
          BY <3>4
        <4> HIDE DEF app
        <4>. QED
          BY <4>1, <4>2
      <3>6. \A k \in Existing : \A a \in DOMAIN Lines(k)' :
               \/ a \in DOMAIN Lines(k) /\ Lines(k)'[a] = Lines(k)[a]
               \/ k = 0 /\ a = Len(Lines(0)) + 1 /\ Lines(k)'[a] = message
        <4>1. SUFFICES ASSUME NEW a \in DOMAIN Lines(0)'
                       PROVE  \/ a \in DOMAIN Lines(0) /\ Lines(0)'[a] = Lines(0)[a]
                              \/ a = Len(Lines(0)) + 1 /\ Lines(0)'[a] = message
          BY <3>4
        <4>. QED
          BY <3>5
      <3>7. RollType'
        <4>1. m_nSize' \in Int
          BY <2>1, <2>2, <2>3
        <4>2. \A k \in Existing' : volumes'[k] \in Volume
          BY <3>2, <3>3 DEF RollIInv, RollType
        <4> HIDE DEF new
        <4>. QED
          BY <2>1, <2>2, <3>2, <4>1, <4>2 DEF RollIInv, RollType
      <3>8. Numbered'
        <4>1. message \in 1 .. Len(size)
          BY <2>2
        <4>2. \A k \in Existing' : \A a \in DOMAIN Lines(k)' : Lines(k)'[a] \in 1 .. Len(size)
          BY <3>2, <3>6, <4>1, Zenon DEF RollIInv, Numbered
        <4>. QED
          BY <2>1, <4>2 DEF Numbered, InRoll
      <3>9. RollPlace'
        BY <2>1 DEF RollPlace, InRoll
      <3>10. SizeKnown'
        BY <2>1, <3>1, <3>2 DEF RollIInv, SizeKnown, Bounded
      <3>11. VolumesInOrder'
        <4>1. SUFFICES ASSUME NEW j \in Existing', NEW k \in Existing',
                              NEW a \in DOMAIN Lines(j)', NEW b \in DOMAIN Lines(k)',
                              j > k \/ (j = k /\ a < b)
                       PROVE  Lines(j)'[a] < Lines(k)'[b]
          BY DEF VolumesInOrder
        <4>2. j \in Nat /\ k \in Nat
          BY <3>2, RollAssumption DEF RollIInv, RollType
        <4>3. a \in DOMAIN Lines(j) /\ Lines(j)'[a] = Lines(j)[a]
          <5>1. SUFFICES ASSUME j = 0, a = Len(Lines(0)) + 1 PROVE FALSE
            BY <3>2, <3>6
          <5>2. k = 0 /\ a < b
            BY <4>1, <4>2, <5>1
          <5>. QED
            BY <3>5, <5>1, <5>2
        <4>. QED
          BY <2>2, <3>2, <3>6, <4>1, <4>3 DEF RollIInv, VolumesInOrder
      <3>12. VolumeBounded'
        <4>1. SUFFICES ASSUME Bounded
                       PROVE  volumes'[0].bytes - size[Lines(0)'[Len(Lines(0)')]] < m_nVolumeSize
          BY <2>1, <3>2, <3>4 DEF RollIInv, VolumeBounded, Bounded
        <4>2. Lines(0)'[Len(Lines(0)')] = message
          BY <3>5
        <4>3. volumes[0].bytes < m_nVolumeSize
          BY <2>1, <2>5, <4>1 DEF RollIInv, SizeKnown
        <4>. QED
          BY <2>3, <3>1, <3>2, <4>2, <4>3, RollAssumption
      <3>. QED
        BY <3>7, <3>8, <3>9, <3>10, <3>11, <3>12 DEF RollIInv
    <2>. QED
      BY <2>4, <2>5
  <1>RollRestartInv. ASSUME RollIInv, RollRestart
                     PROVE  RollIInv'
    <2>. USE <1>RollRestartInv
    <2>1. /\ rollPc' = "start" /\ open' = "closed" /\ m_nSize' = 0 /\ todo' = {}
          /\ message' = 0 /\ UNCHANGED <<volumes, size>>
      BY DEF RollRestart
    <2>2. UNCHANGED Existing /\ \A k : UNCHANGED Lines(k)
      BY <2>1 DEF Existing, Lines
    <2>3. RollType' /\ Numbered'
      BY <2>1, <2>2 DEF RollIInv, RollType, Numbered, InRoll
    <2>4. RollPlace' /\ SizeKnown'
      BY <2>1 DEF RollPlace, SizeKnown, InRoll
    <2>5. VolumesInOrder' /\ VolumeBounded'
      BY <2>1, <2>2 DEF RollIInv, VolumesInOrder, VolumeBounded
    <2>. QED
      BY <2>3, <2>4, <2>5 DEF RollIInv
  <1>. SUFFICES ASSUME RollIInv, [RollNext]_rollVars PROVE RollIInv'
    OBVIOUS
  <1>1. CASE UNCHANGED rollVars
    <2>1. UNCHANGED <<volumes, open, m_nSize, rollPc, todo, message, size>>
      BY <1>1 DEF rollVars
    <2>2. UNCHANGED Existing /\ \A k : UNCHANGED Lines(k)
      BY <2>1 DEF Existing, Lines
    <2>3. RollType' /\ Numbered'
      BY <2>1, <2>2 DEF RollIInv, RollType, Numbered
    <2>4. RollPlace' /\ SizeKnown'
      BY <2>1, <2>2, Zenon DEF RollIInv, RollPlace, SizeKnown
    <2>5. VolumesInOrder' /\ VolumeBounded'
      BY <2>1, <2>2 DEF RollIInv, VolumesInOrder, VolumeBounded
    <2>. QED
      BY <2>3, <2>4, <2>5 DEF RollIInv
  <1>2. ASSUME NEW len \in Sizes, doAppendLine(len) PROVE RollIInv'
    BY <1>2, <1>doAppendLineInv
  <1>3. ASSUME NEW k \in Existing, DeleteVolume(k) PROVE RollIInv'
    BY <1>3, <1>DeleteVolumeInv
  <1>4. CASE Writing
    BY <1>4, <1>RollDeleteInv, <1>RollRenameInv, <1>RollRenamedInv, <1>RollReopenInv, <1>RollWriteInv DEF Writing
  <1>. QED
    BY <1>1, <1>2, <1>3, <1>4, <1>doOpenInv, <1>check_file_deleteInv, <1>RollRestartInv DEF RollNext

\* For every number and size of volumes, messages, deletions and restarts, the log on
\* disk is in order, within its names and its sizes (RollingVolumes, doAppendLine).
THEOREM RollsKeepLog == RollSpec => []RollsSound
  <1>1. RollIInv => RollsSound
    BY DEF RollIInv, RollsSound, RollType, NamesInRange
  <1>. QED
    BY <1>1, RollInitInv, RollStepInv, PTL DEF RollSpec

\* Every message of file k is in some file after the step.
KeptIn(k) == \A a \in DOMAIN Lines(k) :
                \E j \in Existing' : \E b \in DOMAIN Lines(j)' : Lines(j)'[b] = Lines(k)[a]

LEMMA OnlyOldestStep ==
    ASSUME RollIInv, RollNext, ~ meddled
    PROVE  OnlyOldestLoses
  <1>. SUFFICES ASSUME NEW k \in Existing, ~ KeptIn(k), NEW j \in Existing
                PROVE  j <= k
    BY DEF OnlyOldestLoses, KeptIn
  <1>t. m_nRollVolumes \in Nat /\ k \in 0 .. m_nRollVolumes - 1 /\ j \in 0 .. m_nRollVolumes - 1
    BY RollAssumption DEF RollIInv, RollType
  <1>1. SUFFICES k = m_nRollVolumes - 1
    BY <1>t
  <1>2. ASSUME NEW l \in Existing', Lines(k) = Lines(l)' PROVE FALSE
    BY <1>2 DEF KeptIn
  <1>3. CASE UNCHANGED volumes
    BY <1>2, <1>3 DEF Existing, Lines
  <1>4. CASE OpenAppend
    BY <1>2, <1>4, Zenon DEF OpenAppend, Put, Existing, Lines
  <1>5. CASE RollDelete
    BY <1>2, <1>5, Zenon DEF RollDelete, Without, Existing, Lines
  <1>6. CASE RollRename
    <2>1. PICK l \in todo :
          /\ l \in 0 .. m_nRollVolumes - 1
          /\ \A i \in todo : i <= l
          /\ todo' = todo \ {l}
          /\ \/ /\ UNCHANGED <<volumes, Existing>>
                /\ l \in Existing => l = m_nRollVolumes - 1
             \/ /\ l < m_nRollVolumes - 1 /\ l \in Existing
                /\ Existing' = (Existing \ {l}) \cup {l + 1}
                /\ volumes'[l + 1] = volumes[l]
                /\ \A i \in Existing' : i # l + 1 => volumes'[i] = volumes[i]
      BY <1>6, RollRenameEffect
    <2>2. CASE UNCHANGED <<volumes, Existing>>
      BY <1>3, <2>2
    <2>3. CASE ~ UNCHANGED <<volumes, Existing>>
      <3>1. k = l + 1
        <4>1. CASE k = l
          BY <1>2, <2>1, <2>3, <4>1 DEF Lines
        <4>2. CASE k # l /\ k # l + 1
          BY <1>2, <2>1, <2>3, <4>2 DEF Lines
        <4>. QED
          BY <4>1, <4>2
      <3>2. k \notin todo
        BY <2>1, <3>1
      <3>3. k > l + 1 \/ k = m_nRollVolumes - 1
        BY <1>6, <3>2 DEF RollRename, RollIInv, RollPlace
      <3>. QED
        BY <1>t, <2>1, <3>1, <3>3
    <2>. QED
      BY <2>2, <2>3
  <1>7. CASE RollWrite
    <2>1. CASE open # "file"
      BY <1>3, <1>7, <2>1 DEF RollWrite
    <2>2. CASE open = "file"
      <3>1. 0 \in Existing /\ Lines(0) \in Seq(Nat) /\ message \in Nat
        BY <2>2 DEF RollIInv, RollType, SizeKnown, Volume, Lines
      <3>2. /\ UNCHANGED Existing /\ Lines(0)' = Append(Lines(0), message)
            /\ \A i \in Existing : i # 0 => Lines(i)' = Lines(i)
        BY <1>7, <2>2, <3>1, Zenon DEF RollWrite, Put, Existing, Lines
      <3>3. k = 0
        BY <1>2, <3>2
      <3>4. \A a \in DOMAIN Lines(0) : a \in DOMAIN Lines(0)' /\ Lines(0)'[a] = Lines(0)[a]
        BY <3>1, <3>2
      <3>. QED
        BY <3>1, <3>2, <3>3, <3>4 DEF KeptIn
    <2>. QED
      BY <2>1, <2>2
  <1>. QED
    BY <1>3, <1>4, <1>5, <1>6, <1>7, Zenon DEF RollNext, Writing, doOpen, doAppendLine, RollRenamed,
       RollReopen, check_file_delete, DeleteVolume, RollRestart

\* A roll loses the oldest volume and no other when nobody else deletes files, however
\* often the process was killed in the middle of a roll (RollingVolumes).
THEOREM RollLosesOldest == RollSpec => OnlyOldestLost
  <1>1. RollIInv /\ [RollNext]_rollVars => [~ meddled => OnlyOldestLoses]_rollVars
    BY OnlyOldestStep
  <1>. QED
    BY <1>1, RollInitInv, RollStepInv, PTL DEF RollSpec, OnlyOldestLost

-----------------------------------------------------------------------------
\* Asynchronous logging.
LogType ==
    /\ m_log_queue \in Seq(Event)
    /\ m_szBuffer \in Seq(Byte) /\ file \in Seq(Byte) /\ logged \in Seq(Byte)
    /\ calls \in [Loggers -> Nat]

\* Only lines have bytes, and an unbuffered log has an empty buffer.
LogIInv ==
    /\ LogType /\ BufferTerminated
    /\ \A k \in 1 .. Len(m_log_queue) :
          m_log_queue[k].type # "log" => m_log_queue[k].line = <<>>
    /\ m_nBufferSize = 0 => m_szBuffer = <<>>
    /\ closing # "closed" => Chain(m_log_queue, Taken, logged)

LEMMA LogInitInv == LogInit => LogIInv
  <1>. SUFFICES ASSUME LogInit PROVE LogIInv
    OBVIOUS
  <1>1. m_log_queue = <<>> /\ m_szBuffer = <<>> /\ file = <<>> /\ logged = <<>>
    BY DEF LogInit
  <1>2. LogType
    BY <1>1 DEF LogType, LogInit
  <1>3. Taken = <<>>
    BY <1>1 DEF Taken
  <1>4. Chain(<<>>, <<>>, <<>>)
    BY DEF Chain, At
  <1>. QED
    BY <1>1, <1>2, <1>3, <1>4 DEF LogIInv, BufferTerminated

\* The pieces of a long line leave less than a buffer of it.
LEMMA PiecesFit ==
    ASSUME NEW len \in Nat, m_nBufferSize # 0
    PROVE  /\ Pieces(len) * (m_nBufferSize - 1) \in 0 .. len
           /\ len - Pieces(len) * (m_nBufferSize - 1) < m_nBufferSize
  <1>1. m_nBufferSize \in Nat /\ m_nBufferSize > 1
    BY BufferAssumption
  <1>2. CASE len < m_nBufferSize
    <2>1. Pieces(len) = 0
      BY <1>2 DEF Pieces
    <2>2. Pieces(len) * (m_nBufferSize - 1) = 0
      BY <1>1, <2>1
    <2>. QED
      BY <1>1, <1>2, <2>2
  <1>3. CASE len >= m_nBufferSize
    <2> DEFINE x == len - m_nBufferSize
               d == m_nBufferSize - 1
               q == x \div d
               r == x % d
               p == d * q
    <2>1. x \in Nat /\ d \in Nat /\ d > 0
      BY <1>1, <1>3
    <2>2. x = d * q + r /\ r < d /\ q \in Nat /\ r \in Nat
      BY <2>1, Division
    <2>3. Pieces(len) = 1 + q
      BY <1>1, <1>3 DEF Pieces
    <2>4. (1 + q) * d = d + d * q /\ d * q \in Nat
      BY <2>1, <2>2, Distribution, Zenon
    <2>5. Pieces(len) * (m_nBufferSize - 1) = d + p /\ p \in Nat /\ x = p + r
      BY <2>2, <2>3, <2>4
    <2> HIDE DEF p, q, r
    <2>. QED
      BY <1>1, <2>1, <2>2, <2>5
  <1>. QED
    BY <1>1, <1>2, <1>3

\* asyncAppendLine adds the line to what was taken, and to nothing else.
LEMMA asyncAppendLineTakes ==
    ASSUME LogType, BufferTerminated, m_nBufferSize = 0 => m_szBuffer = <<>>,
           NEW msg \in Seq(Byte), asyncAppendLine(msg)
    PROVE  /\ file' \in Seq(Byte) /\ m_szBuffer' \in Seq(Byte)
           /\ Taken' = Taken \o msg
           /\ BufferTerminated'
           /\ m_nBufferSize = 0 => m_szBuffer' = <<>>
  <1>t. file \in Seq(Byte) /\ m_szBuffer \in Seq(Byte) /\ m_nBufferSize \in Nat
        /\ Len(msg) \in Nat /\ Len(m_szBuffer) \in Nat
    BY BufferAssumption DEF LogType
  <1>1. CASE m_nBufferSize = 0
    <2>1. file' = file \o msg /\ m_szBuffer' = <<>> /\ m_szBuffer = <<>>
      BY <1>1 DEF asyncAppendLine
    <2>2. Taken = file /\ Taken' = file \o msg /\ file \o msg \in Seq(Byte)
      BY <1>t, <2>1 DEF Taken
    <2>. QED
      BY <1>1, <1>t, <2>1, <2>2 DEF BufferTerminated
  <1>2. CASE m_nBufferSize # 0 /\ Len(msg) + Len(m_szBuffer) >= m_nBufferSize
    <2> DEFINE w == Pieces(Len(msg)) * (m_nBufferSize - 1)
               fst == SubSeq(msg, 1, w)
               snd == SubSeq(msg, w + 1, Len(msg))
    <2>1. file' = file \o m_szBuffer \o fst /\ m_szBuffer' = snd
      BY <1>2, Zenon DEF asyncAppendLine
    <2>2. w \in 0 .. Len(msg) /\ Len(msg) - w < m_nBufferSize
      BY <1>2, <1>t, PiecesFit
    <2> HIDE DEF w
    <2>3. fst \in Seq(Byte) /\ snd \in Seq(Byte)
      BY <1>t, <2>2
    <2>4. Len(snd) = Len(msg) - w
      BY <1>t, <2>2
    <2>5. fst \o snd = msg
      BY <2>2, LineSplit, Zenon
    <2> HIDE DEF fst, snd
    <2>6. file \o m_szBuffer \in Seq(Byte) /\ (file \o m_szBuffer) \o fst \in Seq(Byte)
      BY <1>t, <2>3
    <2> DEFINE had == file \o m_szBuffer
    <2>7. (had \o fst) \o snd = had \o (fst \o snd)
      <3>1. had \in Seq(Byte)
        BY <2>6
      <3> HIDE DEF had
      <3>. QED
        BY <2>3, <3>1, ThreeLines
    <2>8. Taken' = Taken \o msg
      BY <2>1, <2>5, <2>7 DEF Taken
    <2>9. BufferTerminated'
      BY <2>1, <2>2, <2>4 DEF BufferTerminated
    <2>. QED
      BY <1>2, <2>1, <2>3, <2>6, <2>8, <2>9
  <1>3. CASE m_nBufferSize # 0 /\ Len(msg) + Len(m_szBuffer) < m_nBufferSize
    <2>1. m_szBuffer' = m_szBuffer \o msg /\ file' = file
      BY <1>3, <1>t DEF asyncAppendLine
    <2>2. m_szBuffer \o msg \in Seq(Byte) /\ Len(m_szBuffer \o msg) = Len(m_szBuffer) + Len(msg)
      BY <1>t
    <2>3. file \o (m_szBuffer \o msg) = (file \o m_szBuffer) \o msg
      BY <1>t, ThreeLines, Zenon
    <2>4. BufferTerminated'
      BY <1>3, <1>t, <2>1, <2>2 DEF BufferTerminated
    <2>. QED
      BY <1>3, <1>t, <2>1, <2>2, <2>3, <2>4 DEF Taken
  <1>. QED
    BY <1>1, <1>2, <1>3, <1>t

LEMMA flush_cacheTakes ==
    ASSUME LogType, flush_cache
    PROVE  /\ file' \in Seq(Byte) /\ m_szBuffer' = <<>> /\ m_szBuffer' \in Seq(Byte)
           /\ Taken' = Taken /\ BufferTerminated'
  <1>1. file \o m_szBuffer \in Seq(Byte) /\ Len(<<>>) = 0
    BY DEF LogType
  <1>2. file' = file \o m_szBuffer /\ m_szBuffer' = <<>>
    BY DEF flush_cache
  <1>3. (file \o m_szBuffer) \o <<>> = file \o m_szBuffer
    BY <1>1
  <1>. QED
    BY <1>1, <1>2, <1>3 DEF Taken, BufferTerminated

\* Serving the first event takes its line.
LEMMA LogServeInv ==
    ASSUME LogIInv, LogServe
    PROVE  LogIInv'
  <1> DEFINE q == m_log_queue
             line == Head(q).line
  <1>1. /\ q \in Seq(Event) /\ q # <<>> /\ q' = Tail(q) /\ process_event(Head(q))
        /\ UNCHANGED <<closing, calls, logged>> /\ Taken \in Seq(Byte)
    <2>1. q \in Seq(Event) /\ m_szBuffer \in Seq(Byte) /\ file \in Seq(Byte)
      BY Zenon DEF LogIInv, LogType
    <2>2. q # <<>> /\ q' = Tail(q) /\ process_event(Head(q)) /\ UNCHANGED <<closing, calls, logged>>
      BY DEF LogServe
    <2>. QED
      BY <2>1, <2>2, ConcatFacts, Zenon DEF Taken
  <1>2. /\ Head(q) = q[1] /\ Head(q) \in Event /\ Len(q) \in Nat /\ Len(q) > 0
        /\ q' \in Seq(Event) /\ Len(q') = Len(q) - 1
        /\ \A k \in 1 .. Len(q) - 1 : q'[k] = q[k + 1]
    BY <1>1, TailFacts
  <1>3. line \in Seq(Byte)
    BY <1>2 DEF Event
  <1>4. Head(q).type # "log" => line = <<>>
    BY <1>2 DEF LogIInv
  <1>5. /\ file' \in Seq(Byte) /\ m_szBuffer' \in Seq(Byte)
        /\ Taken' = Taken \o line /\ BufferTerminated'
        /\ m_nBufferSize = 0 => m_szBuffer' = <<>>
    <2>1. CASE Head(q).type = "log" /\ asyncAppendLine(line)
      BY <1>3, <2>1, asyncAppendLineTakes, Zenon DEF LogIInv
    <2>2. ASSUME Head(q).type # "log" PROVE Taken \o line = Taken
      BY <1>1, <1>4, <2>2
    <2>3. CASE Head(q).type = "flush" /\ flush_cache
      BY <2>2, <2>3, flush_cacheTakes DEF LogIInv
    <2>4. CASE Head(q).type = "check_delete" /\ UNCHANGED <<m_szBuffer, file>>
      <3>1. UNCHANGED <<Taken, BufferTerminated>>
        BY <2>4 DEF Taken, BufferTerminated
      <3>. QED
        BY <2>2, <2>4, <3>1 DEF LogIInv, LogType
    <2>. QED
      BY <1>1, <2>1, <2>3, <2>4, Zenon DEF process_event
  <1>6. closing' # "closed" => Chain(q', Taken', logged')
    BY <1>1, <1>5, ChainTail, Zenon DEF LogIInv
  <1>7. \A k \in 1 .. Len(q') : q'[k].type # "log" => q'[k].line = <<>>
    BY <1>2 DEF LogIInv
  <1>8. LogType'
    BY <1>1, <1>2, <1>5, Zenon DEF LogIInv, LogType
  <1>. QED
    BY <1>5, <1>6, <1>7, <1>8, Zenon DEF LogIInv

\* Pushing an event adds its line at the end of what was pushed.
LEMMA LogPushInv ==
    ASSUME LogIInv, closing # "closed",
           NEW type \in {"log", "flush", "check_delete"}, NEW line \in Seq(Byte),
           type # "log" => line = <<>>,
           m_log_queue' = Append(m_log_queue, LogEvent(type, line)),
           logged' = logged \o line,
           calls' \in [Loggers -> Nat], UNCHANGED <<m_szBuffer, file, closing>>
    PROVE  LogIInv'
  <1> DEFINE q == m_log_queue
             e == LogEvent(type, line)
  <1>1. /\ q \in Seq(Event) /\ logged \in Seq(Byte)
        /\ e \in Event /\ e.type = type /\ e.line = line /\ e.at = Len(logged)
    <2>1. q \in Seq(Event) /\ logged \in Seq(Byte) /\ Len(logged) \in Nat
      BY DEF LogIInv, LogType
    <2>. QED
      BY <2>1, EventTyped, Zenon DEF LogEvent
  <1> HIDE DEF e
  <1>2. /\ q' \in Seq(Event) /\ Len(q) \in Nat /\ Len(q') = Len(q) + 1
        /\ q'[Len(q) + 1] = e /\ \A k \in 1 .. Len(q) : q'[k] = q[k]
    BY <1>1, AppendFacts DEF e
  <1>3. UNCHANGED <<Taken, BufferTerminated>>
    BY DEF Taken, BufferTerminated
  <1>4. Chain(q', Taken', logged')
    BY <1>1, <1>3, ChainAppend, Zenon DEF LogIInv, e
  <1>5. \A k \in 1 .. Len(q') : q'[k].type # "log" => q'[k].line = <<>>
    <2>1. \A k \in 1 .. Len(q') : k = Len(q) + 1 \/ k \in 1 .. Len(q)
      BY <1>2
    <2>2. \A k \in 1 .. Len(q) : q[k].type # "log" => q[k].line = <<>>
      BY DEF LogIInv
    <2>3. ASSUME NEW k \in 1 .. Len(q'), q'[k].type # "log" PROVE q'[k].line = <<>>
      <3>1. CASE k = Len(q) + 1
        BY <1>1, <1>2, <2>3, <3>1, Zenon
      <3>2. CASE k \in 1 .. Len(q)
        BY <1>2, <2>2, <2>3, <3>2, Zenon
      <3>. QED
        BY <2>1, <3>1, <3>2
    <2>. QED
      BY <2>3
  <1>6. LogType'
    BY <1>2, <1>4, Zenon DEF LogIInv, LogType, Chain
  <1>. QED
    BY <1>3, <1>4, <1>5, <1>6, Zenon DEF LogIInv

LEMMA AppendLineInv ==
    ASSUME LogIInv, NEW t \in Loggers, NEW len \in LineLengths, AppendLine(t, len)
    PROVE  LogIInv'
  <1>1. len \in Nat /\ calls \in [Loggers -> Nat] /\ calls[t] \in Nat
    BY BufferAssumption DEF LogIInv, LogType
  <1>2. Line(t, len) \in Seq(Byte)
    <2>1. \A k \in 1 .. len : <<t, calls[t], k>> \in Byte
      BY <1>1 DEF Byte
    <2>. QED
      BY <1>1, <2>1 DEF Line
  <1>3. calls' \in [Loggers -> Nat] /\ closing # "closed" /\ UNCHANGED <<m_szBuffer, file, closing>>
    BY <1>1 DEF AppendLine, LogCall
  <1>4. /\ m_log_queue' = Append(m_log_queue, LogEvent("log", Line(t, len)))
        /\ logged' = logged \o Line(t, len)
    BY DEF AppendLine
  <1>. QED
    BY <1>2, <1>3, <1>4, LogPushInv, Zenon

\* Steps that leave the lines alone.
LEMMA LogSameInv ==
    ASSUME LogIInv, UNCHANGED <<m_log_queue, m_szBuffer, file, logged>>,
           calls' \in [Loggers -> Nat], closing' # "closed" => closing # "closed"
    PROVE  LogIInv'
  <1>1. UNCHANGED <<Taken, BufferTerminated>>
    BY DEF Taken, BufferTerminated
  <1>2. LogType'
    BY Zenon DEF LogIInv, LogType
  <1>. QED
    BY <1>1, <1>2 DEF LogIInv

LEMMA PushCommandInv ==
    ASSUME LogIInv, NEW t \in Loggers, NEW type \in {"flush", "check_delete"}, PushCommand(t, type)
    PROVE  LogIInv'
  <1>0. calls \in [Loggers -> Nat]
    BY DEF LogIInv, LogType
  <1>1. calls' \in [Loggers -> Nat] /\ closing # "closed" /\ UNCHANGED <<m_szBuffer, file, closing, logged>>
    BY <1>0 DEF PushCommand, LogCall
  <1>2. CASE m_log_queue' = Append(m_log_queue, LogEvent(type, <<>>))
    <2>1. <<>> \in Seq(Byte) /\ logged' = logged \o <<>>
      BY <1>1 DEF LogIInv, LogType
    <2>. QED
      BY <1>1, <1>2, <2>1, LogPushInv, Zenon
  <1>3. CASE UNCHANGED m_log_queue
    BY <1>1, <1>3, LogSameInv
  <1>. QED
    BY <1>2, <1>3 DEF PushCommand

LEMMA CloseFinishInv ==
    ASSUME LogIInv, CloseFinish
    PROVE  LogIInv'
  <1>1. /\ closing' = "closed" /\ m_log_queue' = <<>> /\ flush_cache
        /\ calls' = calls /\ logged' = logged
    BY DEF CloseFinish
  <1>2. file' \in Seq(Byte) /\ m_szBuffer' = <<>> /\ m_szBuffer' \in Seq(Byte) /\ BufferTerminated'
    BY <1>1, flush_cacheTakes DEF LogIInv
  <1>3. LogType'
    <2>1. <<>> \in Seq(Event)
      OBVIOUS
    <2>. QED
      BY <1>1, <1>2, <2>1, Zenon DEF LogIInv, LogType
  <1>. QED
    BY <1>1, <1>2, <1>3 DEF LogIInv

LEMMA LogStepInv == LogIInv /\ [LogNext]_logVars => LogIInv'
  <1>. SUFFICES ASSUME LogIInv, [LogNext]_logVars PROVE LogIInv'
    OBVIOUS
  <1>t. calls \in [Loggers -> Nat]
    BY DEF LogIInv, LogType
  <1>1. ASSUME NEW t \in Loggers, NEW len \in LineLengths, AppendLine(t, len) PROVE LogIInv'
    BY <1>1, AppendLineInv
  <1>2. ASSUME NEW t \in Loggers, NEW type \in {"flush", "check_delete"}, PushCommand(t, type)
        PROVE  LogIInv'
    BY <1>2, PushCommandInv
  <1>3. CASE RunServe \/ DrainServe
    BY <1>3, LogServeInv DEF RunServe, DrainServe
  <1>4. CASE RunLoop \/ RunTimeout \/ DrainDone \/ CloseStop \/ UNCHANGED logVars
    BY <1>4, <1>t, LogSameInv DEF RunLoop, RunTimeout, DrainDone, CloseStop, logVars
  <1>5. CASE CloseFinish
    BY <1>5, CloseFinishInv
  <1>. QED
    BY <1>1, <1>2, <1>3, <1>4, <1>5 DEF LogNext, LogThreadStep

\* For every buffer, queue and set of loggers, the log thread and the appenders keep
\* every byte of every line in its place (push_log, asyncAppendLine, flush_cache).
THEOREM LogThreadKeepsLines == LogSpec => []LinesKept
  <1>1. LogIInv => LinesKept
    <2>. SUFFICES ASSUME LogIInv, closing # "closed" PROVE BytesInOrder
      BY Zenon DEF LogIInv, LinesKept, BytesInOrder
    <2>1. \A k : At(m_log_queue, logged, k) = Begins(k)
      BY DEF At, Begins
    <2>2. Chain(m_log_queue, Taken, logged)
      BY Zenon DEF LogIInv
    <2>3. Reads(m_log_queue, Taken, logged)
      BY <2>2, ChainReads, Zenon
    <2>. QED
      BY <2>1, <2>3, Zenon DEF BytesInOrder, Reads
  <1>. QED
    BY <1>1, LogInitInv, LogStepInv, PTL DEF LogSpec

\* The rolling files and the log thread that feeds them: RollsKeepLog and
\* LogThreadKeepsLines together.
THEOREM LogsAreSound == RollSpec /\ LogSpec => []LogsSound
  <1>1. RollsSound /\ LinesKept => LogsSound
    BY DEF LogsSound
  <1>. QED
    BY <1>1, RollsKeepLog, LogThreadKeepsLines, PTL

-----------------------------------------------------------------------------
\* The deadline of Semaphore::Wait(int) and SingleEvent::Wait(int).
Timespec == [tv_sec : Int, tv_nsec : Int]

\* A call under way has the deadline of its start, and one that gave up found a
\* well-formed deadline passed.
WaitIInv ==
    /\ clock \in Instant /\ start \in Instant
    /\ ts \in Timespec /\ nTimeout \in Int
    /\ call # "idle" => ts = Deadline(start, nTimeout)
    /\ call = "timedout" /\ nTimeout >= 0 => ~ Before(clock, ts)

LEMMA InstantFields ==
    ASSUME NEW a \in Instant
    PROVE  /\ a.tv_sec \in Nat /\ a.tv_nsec \in Nat
           /\ a.tv_nsec < MsPerSec * NsPerMs
  BY DEF Instant, Nanoseconds, NsPerSec, MsPerSec

LEMMA DivMs ==
    ASSUME NEW x \in Int
    PROVE  /\ x \div NsPerMs \in Int
           /\ (x \div NsPerMs) * NsPerMs <= x
           /\ x < (x \div NsPerMs + 1) * NsPerMs
  BY SMT DEF NsPerMs

\* Semaphore.h and SingleEvent.h: a deadline for a timeout of zero or more is a
\* valid timespec, at most as late as asked for and less than a millisecond early.
LEMMA DeadlineClose ==
    ASSUME NEW now \in Instant, NEW n \in Nat
    PROVE  /\ Deadline(now, n) \in Instant
           /\ MilliSecBetween(now, Deadline(now, n)) <= n
           /\ MilliSecBetween(now, Deadline(now, n)) >= n - 1
  <1>. DEFINE s == now.tv_sec
              ns == now.tv_nsec
              q == n \div MsPerSec
              r == n % MsPerSec
              m == ns \div NsPerMs
  <1>1. s \in Nat /\ ns \in Nat /\ ns < MsPerSec * NsPerMs
    BY InstantFields DEF MsPerSec
  <1>2. q \in Nat /\ r \in Nat /\ r < MsPerSec /\ n = MsPerSec * q + r
    BY SMT DEF MsPerSec
  <1>3. Quot(n, MsPerSec) = q /\ Rem(n, MsPerSec) = r
    BY DEF Quot, Rem, MsPerSec
  <1>. HIDE DEF s, ns, q, r
  <1>4. m \in Int /\ m * NsPerMs <= ns /\ ns < (m + 1) * NsPerMs
    BY <1>1, DivMs DEF MsPerSec
  <1>. HIDE DEF m
  <1>5. m \in Nat /\ m < MsPerSec
    BY SMT, <1>1, <1>4 DEF NsPerMs, MsPerSec
  <1>6. CASE m + r < MsPerSec
    <2>. DEFINE t == ns + r * NsPerMs
    <2>1. Deadline(now, n) = [tv_sec |-> s + q, tv_nsec |-> t]
      BY <1>3, <1>6 DEF Deadline, s, ns, m, MsPerSec
    <2>2. t \in Nat /\ t < NsPerSec
      BY SMT, <1>1, <1>2, <1>4, <1>6 DEF NsPerMs, NsPerSec, MsPerSec
    <2>3. (t - ns) \div NsPerMs = r
      BY SMT, <1>1, <1>2 DEF NsPerMs, MsPerSec
    <2>. HIDE DEF t
    <2>4. MilliSecBetween(now, Deadline(now, n)) = ((s + q) - s) * MsPerSec + (t - ns) \div NsPerMs
      <3>1. Deadline(now, n).tv_sec = s + q /\ Deadline(now, n).tv_nsec = t
        BY <2>1 DEF MsPerSec
      <3>. QED
        BY <3>1, Zenon DEF MilliSecBetween, s, ns
    <2>5. MilliSecBetween(now, Deadline(now, n)) = n
      BY SMT, <1>1, <1>2, <2>3, <2>4 DEF MsPerSec
    <2>6. s + q \in Nat
      BY <1>1, <1>2 DEF MsPerSec
    <2>. QED
      BY <2>1, <2>2, <2>5, <2>6 DEF Instant, Nanoseconds, MsPerSec
  <1>7. CASE m + r >= MsPerSec
    <2>. DEFINE t == ((m + r) - MsPerSec) * NsPerMs
                d == (t - ns) \div NsPerMs
    <2>1. Deadline(now, n) = [tv_sec |-> s + q + 1, tv_nsec |-> t]
      BY <1>2, <1>3, <1>5, <1>7 DEF Deadline, s, ns, m, MsPerSec
    <2>2. t \in Nat /\ t < NsPerSec
      BY SMT, <1>2, <1>5, <1>7 DEF NsPerMs, NsPerSec, MsPerSec
    <2>3. d \in Int /\ d * NsPerMs <= t - ns /\ t - ns < (d + 1) * NsPerMs
      BY <1>1, <2>2, DivMs DEF MsPerSec
    <2>4. MilliSecBetween(now, Deadline(now, n)) = ((s + q + 1) - s) * MsPerSec + d
      <3>1. Deadline(now, n).tv_sec = s + q + 1 /\ Deadline(now, n).tv_nsec = t
        BY <2>1 DEF MsPerSec
      <3>. HIDE DEF t
      <3>. QED
        BY <3>1, Zenon DEF MilliSecBetween, s, ns
    <2>. HIDE DEF d
    <2>5. d <= r - MsPerSec /\ d >= r - MsPerSec - 1
      BY SMT, <1>1, <1>2, <1>4, <1>5, <2>3 DEF NsPerMs, MsPerSec
    <2>. HIDE DEF t
    <2>6. ((s + q + 1) - s) * MsPerSec + d <= n /\ ((s + q + 1) - s) * MsPerSec + d >= n - 1
      BY SMT, <1>1, <1>2, <2>3, <2>5 DEF MsPerSec
    <2>7. s + q + 1 \in Nat
      BY <1>1, <1>2 DEF MsPerSec
    <2>. QED
      BY <2>1, <2>2, <2>4, <2>6, <2>7 DEF Instant, Nanoseconds, MsPerSec
  <1>. QED
    BY <1>2, <1>5, <1>6, <1>7 DEF MsPerSec

LEMMA DeadlineType ==
    ASSUME NEW now \in Instant, NEW n \in Int
    PROVE  Deadline(now, n) \in Timespec
  <1>1. now.tv_sec \in Nat /\ now.tv_nsec \in Nat
    BY InstantFields DEF MsPerSec
  <1>2. Quot(n, MsPerSec) \in Int /\ Rem(n, MsPerSec) \in Int
    BY SMT DEF Quot, Rem, MsPerSec
  <1>3. now.tv_nsec \div NsPerMs \in Int /\ NsPerMs \in Int
    BY <1>1, DivMs DEF NsPerMs, MsPerSec
  <1>4. Rem(n, MsPerSec) * NsPerMs \in Int
    BY SMT, <1>2 DEF NsPerMs, MsPerSec
  <1>5. ((now.tv_nsec \div NsPerMs + Rem(n, MsPerSec)) - MsPerSec) * NsPerMs \in Int
    BY SMT, <1>2, <1>3 DEF NsPerMs, MsPerSec
  <1>6. \/ Deadline(now, n) = [tv_sec |-> now.tv_sec + Quot(n, MsPerSec),
                              tv_nsec |-> now.tv_nsec + Rem(n, MsPerSec) * NsPerMs]
        \/ Deadline(now, n) = [tv_sec |-> now.tv_sec + Quot(n, MsPerSec) + 1,
                              tv_nsec |-> ((now.tv_nsec \div NsPerMs + Rem(n, MsPerSec)) - MsPerSec) * NsPerMs]
    BY Zenon DEF Deadline
  <1>7. /\ now.tv_sec + Quot(n, MsPerSec) \in Int /\ now.tv_sec + Quot(n, MsPerSec) + 1 \in Int
        /\ now.tv_nsec + Rem(n, MsPerSec) * NsPerMs \in Int
    BY <1>1, <1>2, <1>4 DEF MsPerSec
  <1>. QED
    BY <1>5, <1>6, <1>7 DEF Timespec, MsPerSec

LEMMA MilliSecInt ==
    ASSUME NEW a \in Instant, NEW b \in Instant
    PROVE  MilliSecBetween(a, b) \in Int
  <1>1. (b.tv_nsec - a.tv_nsec) \div NsPerMs \in Int
    BY InstantFields, DivMs DEF MsPerSec
  <1>. QED
    BY <1>1, InstantFields DEF MilliSecBetween, MsPerSec

\* More time has passed at c than at b when c is not before b.
LEMMA MilliSecMonotone ==
    ASSUME NEW a \in Instant, NEW b \in Instant, NEW c \in Instant, ~ Before(c, b)
    PROVE  MilliSecBetween(a, c) >= MilliSecBetween(a, b)
  <1>. DEFINE x == b.tv_nsec - a.tv_nsec
              y == c.tv_nsec - a.tv_nsec
              dx == x \div NsPerMs
              dy == y \div NsPerMs
  <1>1. /\ a.tv_sec \in Nat /\ b.tv_sec \in Nat /\ c.tv_sec \in Nat
        /\ a.tv_nsec \in Nat /\ b.tv_nsec \in Nat /\ c.tv_nsec \in Nat
    BY InstantFields DEF MsPerSec
  <1>2. x - y < MsPerSec * NsPerMs /\ x \in Int /\ y \in Int
    BY InstantFields, SMT DEF NsPerMs, MsPerSec
  <1>3. b.tv_sec < c.tv_sec \/ (b.tv_sec = c.tv_sec /\ x <= y)
    BY <1>1, SMT DEF Before, MsPerSec
  <1>4. /\ dx \in Int /\ dx * NsPerMs <= x /\ x < (dx + 1) * NsPerMs
        /\ dy \in Int /\ dy * NsPerMs <= y /\ y < (dy + 1) * NsPerMs
    BY <1>2, DivMs DEF MsPerSec
  <1>5. /\ MilliSecBetween(a, b) = (b.tv_sec - a.tv_sec) * MsPerSec + dx
        /\ MilliSecBetween(a, c) = (c.tv_sec - a.tv_sec) * MsPerSec + dy
    BY DEF MilliSecBetween, MsPerSec
  <1>. HIDE DEF x, y, dx, dy
  <1>6. dx - dy <= MsPerSec /\ (x <= y => dx <= dy)
    BY SMT, <1>2, <1>4 DEF NsPerMs, MsPerSec
  <1>. QED
    BY SMT, <1>1, <1>3, <1>4, <1>5, <1>6 DEF MsPerSec

LEMMA BeforeTransitive ==
    ASSUME NEW a \in Instant, NEW b \in Instant, NEW c \in Timespec,
           Before(a, b), ~ Before(a, c)
    PROVE  ~ Before(b, c)
  <1>1. c.tv_sec \in Int /\ c.tv_nsec \in Int
    BY DEF Timespec, MsPerSec
  <1>. QED
    BY SMT, <1>1, InstantFields DEF Before, MsPerSec

LEMMA WaitBegins == WaitInit => WaitIInv
  <1>. SUFFICES ASSUME WaitInit PROVE WaitIInv
    OBVIOUS
  <1>1. clock \in Instant
    BY ClocksAreInstants DEF WaitInit
  <1>2. clock \in Timespec
    BY <1>1 DEF Instant, Timespec, Nanoseconds
  <1>. QED
    BY <1>1, <1>2 DEF WaitInit, WaitIInv

LEMMA WaitKeeps == WaitIInv /\ [WaitNext]_waitVars => WaitIInv'
  <1>. SUFFICES ASSUME WaitIInv, [WaitNext]_waitVars PROVE WaitIInv'
    OBVIOUS
  <1>1. ASSUME NEW now \in Clocks, Tick(now) PROVE WaitIInv'
    <2>1. now \in Instant /\ clock' = now /\ UNCHANGED <<call, nTimeout, start, ts>>
      BY <1>1, ClocksAreInstants DEF Tick
    <2>2. call = "timedout" /\ nTimeout >= 0 => ~ Before(now, ts)
      BY <1>1, <2>1, BeforeTransitive DEF Tick, WaitIInv
    <2>. QED
      BY <2>1, <2>2 DEF WaitIInv
  <1>2. ASSUME NEW n \in Timeouts, Wait(n) PROVE WaitIInv'
    <2>1. n \in Int
      BY TimeoutsAreInts
    <2>2. ts' \in Timespec
      BY <1>2, <2>1, DeadlineType DEF Wait, WaitIInv
    <2>. QED
      BY <1>2, <2>1, <2>2 DEF Wait, WaitIInv
  <1>3. CASE GiveUp
    <2>0. start \in Instant /\ (nTimeout >= 0 => nTimeout \in Nat) /\ ts = Deadline(start, nTimeout)
      BY <1>3 DEF WaitIInv, GiveUp
    <2>1. nTimeout >= 0 => ts \in Instant
      BY <2>0, DeadlineClose, Zenon
    <2>2. nTimeout >= 0 => ts.tv_nsec \in Nanoseconds
      BY <2>1 DEF Instant
    <2>3. nTimeout >= 0 => ~ Before(clock, ts)
      BY <1>3, <2>2 DEF GiveUp
    <2>4. call' = "timedout" /\ UNCHANGED <<clock, nTimeout, start, ts>> /\ ts = Deadline(start, nTimeout)
      BY <1>3 DEF GiveUp, WaitIInv
    <2>. QED
      BY <2>3, <2>4 DEF WaitIInv
  <1>4. CASE UNCHANGED waitVars
    BY <1>4 DEF WaitIInv, waitVars
  <1>. QED
    BY <1>1, <1>2, <1>3, <1>4 DEF WaitNext

LEMMA WaitInvariant == WaitSpec => []WaitIInv
  BY WaitBegins, WaitKeeps, PTL DEF WaitSpec

\* Semaphore::Wait(int) never gives up a whole millisecond before its timeout.
THEOREM NeverEarly == WaitSpec => []NotEarly
  <1>1. WaitIInv => NotEarly
    <2>. SUFFICES ASSUME WaitIInv, call = "timedout", nTimeout >= 0
                  PROVE  MilliSecBetween(start, clock) >= nTimeout - 1
      BY DEF NotEarly
    <2>1. ts = Deadline(start, nTimeout) /\ ~ Before(clock, ts) /\ nTimeout \in Nat
      BY DEF WaitIInv
    <2>2. ts \in Instant /\ MilliSecBetween(start, ts) >= nTimeout - 1
      BY <2>1, DeadlineClose DEF WaitIInv
    <2>3. MilliSecBetween(start, clock) >= MilliSecBetween(start, ts)
      BY <2>1, <2>2, MilliSecMonotone DEF WaitIInv
    <2>4. MilliSecBetween(start, clock) \in Int /\ MilliSecBetween(start, ts) \in Int
      BY <2>2, MilliSecInt DEF WaitIInv
    <2>. QED
      BY <2>1, <2>2, <2>3, <2>4
  <1>. QED
    BY <1>1, WaitInvariant, PTL

\* The deadline Semaphore::Wait(int) passes on is valid and not too late.
THEOREM DeadlineCorrect == WaitSpec => []DeadlineExact
  <1>1. WaitIInv => DeadlineExact
    BY DeadlineClose DEF WaitIInv, DeadlineExact
  <1>. QED
    BY <1>1, WaitInvariant, PTL

\* Semaphore::Wait(int) is punctual for every clock reading and every timeout from 0 on.
THEOREM PunctualWait == WaitSpec => []Punctual
  <1>1. NotEarly /\ DeadlineExact => Punctual
    BY DEF Punctual
  <1>. QED
    BY <1>1, NeverEarly, DeadlineCorrect, PTL

-----------------------------------------------------------------------------
\* The Thread object.
CallerPoints == {"idle", "SynStart.clear", "SynStart.create", "SynStart.pop",
                 "SynStop.flag", "SynStop.pop"}
WorkerPoints == {"unborn", "created", "announce", "run", "left", "flagged", "ended", "done"}
Results == {"none", "started", "start timed out", "stopped", "stop timed out"}

ThreadType ==
    /\ m_bRunning \in BOOLEAN /\ m_bHasEnd \in BOOLEAN /\ owned \in BOOLEAN
    /\ start_queue \in Nat /\ stop_queue \in Nat
    /\ m_mutex \in Callers \cup {Nobody}
    /\ threadPc \in [Callers -> CallerPoints]
    /\ threadResult \in [Callers -> Results]
    /\ wpc \in [Workers -> WorkerPoints]

\* A pthread that is past line 124 has set m_bHasEnd.
EndedMeansEnd == \A w \in Workers : wpc[w] = "ended" => m_bHasEnd

\* With an owner there is at most one pthread at a time
OwnerInv ==
    LET point == threadPc[Owner]
        seen == threadResult[Owner]
    IN  /\ point = "idle" <=> m_mutex = Nobody
        /\ \A v, w \in Live : v = w
        /\ start_queue > 0 => ~Starting
        /\ point \in {"SynStart.clear", "SynStart.create"} => Live = {}
        /\ point = "SynStart.create" => start_queue = 0
        /\ point = "SynStart.pop" /\ start_queue = 0 => Starting
        /\ point \in {"idle", "SynStop.flag", "SynStop.pop"} => ~Starting
        /\ point \in {"SynStop.flag", "SynStop.pop"} /\ stop_queue > 0 => Live = {}
        /\ point = "SynStop.pop" => ~m_bRunning
        /\ point = "idle" /\ seen \in {"stopped", "stop timed out"} => Live = {}
        /\ seen # "start timed out"

ThreadInv ==
    /\ ThreadType /\ RunningMeansAlive /\ TokenMeansEnded /\ EndedMeansEnd
    /\ owned => OwnerInv

-----------------------------------------------------------------------------
LEMMA NatDown == ASSUME NEW n \in Nat, n > 0 PROVE n - 1 \in Nat
  OBVIOUS

LEMMA NatUp == ASSUME NEW n \in Nat PROVE n + 1 \in Nat
  OBVIOUS

LEMMA ThreadTypeKept == ThreadType /\ [ThreadNext]_threadVars => ThreadType'
  <1>. SUFFICES ASSUME ThreadType, [ThreadNext]_threadVars PROVE ThreadType'
    OBVIOUS
  <1>. USE DEF ThreadType, callerVars, CallerPoints, Results, WorkerPoints
  <1>1. ASSUME NEW c \in Callers, Start(c), UNCHANGED owned PROVE ThreadType'
    BY <1>1, Zenon DEF Start, Create, Move
  <1>2. ASSUME NEW c \in Callers, Stop(c), UNCHANGED owned PROVE ThreadType'
    BY <1>2, Zenon DEF Stop
  <1>3. ASSUME NEW c \in Callers, SynStartEnter(c), UNCHANGED owned PROVE ThreadType'
    BY <1>3, Zenon DEF SynStartEnter, SynGoto
  <1>4. ASSUME NEW c \in Callers, SynStopEnter(c), UNCHANGED owned PROVE ThreadType'
    BY <1>4, Zenon DEF SynStopEnter, SynGoto
  <1>5. ASSUME NEW c \in Callers, SynStartClear(c), UNCHANGED owned PROVE ThreadType'
    BY <1>5, Zenon DEF SynStartClear, SynGoto
  <1>6. ASSUME NEW c \in Callers, SynStartCreate(c), UNCHANGED owned PROVE ThreadType'
    BY <1>6, Zenon DEF SynStartCreate, SynGoto, Create, Move
  <1>7. ASSUME NEW c \in Callers, SynStopFlag(c), UNCHANGED owned PROVE ThreadType'
    BY <1>7, Zenon DEF SynStopFlag, SynGoto
  <1>8. ASSUME NEW c \in Callers, SynStartTimeout(c), UNCHANGED owned PROVE ThreadType'
    BY <1>8, Zenon DEF SynStartTimeout, Return, SynGoto
  <1>9. ASSUME NEW c \in Callers, SynStopTimeout(c), UNCHANGED owned PROVE ThreadType'
    BY <1>9, Zenon DEF SynStopTimeout, Return, SynGoto
  <1>10. ASSUME NEW c \in Callers, SynStartPop(c), UNCHANGED owned PROVE ThreadType'
    <2>1. start_queue' \in Nat
      BY <1>10, NatDown, Zenon DEF SynStartPop
    <2>2. /\ m_mutex' \in Callers \cup {Nobody}
          /\ threadPc' \in [Callers -> CallerPoints]
          /\ threadResult' \in [Callers -> Results]
      BY <1>10, Zenon DEF SynStartPop, Return, SynGoto
    <2>. QED
      BY <1>10, <2>1, <2>2, Zenon DEF SynStartPop
  <1>11. ASSUME NEW c \in Callers, SynStopPop(c), UNCHANGED owned PROVE ThreadType'
    <2>1. stop_queue' \in Nat
      BY <1>11, NatDown, Zenon DEF SynStopPop
    <2>2. /\ m_mutex' \in Callers \cup {Nobody}
          /\ threadPc' \in [Callers -> CallerPoints]
          /\ threadResult' \in [Callers -> Results]
      BY <1>11, Zenon DEF SynStopPop, Return, SynGoto
    <2>. QED
      BY <1>11, <2>1, <2>2, Zenon DEF SynStopPop
  <1>12. ASSUME NEW w \in Workers, ThreadFuncBegin(w), UNCHANGED owned PROVE ThreadType'
    BY <1>12, Zenon DEF ThreadFuncBegin, Move
  <1>13. ASSUME NEW w \in Workers, ThreadFuncAnnounce(w), UNCHANGED owned PROVE ThreadType'
    <2>1. start_queue' \in Nat
      BY <1>13, NatUp, Zenon DEF ThreadFuncAnnounce
    <2>2. wpc' \in [Workers -> WorkerPoints]
      BY <1>13, Zenon DEF ThreadFuncAnnounce, Move
    <2>. QED
      BY <1>13, <2>1, <2>2, Zenon DEF ThreadFuncAnnounce
  <1>14. ASSUME NEW w \in Workers, RunSeesExit(w), UNCHANGED owned PROVE ThreadType'
    BY <1>14, Zenon DEF RunSeesExit, Move
  <1>15. ASSUME NEW w \in Workers, RunBreaks(w), UNCHANGED owned PROVE ThreadType'
    BY <1>15, Zenon DEF RunBreaks, Move
  <1>16. ASSUME NEW w \in Workers, ThreadFuncFlag(w), UNCHANGED owned PROVE ThreadType'
    BY <1>16, Zenon DEF ThreadFuncFlag, Move
  <1>17. ASSUME NEW w \in Workers, ThreadFuncEnd(w), UNCHANGED owned PROVE ThreadType'
    BY <1>17, Zenon DEF ThreadFuncEnd, Move
  <1>18. ASSUME NEW w \in Workers, ThreadFuncPush(w), UNCHANGED owned PROVE ThreadType'
    <2>1. stop_queue' \in Nat
      BY <1>18, NatUp, Zenon DEF ThreadFuncPush
    <2>2. wpc' \in [Workers -> WorkerPoints]
      BY <1>18, Zenon DEF ThreadFuncPush, Move
    <2>. QED
      BY <1>18, <2>1, <2>2, Zenon DEF ThreadFuncPush
  <1>19. CASE UNCHANGED threadVars
    BY <1>19, Zenon DEF threadVars
  <1>. QED
    BY <1>1, <1>2, <1>3, <1>4, <1>5, <1>6, <1>7, <1>8, <1>9, <1>10, <1>11, <1>12, <1>13, <1>14, <1>15, <1>16, <1>17, <1>18, <1>19, OwnerCalls, Zenon
    DEF ThreadNext, FreeCall, OwnerCall, SynContinue, SynWait, SynTimeout, ThreadFunc

\* The pthreads that a step of the callers leaves where they are, or creates, and what
\* that means for the flags
LEMMA CallKeepsFlags ==
    ASSUME ThreadType, RunningMeansAlive, TokenMeansEnded, EndedMeansEnd, FreeCall
    PROVE  (RunningMeansAlive /\ TokenMeansEnded /\ EndedMeansEnd)'
  <1>. USE DEF ThreadType, callerVars
  <1>1. m_bHasEnd' = m_bHasEnd /\ m_bRunning' \in {m_bRunning, FALSE}
    BY Zenon DEF FreeCall, Start, Stop, SynStartEnter, SynStopEnter, SynContinue, SynStartClear,
           SynStartCreate, SynStopFlag, SynWait, SynStartPop, SynStopPop, SynTimeout,
           SynStartTimeout, SynStopTimeout
  <1>2. wpc' = wpc \/ Create
    BY Zenon DEF FreeCall, Start, Stop, SynStartEnter, SynStopEnter, SynContinue, SynStartClear,
           SynStartCreate, SynStopFlag, SynWait, SynStartPop, SynStopPop, SynTimeout,
           SynStartTimeout, SynStopTimeout
  <1>3. \A w \in Workers : wpc'[w] # wpc[w] => wpc[w] = "unborn" /\ wpc'[w] = "created"
    BY <1>2 DEF Create, Move
  <1>4. RunningMeansAlive' /\ EndedMeansEnd'
    <2>1. m_bRunning' => m_bRunning
      BY <1>1, Zenon
    <2>2. ASSUME NEW w \in Workers
          PROVE  /\ wpc[w] \in {"announce", "run", "left"} => wpc'[w] = wpc[w]
                 /\ wpc'[w] = "ended" => wpc[w] = "ended"
      BY <1>3
    <2>3. RunningMeansAlive'
      BY <2>1, <2>2, Zenon DEF RunningMeansAlive
    <2>4. EndedMeansEnd'
      BY <1>1, <2>2, Zenon DEF EndedMeansEnd
    <2>. QED
      BY <2>3, <2>4
  <1>5. stop_queue' \in {stop_queue, 0} \/ stop_queue > 0
    BY Zenon DEF FreeCall, Start, Stop, SynStartEnter, SynStopEnter, SynContinue, SynStartClear,
           SynStartCreate, SynStopFlag, SynWait, SynStartPop, SynStopPop, SynTimeout,
           SynStartTimeout, SynStopTimeout
  <1>6. ASSUME NEW c \in Callers, threadResult'[c] = "stopped"
        PROVE  threadResult[c] = "stopped" \/ stop_queue > 0
    BY <1>6, Zenon DEF FreeCall, Start, Stop, SynStartEnter, SynStopEnter, SynContinue, SynStartClear,
           SynStartCreate, SynStopFlag, SynWait, SynStartPop, SynStopPop, SynTimeout,
           SynStartTimeout, SynStopTimeout, Return
  <1>. QED
    BY <1>1, <1>4, <1>5, <1>6 DEF TokenMeansEnded

LEMMA FuncKeepsFlags ==
    ASSUME ThreadType, RunningMeansAlive, TokenMeansEnded, EndedMeansEnd,
           NEW w \in Workers, ThreadFunc(w) \/ RunBreaks(w)
    PROVE  (RunningMeansAlive /\ TokenMeansEnded /\ EndedMeansEnd)'
  <1>. USE DEF ThreadType, callerVars, Move
  <1>. DEFINE Inside == {"announce", "run", "left"}
  <1>1. RunningMeansAlive'
    <2>1. CASE ThreadFuncBegin(w)
      <3>1. wpc'[w] = "announce"
        BY <2>1 DEF ThreadFuncBegin
      <3>. QED
        BY <3>1 DEF RunningMeansAlive
    <2>2. CASE ThreadFuncFlag(w)
      BY <2>2 DEF ThreadFuncFlag, RunningMeansAlive
    <2>3. CASE ThreadFuncAnnounce(w) \/ RunSeesExit(w) \/ RunBreaks(w) \/ ThreadFuncEnd(w)
               \/ ThreadFuncPush(w)
      <3>1. m_bRunning' = m_bRunning
            /\ \A v \in Workers : wpc[v] \in Inside => wpc'[v] \in Inside
        BY <2>3, Zenon DEF ThreadFuncAnnounce, RunSeesExit, RunBreaks, ThreadFuncEnd, ThreadFuncPush
      <3>. QED
        BY <3>1 DEF RunningMeansAlive
    <2>. QED
      BY <2>1, <2>2, <2>3 DEF ThreadFunc
  <1>2. m_bHasEnd => m_bHasEnd'
    BY Zenon DEF ThreadFunc, ThreadFuncBegin, ThreadFuncAnnounce, RunSeesExit, RunBreaks,
           ThreadFuncFlag, ThreadFuncEnd, ThreadFuncPush
  <1>3. EndedMeansEnd'
    <2>1. \A v \in Workers : wpc'[v] = "ended" => wpc[v] = "ended" \/ m_bHasEnd'
      BY Zenon DEF ThreadFunc, ThreadFuncBegin, ThreadFuncAnnounce, RunSeesExit, RunBreaks,
             ThreadFuncFlag, ThreadFuncEnd, ThreadFuncPush
    <2>. QED
      BY <1>2, <2>1 DEF EndedMeansEnd
  <1>4. threadResult' = threadResult /\ (stop_queue' > 0 => stop_queue > 0 \/ wpc[w] = "ended")
    BY Zenon DEF ThreadFunc, ThreadFuncBegin, ThreadFuncAnnounce, RunSeesExit, RunBreaks,
           ThreadFuncFlag, ThreadFuncEnd, ThreadFuncPush
  <1>. QED
    BY <1>1, <1>2, <1>3, <1>4 DEF TokenMeansEnded, EndedMeansEnd
\* What a step of the owner leaves of the pthreads, when there is one pthread at most.
LEMMA OwnerCallKeeps ==
    ASSUME ThreadType, ThreadType', OwnerInv, OwnerCall
    PROVE  OwnerInv'
  <1>. DEFINE point == threadPc[Owner]
              seen == threadResult[Owner]
  <1>. USE OwnerCalls DEF callerVars
  <1>t. /\ threadPc \in [Callers -> CallerPoints] /\ threadResult \in [Callers -> Results]
        /\ wpc \in [Workers -> WorkerPoints] /\ start_queue \in Nat /\ stop_queue \in Nat
    BY DEF ThreadType
  <1>1. CASE Live = {} /\ SynStartEnter(Owner)
    <2>1. /\ point' = "SynStart.clear" /\ seen' = seen /\ m_mutex' = Owner
          /\ UNCHANGED <<wpc, start_queue>>
      BY <1>1, <1>t DEF SynStartEnter, SynGoto
    <2>2. Live' = Live /\ Starting' = Starting
      BY <2>1, Zenon DEF Live, Starting
    <2>. QED
      BY <1>1, <2>1, <2>2, Zenon DEF OwnerInv, Nobody
  <1>2. CASE seen = "started" /\ SynStopEnter(Owner)
    <2>1. /\ point = "idle" /\ point' = "SynStop.flag" /\ seen' = seen /\ m_mutex' = Owner
          /\ UNCHANGED <<wpc, start_queue>> /\ stop_queue' = 0
      BY <1>2, <1>t DEF SynStopEnter, SynGoto
    <2>2. Live' = Live /\ Starting' = Starting
      BY <2>1 DEF Live, Starting
    <2>3. ~ stop_queue' > 0 /\ start_queue' = start_queue
      BY <2>1
    <2>. QED
      BY <1>2, <2>1, <2>2, <2>3, Zenon DEF OwnerInv, Nobody
  <1>3. CASE SynStartClear(Owner)
    <2>1. /\ point = "SynStart.clear" /\ point' = "SynStart.create" /\ seen' = seen
          /\ m_mutex' = m_mutex /\ UNCHANGED wpc /\ start_queue' = 0
      BY <1>3, <1>t DEF SynStartClear, SynGoto
    <2>2. Live' = Live /\ Starting' = Starting
      BY <2>1, Zenon DEF Live, Starting
    <2>3. ~(start_queue' > 0)
      BY <2>1
    <2>. QED
      BY <2>1, <2>2, <2>3, Zenon DEF OwnerInv
  <1>4. CASE SynStartCreate(Owner)
    <2>1. /\ point = "SynStart.create" /\ point' = "SynStart.pop" /\ seen' = seen
          /\ m_mutex' = m_mutex /\ UNCHANGED start_queue
      BY <1>4, <1>t DEF SynStartCreate, SynGoto
    <2>2. PICK w \in Workers : Move(w, "unborn", "created")
      BY <1>4 DEF SynStartCreate, Create
    <2>3. Live = {} /\ start_queue = 0
      BY <2>1, Zenon DEF OwnerInv
    <2>4. Live' = {w} /\ Starting'
      BY <1>t, <2>2, <2>3 DEF Live, Starting, Move
    <2>5. ~(start_queue' > 0)
      BY <2>1, <2>3
    <2>. QED
      BY <2>1, <2>3, <2>4, <2>5, Zenon DEF OwnerInv
  <1>5. CASE SynStopFlag(Owner)
    <2>1. /\ point = "SynStop.flag" /\ point' = "SynStop.pop" /\ seen' = seen
          /\ m_mutex' = m_mutex /\ UNCHANGED <<wpc, start_queue, stop_queue>> /\ ~m_bRunning'
      BY <1>5, <1>t DEF SynStopFlag, SynGoto
    <2>2. Live' = Live /\ Starting' = Starting
      BY <2>1 DEF Live, Starting
    <2>. QED
      BY <2>1, <2>2, Zenon DEF OwnerInv
  <1>6. CASE SynStartPop(Owner)
    <2>1. /\ point = "SynStart.pop" /\ point' = "idle" /\ seen' = "started"
          /\ m_mutex' = Nobody /\ UNCHANGED wpc /\ start_queue > 0
      BY <1>6, <1>t DEF SynStartPop, Return, SynGoto
    <2>2. Live' = Live /\ Starting' = Starting
      BY <2>1 DEF Live, Starting
    <2>. QED
      BY <2>1, <2>2, Zenon DEF OwnerInv
  <1>7. CASE ~ Starting /\ SynStartTimeout(Owner)
    BY <1>7, Zenon DEF SynStartTimeout, OwnerInv
  <1>8. CASE SynStopPop(Owner)
    <2>1. /\ point = "SynStop.pop" /\ point' = "idle" /\ seen' = "stopped"
          /\ m_mutex' = Nobody /\ UNCHANGED <<wpc, start_queue>> /\ stop_queue > 0
      BY <1>8, <1>t DEF SynStopPop, Return, SynGoto
    <2>2. Live' = Live /\ Starting' = Starting
      BY <2>1 DEF Live, Starting
    <2>. QED
      BY <2>1, <2>2, Zenon DEF OwnerInv
  <1>9. CASE ~ Stopping /\ SynStopTimeout(Owner)
    <2>1. /\ point = "SynStop.pop" /\ point' = "idle" /\ seen' = "stop timed out"
          /\ m_mutex' = Nobody /\ UNCHANGED <<wpc, start_queue>>
      BY <1>9, <1>t, Zenon DEF SynStopTimeout, Return, SynGoto
    <2>2. Live' = Live /\ Starting' = Starting
      BY <2>1, Zenon DEF Live, Starting
    <2>3. Live = {}
      BY <1>9, <2>1, Zenon DEF OwnerInv, Stopping
    <2>. QED
      BY <2>1, <2>2, <2>3, Zenon DEF OwnerInv
  <1>. QED
    BY <1>1, <1>2, <1>3, <1>4, <1>5, <1>6, <1>7, <1>8, <1>9
    DEF OwnerCall, SynContinue, SynWait

LEMMA FuncKeepsOwner ==
    ASSUME ThreadType, OwnerInv, NEW w \in Workers, ThreadFunc(w) \/ RunBreaks(w)
    PROVE  OwnerInv'
  <1>. USE OwnerCalls DEF callerVars
  <1>t. wpc \in [Workers -> WorkerPoints] /\ start_queue \in Nat /\ stop_queue \in Nat
    BY DEF ThreadType
  <1>0. UNCHANGED callerVars
    BY Zenon DEF ThreadFunc, ThreadFuncBegin, ThreadFuncAnnounce, RunSeesExit, RunBreaks,
           ThreadFuncFlag, ThreadFuncEnd, ThreadFuncPush
  <1>1. w \in Live
    BY <1>t, Zenon DEF ThreadFunc, ThreadFuncBegin, ThreadFuncAnnounce, RunSeesExit, RunBreaks,
           ThreadFuncFlag, ThreadFuncEnd, ThreadFuncPush, Move, Live
  <1>2. Live = {w} /\ (Starting <=> wpc[w] \in {"created", "announce"})
    <2>1. \A u, v \in Live : u = v
      BY Zenon DEF OwnerInv
    <2>2. Live = {w}
      BY <1>1, <2>1
    <2>3. \A v \in Workers : wpc[v] \in {"created", "announce"} => v \in Live
      BY DEF Live
    <2>. QED
      BY <2>2, <2>3 DEF Starting
  <1>3. CASE ThreadFuncBegin(w)
    <2>1. wpc[w] = "created" /\ Live' = {w} /\ Starting'
      BY <1>t, <1>2, <1>3 DEF ThreadFuncBegin, Move, Live, Starting
    <2>. QED
      BY <1>0, <1>2, <1>3, <2>1, Zenon DEF ThreadFuncBegin, OwnerInv
  <1>4. CASE ThreadFuncAnnounce(w)
    <2>1. wpc[w] = "announce" /\ Live' = {w} /\ ~Starting'
      BY <1>t, <1>2, <1>4 DEF ThreadFuncAnnounce, Move, Live, Starting
    <2>2. UNCHANGED <<m_bRunning, stop_queue>>
      BY <1>4 DEF ThreadFuncAnnounce
    <2>3. start_queue' # 0
      BY <1>t, <1>4 DEF ThreadFuncAnnounce
    <2>4. threadPc[Owner] \notin {"idle", "SynStart.clear", "SynStart.create"}
      BY <1>2, <2>1, Zenon DEF OwnerInv
    <2>. QED
      BY <1>0, <1>2, <2>1, <2>2, <2>3, <2>4, Zenon DEF OwnerInv
  <1>5. CASE \/ RunSeesExit(w) \/ RunBreaks(w) \/ ThreadFuncFlag(w) \/ ThreadFuncEnd(w)
    <2>1. ~Starting /\ Live' = {w} /\ ~Starting'
      BY <1>t, <1>2, <1>5, Zenon
      DEF RunSeesExit, RunBreaks, ThreadFuncFlag, ThreadFuncEnd, Move, Live, Starting
    <2>2. UNCHANGED <<start_queue, stop_queue>>
      BY <1>5 DEF RunSeesExit, RunBreaks, ThreadFuncFlag, ThreadFuncEnd
    <2>3. m_bRunning' => m_bRunning
      BY <1>5, Zenon DEF RunSeesExit, RunBreaks, ThreadFuncFlag, ThreadFuncEnd
    <2>. QED
      BY <1>0, <1>2, <2>1, <2>2, <2>3, Zenon DEF OwnerInv
  <1>6. CASE ThreadFuncPush(w)
    <2>1. ~Starting /\ Live' = {} /\ ~Starting'
      BY <1>t, <1>2, <1>6 DEF ThreadFuncPush, Move, Live, Starting
    <2>2. UNCHANGED <<start_queue, m_bRunning>>
      BY <1>6 DEF ThreadFuncPush
    <2>. QED
      BY <1>0, <1>2, <2>1, <2>2, Zenon DEF OwnerInv
  <1>. QED
    BY <1>3, <1>4, <1>5, <1>6 DEF ThreadFunc

LEMMA ThreadKeeps == ThreadInv /\ [ThreadNext]_threadVars => ThreadInv'
  <1>. SUFFICES ASSUME ThreadInv, [ThreadNext]_threadVars PROVE ThreadInv'
    OBVIOUS
  <1>0. ThreadType /\ ThreadType'
    BY ThreadTypeKept DEF ThreadInv
  <1>1. CASE ~owned /\ FreeCall /\ UNCHANGED owned
    BY <1>0, <1>1, CallKeepsFlags DEF ThreadInv
  <1>2. CASE owned /\ OwnerCall /\ UNCHANGED owned
    <2>1. FreeCall
      BY <1>2, OwnerCalls DEF OwnerCall, FreeCall, SynTimeout
    <2>. QED
      BY <1>0, <1>2, <2>1, CallKeepsFlags, OwnerCallKeeps DEF ThreadInv
  <1>3. ASSUME NEW w \in Workers, ThreadFunc(w) \/ RunBreaks(w), UNCHANGED owned
        PROVE  ThreadInv'
    BY <1>0, <1>3, FuncKeepsFlags, FuncKeepsOwner DEF ThreadInv
  <1>4. CASE UNCHANGED threadVars
    BY <1>0, <1>4, Zenon DEF ThreadInv, threadVars, callerVars, RunningMeansAlive, TokenMeansEnded,
                      EndedMeansEnd, OwnerInv, Live, Starting
  <1>. QED
    BY <1>1, <1>2, <1>3, <1>4 DEF ThreadNext

\* For any callers and any number of pthreads: m_bRunning is set only while a pthread is
\* inside ThreadFunc, a stop token means ThreadHasEnd(), and an owner that starts and
\* stops as Logger_impl does finds the thread started and joined.
THEOREM ThreadCorrect == ThreadSpec => []FlagsTellTruth
  <1>1. ThreadInit => ThreadInv
    <2>. SUFFICES ASSUME ThreadInit PROVE ThreadInv
      OBVIOUS
    <2>1. ThreadType
      BY Zenon DEF ThreadInit, ThreadType, CallerPoints, WorkerPoints, Results
    <2>2. Live = {} /\ ~Starting /\ threadPc[Owner] = "idle" /\ threadResult[Owner] = "none"
      BY OwnerCalls DEF ThreadInit, Live, Starting
    <2>3. RunningMeansAlive /\ TokenMeansEnded /\ EndedMeansEnd
      BY DEF ThreadInit, RunningMeansAlive, TokenMeansEnded, EndedMeansEnd
    <2>. QED
      BY <2>1, <2>2, <2>3, Zenon DEF ThreadInit, ThreadInv, OwnerInv
  <1>2. ThreadInv => FlagsTellTruth
    BY Zenon DEF ThreadInv, OwnerInv, FlagsTellTruth, StopJoins, StartReported
  <1>. QED
    BY <1>1, <1>2, ThreadKeeps, PTL DEF ThreadSpec
=============================================================================
