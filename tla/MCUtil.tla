-------------------------------- MODULE MCUtil --------------------------------
(***************************************************************************)
(* util/ for TLC: grants of a semaphore, locked pages, addresses and       *)
(* connections, serialization, JSON, getopt, configuration files and       *)
(* cryption.  One of them runs, the others stay in an initial state.       *)
(***************************************************************************)
EXTENDS CSemaphore, LockedPages, Connect, Json

VARIABLES on,
          addr, partner, net,
          vch, nReadPos, streamFailbit, throws, out, consumed, disk, autoFile, pos,
          g, given, reported,
          ini, file, loading, strCurrSection, failbit, flushed,
          class, h, sent, digest, job

addrVars == <<addr, partner, net>>
streamVars == <<vch, nReadPos, streamFailbit, throws, out, consumed, disk, autoFile, pos>>
optVars == <<g, given, reported>>
configVars == <<ini, file, loading, strCurrSection, failbit, flushed>>
hashVars == <<class, h, sent, digest>>
memoryVars == <<vars, pagesVars>>
netVars == <<addrVars, connectVars>>
formatVars == <<streamVars, jsonVars>>
argVars == <<optVars, configVars>>
cryptVars == <<hashVars, job>>
utilVars == <<memoryVars, netVars, formatVars, argVars, cryptVars, on>>

-----------------------------------------------------------------------------
\* Three threads; one of them has two grants, so that MoveTo can be used.
MCThread == 1 .. 3
MCGrant == 1 .. 4
MCOwner == <<1, 1, 2, 3>>

\* Blocks that share pages, one that crosses a boundary and one of no bytes.
MCBlocks == 1 .. 4
MCBase == <<0, 3, 6, 2>>
MCSize == <<3, 3, 4, 0>>

-----------------------------------------------------------------------------
\* Addresses of every group that CNetAddr tells apart.
Z(n) == [i \in 1 .. n |-> 0]
V4 == {<<1, 2, 3, 4>>, <<8, 8, 8, 8>>, <<8, 8, 4, 4>>, <<10, 0, 0, 1>>, <<192, 168, 0, 1>>,
       <<172, 31, 0, 1>>, <<172, 32, 0, 1>>, <<198, 18, 1, 1>>, <<198, 51, 100, 7>>,
       <<100, 64, 0, 1>>, <<169, 254, 1, 1>>, <<127, 0, 0, 1>>, <<0, 0, 0, 0>>,
       <<255, 255, 255, 255>>, <<224, 0, 0, 1>>}
Carriers(q) == {<<0, 100, 255, 155>> \o Z(8) \o q, Z(8) \o <<255, 255, 0, 0>> \o q,
                <<32, 2>> \o q \o Z(10), <<32, 1, 0, 0>> \o Z(8) \o [i \in 1 .. 4 |-> 255 - q[i]]}
OnionCat == <<253, 135, 216, 126, 235, 67>>
V6 == {Z(16), Z(15) \o <<1>>, <<32, 1, 13, 184>> \o Z(12), <<254, 128>> \o Z(13) \o <<1>>,
       <<252>> \o Z(14) \o <<1>>, <<32, 1, 0, 31>> \o Z(12),
       Z(7) \o <<255, 255>> \o <<1, 2, 3, 4, 5, 6, 7>>}
      \cup {OnionCat \o <<b>> \o Z(9) : b \in {16, 24, 32}}
      \cup {<<32, 1, 4, 112, b>> \o Z(11) : b \in {16, 24, 32}}
      \cup {<<32, 1, 5, 1, b>> \o Z(11) : b \in {16, 32}}
AddressesUsed == {Z(10) \o <<255, 255>> \o q : q \in V4} \cup V6
                   \cup UNION {Carriers(q) : q \in {<<1, 2, 3, 4>>, <<8, 8, 8, 8>>, <<10, 0, 0, 1>>}}
HostsUsed == <<Z(10) \o <<255, 255, 8, 8, 8, 8>>, <<32, 1, 5, 1, 18>> \o Z(10) \o <<1>>>>
Unresolved == <<-5>>
Masks == {<<"none">>, <<"bad">>}
           \cup {<<"bits", b>> : b \in {0, 1, 8, 13, 24, 32, 33, 36, 96, 127, 128, 129}}
           \cup {<<"mask", m>> : m \in {Z(10) \o <<255, 255, 255, 240, 0, 0>>,
                                        Z(10) \o <<255, 255, 255, 0, 255, 0>>,
                                        <<255, 255, 254>> \o Z(13), <<255, 255, 0, 7>> \o Z(12)}}
texts == INSTANCE NetAddr WITH Addresses <- {}, SubnetTexts <- {}, Hosts <- <<>>
Subnets == [host : {Unresolved} \cup {texts!ToStringIP(HostsUsed[i]) : i \in 1 .. 2},
            mask : Masks]
addresses == INSTANCE NetAddr WITH Addresses <- AddressesUsed, SubnetTexts <- Subnets,
                                   Hosts <- HostsUsed

\* What a proxy answers: with every kind of address, one of them empty, and refusals of
\* every kind.
MCMethods == {<<5, 0>>, <<5, 2>>, <<5, 255>>, <<4, 0>>}
MCVerdicts == {<<1, 0>>, <<1, 1>>}
MCGrants == {<<5, 0, 0, 1, 7, 7, 7, 7, 8, 8, Data>>, <<5, 0, 0, 3, 2, 7, 7, 8, 8, Data>>,
             <<5, 0, 0, 3, 0, 8, 8, Data>>,
             <<5, 0, 0, 4>> \o [i \in 1 .. 16 |-> 7] \o <<8, 8, Data>>}
MCRefusals == {<<5, 1, 0, 1, 7, 7, 7, 7, 8, 8>>, <<4, 0, 0, 1>>, <<5, 0, 1, 1>>, <<5, 0, 0, 2>>}

-----------------------------------------------------------------------------
\* Sizes around the borders of the compact encoding and MAX_SIZE; a value of every type.
Byte == <<"byte">>
String == <<"string">>
SizesUsed == {<<a, b, c, d, e, 0, 0, z>> : a \in {0, 252, 253, 255}, b \in {0, 255},
                c \in {0, 1, 255}, d \in {0, 2, 3, 255}, e \in {0, 1}, z \in {0, 1}}
ObjectsUsed == {<<Byte, 3>>, <<String, <<>>>>, <<String, <<1>>>>, <<<<"vector", Byte>>, <<1, 2, 3>>>>,
                <<<<"vector", String>>, <<<<1>>, <<>>>>>>,
                <<<<"map", Byte, String>>, (1 :> <<2>>) @@ (2 :> <<>>)>>,
                <<<<"set", Byte>>, {1, 3}>>, <<<<"tuple", Byte, Byte, String>>, <<4, 5, <<6>>>>>>}
stream == INSTANCE Serialize WITH Sizes <- SizesUsed, Objects <- ObjectsUsed,
                                  Others <- {[vch |-> <<1, 2>>, nReadPos |-> 1]},
                                  Chunks <- {<<1>>, <<1, 2>>}, Block <- 2, MaxLen <- 3,
                                  failbit <- streamFailbit, file <- autoFile

\* Values of every kind to put into containers.
MCSamples == {New("num", 7), New("str", 1), New("true", 0), New("arr", 0), New("obj", 0),
              [New("obj", 0) EXCEPT !.keys = <<1>>, !.values = <<New("num", 7)>>]}

-----------------------------------------------------------------------------
\* Options alone and together, with and without their arguments, long ones whole and
\* abbreviated, behind -W, unknown and ambiguous ones, operands, and both dashes; operands
\* moved behind the options, ending them, or returned in their place.
Plain == {<<"-", "a">>, <<"-", "b">>, <<"-", "c", "x">>, <<"-", "-">>, <<"x">>, <<"y">>}
Elements == Plain \cup {<<"-", "a", "b">>, <<"-", "c">>, <<"-", "b", "x">>, <<"-">>, <<"-", "z">>,
                        <<"-", "-", "l", "o">>, <<"-", "-", "l">>, <<"-", "-", "l", "o", "=", "v">>,
                        <<"-", "-", "l", "i">>, <<"-", "W", "l", "o">>}
Program == <<<<"p">>>>
FewArgs == {Program \o s : s \in UNION {[1 .. k -> Elements] : k \in 0 .. 3}}
ManyArgs == {Program \o s : s \in [1 .. 5 -> Plain]}
Opts == <<"a", "b", ":", "c", ":", ":", "W", ";">>
LongoptsUsed == <<[name |-> <<"l", "o", "p">>, has_arg |-> 1, flag |-> FALSE, val |-> "L"],
                  [name |-> <<"l", "i">>, has_arg |-> 0, flag |-> TRUE, val |-> "I"]>>
options == INSTANCE GetOpt WITH Optstring <- Opts, Argvs <- FewArgs \cup ManyArgs,
                                Longopts <- LongoptsUsed
strict == INSTANCE GetOpt WITH Optstring <- <<"+">> \o Opts, Argvs <- FewArgs,
                               Longopts <- LongoptsUsed
inOrder == INSTANCE GetOpt WITH Optstring <- <<"-">> \o Opts, Argvs <- FewArgs,
                                Longopts <- LongoptsUsed

\* A file with every kind of line that analyzeLine tells apart, and one with a line that
\* does not fit.
FilesUsed ==
    {<<>>,
     <<<<"[", "S", " ", "]">>, <<"a", "=", "'", "v", " ", "w", "'", "#">>, <<"A", "=", "w", ";", "x">>,
       <<"#", "a", "=", "v">>, <<"[", "t">>, <<"b", "=", "1">>, <<"[", "t", "]", "x">>, <<"]">>,
       <<"=", "v">>>>,
     <<<<"[", "s", "]">>, <<"a", "=", "l", "o", "n", "g", "v", "v", "v", "v">>, <<"b", "=", "1">>>>}
config == INSTANCE Config WITH Lower <- ("A" :> "a") @@ ("S" :> "s"), Files <- FilesUsed,
                               Sections <- {<<"S">>, <<"t">>}, Keys <- {<<"a">>, <<"A">>, <<"a", "b">>},
                               Values <- {<<"v">>, <<"w", " ", "a">>},
                               MaxLine <- 9, MaxFile <- 3, MaxItems <- 2

-----------------------------------------------------------------------------
\* Any tables and subkeys will do for DES to invert itself; these differ in every box and
\* round.  Messages end before, at and after the border of a block.
Word(m) == [i \in 1 .. 32 |-> IF (i * m) % 3 = 0 THEN 1 ELSE 0]
SPUsed == [b \in 1 .. 8 |-> [x \in 0 .. 63 |-> [i \in 1 .. 32 |->
             IF (i - 1) % 8 = b - 1 THEN ((x * (2 * b + 1) + ((i - 1) \div 8) * 3) \div 2) % 2 ELSE 0]]]
SubkeysUsed == [k \in {1} |-> [i \in 0 .. 15 |-> <<Word(i + k), Word(2 * i + 3)>>]]
VectorsUsed == {<<>>} \cup [1 .. 1 -> {0, 1, 57, 58, 255}] \cup [1 .. 2 -> {0, 1, 58, 255}]
                 \cup [1 .. 3 -> {0, 58, 255}] \cup {[i \in 1 .. k |-> 255] : k \in 4 .. 8}
WordsUsed == UNION {[1 .. k -> {0, 1, 57, 59}] : k \in 0 .. 3} \cup {[i \in 1 .. k |-> 57] : k \in 4 .. 10}
TextsUsed == {[i \in 1 .. k |-> 32 + i * 7] : k \in {0, 1, 6, 7, 8, 15, 16}}
crypt == INSTANCE Cryption WITH Lengths <- {8, 55, 64, 65}, MaxBytes <- 192, CountBits <- 10,
                                SP <- SPUsed, Subkeys <- SubkeysUsed, Stray <- 0,
                                Vectors <- VectorsUsed, Words <- WordsUsed, ClearTexts <- TextsUsed

-----------------------------------------------------------------------------
UtilInit ==
    /\ on \in {"grants", "pages", "addresses", "connect", "stream", "file", "json", "options",
               "strict", "inOrder", "ini", "cfg", "hash", "des"}
    /\ Init /\ PagesInit
    /\ addresses!Init /\ ConnectInit
    /\ stream!Init /\ JsonInit /\ (on # "json" => verdict = "building")
    /\ options!Init
    /\ given \in CASE on = "options" -> FewArgs \cup ManyArgs
                   [] on \in {"strict", "inOrder"} -> FewArgs
                   [] OTHER -> {Program}
    /\ config!IniInit /\ (on # "ini" => file = <<>>)
    /\ crypt!HashInit /\ (on # "hash" => class = crypt!MD5) /\ crypt!DesInit

MemoryStep ==
    \/ on = "grants" /\ Next /\ UNCHANGED pagesVars
    \/ on = "pages" /\ PagesNext /\ UNCHANGED vars

NetStep ==
    \/ on = "addresses" /\ addresses!Next /\ UNCHANGED connectVars
    \/ on = "connect" /\ ConnectNext /\ UNCHANGED addrVars

FormatStep ==
    \/ on = "stream" /\ stream!StreamNext /\ UNCHANGED jsonVars
    \/ on = "file" /\ stream!FileNext /\ UNCHANGED jsonVars
    \/ on = "json" /\ JsonNext /\ UNCHANGED streamVars

ArgStep ==
    \/ on = "options" /\ options!Next /\ UNCHANGED configVars
    \/ on = "strict" /\ strict!Next /\ UNCHANGED configVars
    \/ on = "inOrder" /\ inOrder!Next /\ UNCHANGED configVars
    \/ on = "ini" /\ config!IniNext /\ UNCHANGED optVars
    \/ on = "cfg" /\ config!CfgNext /\ UNCHANGED optVars

CryptStep ==
    \/ on = "hash" /\ crypt!HashNext /\ UNCHANGED job
    \/ on = "des" /\ crypt!DesNext /\ UNCHANGED hashVars

UtilNext ==
    /\ \/ MemoryStep /\ UNCHANGED <<netVars, formatVars, argVars, cryptVars>>
       \/ NetStep /\ UNCHANGED <<memoryVars, formatVars, argVars, cryptVars>>
       \/ FormatStep /\ UNCHANGED <<memoryVars, netVars, argVars, cryptVars>>
       \/ ArgStep /\ UNCHANGED <<memoryVars, netVars, formatVars, cryptVars>>
       \/ CryptStep /\ UNCHANGED <<memoryVars, netVars, formatVars, argVars>>
    /\ UNCHANGED on

\* A thread that connects goes on, whatever the proxy does, and so does a load.
UtilSpec ==
    /\ UtilInit /\ [][UtilNext]_utilVars
    /\ WF_connectVars(on = "connect" /\ ConnectStep)
    /\ WF_configVars(on = "ini" /\ config!IniLoad)

-----------------------------------------------------------------------------
\* Addresses: the group, the reachability, the subnets and the services of an address are
\* those of the address it carries, ordered as documented, and read back from their texts.
AddressesSound ==
    on = "addresses" =>
        /\ addresses!GroupsAgree /\ addresses!ReachabilityOrdered
        /\ addresses!SubnetsSound /\ addresses!ServicesReadBack

\* CDataStream changes as a plain buffer would, wherever its read position is.
StreamIsBuffer == [][on = "stream" => stream!BufferStep]_streamVars

\* What is written is read back: serialized objects and sizes, JSON texts, strings and
\* numbers; and nothing else is taken for them.
WrittenReadsBack ==
    /\ (on = "stream" /\ vch = <<>> /\ throws /\ ~streamFailbit) =>
           stream!ObjectsRoundTrip /\ stream!SizesCanonical
    /\ on = "json" => UniReads /\ OthersRead /\ BuiltReadsBack
    /\ on = "json" /\ text = <<>> /\ verdict = "reading" => StringsSurvive /\ NumbersLexed(5)

\* getopt reports the options in order and leaves the other arguments in order.
ArgumentsSorted ==
    /\ on = "options" => options!ArgumentsSorted
    /\ on = "strict" => strict!ArgumentsSorted
    /\ on = "inOrder" => inOrder!ArgumentsSorted

\* Configuration: what was flushed is loaded again, what was set is got, and what is
\* written to a file of items is that item and no other.
ConfigKept ==
    [][/\ on = "ini" => config!FlushRestored /\ config!SetIsGot
       /\ on = "cfg" => config!WriteSetsItem]_configVars

\* Digests are of the whole message and nothing else, however it is cut into calls.
HashesWhole == on = "hash" => crypt!HashesWhole

\* DES, base58, base64 and hexadecimal texts are inverted; CRC sums divide.
CodesInvert ==
    on = "des" => crypt!DesInverts /\ (job.md = "idle" => crypt!CodecsInvert)

\* An attempt to connect ends, and a load does whose lines all fit the buffer.
UtilEnds ==
    (CASE on = "connect" -> connectPc # "idle"
       [] on = "ini" -> loading # config!Idle /\ config!AllFit
       [] OTHER -> FALSE)
      ~> (CASE on = "connect" -> connectPc = "idle"
            [] on = "ini" -> loading = config!Idle
            [] OTHER -> TRUE)

-----------------------------------------------------------------------------
\* "'0'-'9'", "'A'-'Z'", "'a'-'z'" (base64.cpp:56-62): the rows of the decoding table are
\* those of these characters, so that decoding an encoded text gives the data back.
Base64Inverts == on = "des" => crypt!Base64Inverts

\* "read every line and check whether the item key exists; if it does, change its value, if
\* not, append key = value" (cfg_op.c:122-123): writing one key leaves the other items.
OthersUntouched == [][on = "cfg" => config!OthersUntouched]_configVars
=============================================================================
