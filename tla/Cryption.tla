------------------------------ MODULE Cryption ------------------------------
(***************************************************************************)
(* The digests and encodings of src/util/cryption: the block buffering of  *)
(* the SHA, RIPEMD and MD5 classes, base64, base58, DES and the CRC.       *)
(*                                                                         *)
(* A byte is its number.  What the compression functions compute from a    *)
(* block is left out: Transform appends the block to the chaining value,   *)
(* so that two runs have the same digest exactly when they compressed the  *)
(* same blocks in the same order.  For the same reason DES takes its       *)
(* substitution tables (SP) and the subkeys of a key (Subkeys) as          *)
(* parameters: decryption undoes encryption whatever they are.             *)
(***************************************************************************)
EXTENDS Integers, Sequences, SequencesExt, FiniteSetsExt, Functions, Bitwise

CONSTANTS
    Lengths,    \* the lengths one call of Write or update passes
    MaxBytes,   \* bound: bytes hashed since the last reset
    CountBits,  \* width of a word of MD5::m_count (32 in the code)
    SP,         \* [1..8 -> [0..63 -> words]]: SP1 .. SP8
    Subkeys,    \* [keys -> [0..15 -> <<word, word>>]]: the cooked subkeys
    Stray,      \* what an array read past its end yields
    Vectors,    \* the byte strings the encodings are tried on
    Words,      \* the base58 texts tried
    ClearTexts  \* the texts encrypted

VARIABLES
    class,      \* the class of the object
    h,          \* the object: bytes (or m_count), buf, s (and m_finalized)
    sent,       \* number of bytes hashed since construction or reset
    digest,     \* <<>>, or the one digest taken since
    job         \* the EasyDES call: its data, its place in it, the key register

hashVars == <<class, h, sent, digest>>

-----------------------------------------------------------------------------
(* The digests that share one Write and Finalize. *)

CSHA1 == [block |-> 64, sizedesc |-> 8, order |-> "BE"]

CSHA256 == [block |-> 64, sizedesc |-> 8, order |-> "BE"]

CSHA512 == [block |-> 128, sizedesc |-> 16, order |-> "BE"]

CRIPEMD160 == [block |-> 64, sizedesc |-> 8, order |-> "LE"]

MD5 == [block |-> 64, sizedesc |-> 8, order |-> "MD5"]

Classes == {CSHA1, CSHA256, CSHA512, CRIPEMD160, MD5}

First(s, n) == SubSeq(s, 1, n)

Drop(s, n) == SubSeq(s, n + 1, Len(s))

Transform(s, chunk) == Append(s, chunk)

\* memcpy(buf + at, data, Len(data)).
memcpy(buf, at, data) ==
    First(buf, at) \o data \o Drop(buf, at + Len(data))

\* The whole blocks of data, transformed one after the other.
TransformAll(s, data, block) ==
    FoldLeft(LAMBDA t, k : Transform(t, SubSeq(data, (k - 1) * block + 1, k * block)),
             s, [k \in 1 .. Len(data) \div block |-> k])

HashNew(c) ==
    [bytes |-> 0, buf |-> [i \in 1 .. c.block |-> 0], s |-> <<>>]

\* Mutant: a full buffer is only noticed when the data overflows it.
WriteOverflowing(c, o, data) ==
    LET bufsize == o.bytes % c.block
        fill == IF bufsize # 0 /\ bufsize + Len(data) > c.block
                THEN c.block - bufsize ELSE 0
        filled == memcpy(o.buf, bufsize, First(data, fill))
        s1 == IF fill > 0 THEN Transform(o.s, filled) ELSE o.s
        rest == Drop(data, fill)
        over == Drop(rest, (Len(rest) \div c.block) * c.block)
    IN  [bytes |-> o.bytes + Len(data),
         buf |-> memcpy(filled, IF fill > 0 THEN 0 ELSE bufsize, over),
         s |-> TransformAll(s1, rest, c.block)]

HashWrite(c, o, data) ==
    LET bufsize == o.bytes % c.block
        fill == IF bufsize # 0 /\ bufsize + Len(data) >= c.block
                THEN c.block - bufsize ELSE 0
        filled == memcpy(o.buf, bufsize, First(data, fill))
        s1 == IF fill > 0 THEN Transform(o.s, filled) ELSE o.s
        rest == Drop(data, fill)
        over == Drop(rest, (Len(rest) \div c.block) * c.block)
    IN  [bytes |-> o.bytes + Len(data),
         buf |-> memcpy(filled, IF fill > 0 THEN 0 ELSE bufsize, over),
         s |-> TransformAll(s1, rest, c.block)]

\* The n little endian digits of x in the given base.
Digits(x, base, n) ==
    LET q[i \in 0 .. n] == IF i = 0 THEN x ELSE q[i - 1] \div base
    IN  [i \in 1 .. n |-> q[i - 1] % base]

Pad(n) == [i \in 1 .. n |-> IF i = 1 THEN 128 ELSE 0]

Sizedesc(c, bits) ==
    LET le == Digits(bits, 256, 8)
    IN  IF c.order = "LE" THEN le
        ELSE [i \in 1 .. c.sizedesc - 8 |-> 0] \o Reverse(le)

\* 119 and 239 in the code are 2 * 64 - 9 and 2 * 128 - 17.
HashFinalize(c, o) ==
    LET room == 2 * c.block - c.sizedesc - 1
        padded == HashWrite(c, o, Pad(1 + ((room - (o.bytes % c.block)) % c.block)))
    IN  HashWrite(c, padded, Sizedesc(c, o.bytes * 8))

-----------------------------------------------------------------------------
(* MD5 counts bits in two words and guards against use after final. *)

MD5New ==
    [m_count |-> <<0, 0>>, m_buffer |-> [i \in 1 .. 64 |-> 0],
     m_state |-> <<>>, m_finalized |-> FALSE]

MD5init(o) ==
    [o EXCEPT !.m_count = <<0, 0>>, !.m_state = <<>>, !.m_finalized = FALSE]

BufferIndex(o) == (o.m_count[1] \div 8) % 64

\* The bit count, with its carry.
CountUp(m_count, length) ==
    LET word == 2 ^ CountBits
        low == (length * 8) % word
        sum == (m_count[1] + low) % word
        carry == IF sum < low THEN 1 ELSE 0
    IN  <<sum, (m_count[2] + carry + length \div 2 ^ (CountBits - 3)) % word>>

MD5update(o, input) ==
    LET index == BufferIndex(o)
        space == 64 - index
        fits == Len(input) >= space
        filled == memcpy(o.m_buffer, index, First(input, space))
        rest == Drop(input, space)
        over == Drop(rest, (Len(rest) \div 64) * 64)
    IN  IF o.m_finalized THEN o
        ELSE [o EXCEPT
              !.m_count = CountUp(@, Len(input)),
              !.m_state = IF fits THEN TransformAll(Transform(@, filled), rest, 64) ELSE @,
              !.m_buffer = IF fits THEN memcpy(filled, 0, over) ELSE memcpy(@, index, input)]

MD5encode(m_count) == Digits(m_count[1], 256, 4) \o Digits(m_count[2], 256, 4)

MD5final(o) ==
    LET index == BufferIndex(o)
        padLen == IF index < 56 THEN 56 - index ELSE 120 - index
        padded == MD5update(o, Pad(padLen))
        ended == MD5update(padded, MD5encode(o.m_count))
    IN  IF o.m_finalized THEN o
        ELSE [ended EXCEPT !.m_buffer[1] = 0, !.m_finalized = TRUE]

-----------------------------------------------------------------------------
(* The client of a digest: byte i of its message is i % 256. *)

Message(from, n) == [i \in 1 .. n |-> (from + i) % 256]

HashInit ==
    /\ class \in Classes
    /\ h = IF class = MD5 THEN MD5New ELSE HashNew(class)
    /\ sent = 0
    /\ digest = <<>>

Write(n) ==
    /\ sent + n <= MaxBytes
    /\ class = MD5 \/ digest = <<>>
    /\ h' = IF class = MD5 THEN MD5update(h, Message(sent, n))
            ELSE HashWrite(class, h, Message(sent, n))
    /\ sent' = IF digest = <<>> THEN sent + n ELSE sent
    /\ UNCHANGED <<class, digest>>

Finalize ==
    /\ class = MD5 \/ digest = <<>>
    /\ h' = IF class = MD5 THEN MD5final(h) ELSE HashFinalize(class, h)
    /\ digest' = IF class = MD5 THEN h'.m_state ELSE h'.s
    /\ UNCHANGED <<class, sent>>

Reset ==
    /\ digest # <<>>
    /\ h' = IF class = MD5 THEN MD5init(h) ELSE [h EXCEPT !.bytes = 0, !.s = <<>>]
    /\ sent' = 0
    /\ digest' = <<>>
    /\ UNCHANGED class

HashNext == (\E n \in Lengths : Write(n)) \/ Finalize \/ Reset

HashSpec == HashInit /\ [][HashNext]_hashVars

-----------------------------------------------------------------------------
(* What a digest is of: the message, 0x80, the fewest zeros, its length. *)

Field(c) ==
    IF c = MD5 THEN Digits((sent * 8) % 2 ^ CountBits, 256, 4)
                    \o Digits((sent * 8) \div 2 ^ CountBits, 256, 4)
    ELSE Sizedesc(c, sent * 8)

Padded(c) ==
    LET zeros == CHOOSE z \in 0 .. c.block - 1 :
                     (sent + 1 + z + c.sizedesc) % c.block = 0
    IN  Message(0, sent) \o Pad(1 + zeros) \o Field(c)

BlocksOf(c, text) == TransformAll(<<>>, text, c.block)

(***************************************************************************)
(* However the caller cuts a message into calls of Write (update), with    *)
(* a buffer that still holds the bytes of an earlier block or of an        *)
(* earlier message, the object has compressed exactly the whole blocks of  *)
(* the message and buffers exactly the rest, and a digest is the digest of *)
(* the padded message with its bit length, also when MD5's bit count       *)
(* carries into its second word and when update or final is called again   *)
(* after final.                                                            *)
(***************************************************************************)
HashesWhole ==
    LET s == IF class = MD5 THEN h.m_state ELSE h.s
        buf == IF class = MD5 THEN h.m_buffer ELSE h.buf
        rest == sent % class.block
    IN  IF digest = <<>>
        THEN /\ s = BlocksOf(class, Message(0, sent))
             /\ First(buf, rest) = Message(sent - rest, rest)
        ELSE digest = BlocksOf(class, Padded(class))

-----------------------------------------------------------------------------
(* base58 (cryption/base58): digits are 0 .. 57, Space is a blank, Bad any *)
(* other character.                                                        *)

Space == 58
Bad == 59

Zeroes(v, zero) == CHOOSE n \in 0 .. Len(v) :
    /\ \A i \in 1 .. n : v[i] = zero
    /\ n = Len(v) \/ v[n + 1] # zero

\* v = v * times + carry in the given base; <<v, what is carried out>>.
MulAdd(v, times, base, carry) ==
    LET c[i \in 1 .. Len(v) + 1] ==
            IF i = Len(v) + 1 THEN carry ELSE (c[i + 1] + times * v[i]) \div base
    IN  << [i \in 1 .. Len(v) |-> (c[i + 1] + times * v[i]) % base] \o <<>>, c[1] >>

Zeros(n) == [i \in 1 .. n |-> 0]

\* <<str, whether every assert(carry == 0) held>>.
EncodeBase58(vch) ==
    LET zeroes == Zeroes(vch, 0)
        bytes == Drop(vch, zeroes)
        out == FoldLeft(LAMBDA a, b : LET m == MulAdd(a[1], 256, 58, b)
                                      IN  <<m[1], a[2] /\ m[2] = 0>>,
                        <<Zeros((Len(bytes) * 138) \div 100 + 1), TRUE>>, bytes)
    IN  <<Zeros(zeroes) \o Drop(out[1], Zeroes(out[1], 0)), out[2]>>

\* <<>> for a refused text, else <<vch, whether every assert held>>.
DecodeBase58(psz) ==
    LET t1 == Drop(psz, Zeroes(psz, Space))
        zeroes == Zeroes(t1, 0)
        t2 == Drop(t1, zeroes)
        blank == {i \in 1 .. Len(t2) : t2[i] = Space}
        word == First(t2, IF blank = {} THEN Len(t2) ELSE Min(blank) - 1)
        after == Drop(t2, Len(word))
        out == FoldLeft(LAMBDA a, d : LET m == MulAdd(a[1], 58, 256, d)
                                      IN  <<m[1], a[2] /\ m[2] = 0>>,
                        <<Zeros((Len(t2) * 733) \div 1000 + 1), TRUE>>, word)
    IN  IF \E i \in 1 .. Len(word) : word[i] = Bad THEN <<>>
        ELSE IF \E i \in 1 .. Len(after) : after[i] # Space THEN <<>>
        ELSE << <<Zeros(zeroes) \o Drop(out[1], Zeroes(out[1], 0)), out[2]>> >>

(* The encoder of testdemo/base58.cpp divides a big number. *)

\* The bytes, reversed behind a zero, reversed again and read big endian.
setvch(vch) == FoldLeft(LAMBDA n, b : 256 * n + b, 0, vch)

EncodeBase58Super(vch) ==
    LET bn == setvch(vch)
        q[i \in Nat] == IF i = 0 THEN bn ELSE q[i - 1] \div 58
        digits == CHOOSE n \in 0 .. 6 : q[n] = 0 /\ (n = 0 \/ q[n - 1] > 0)
    IN  Zeros(Zeroes(vch, 0)) \o Reverse([i \in 1 .. digits |-> q[i - 1] % 58])

HexStr(vch) ==
    FoldLeft(LAMBDA rv, val : rv \o <<val \div 16, val % 16>>, <<>>, vch)

hexStr2vch(hex) ==
    [i \in 1 .. Len(hex) \div 2 |-> hex[2 * i - 1] * 16 + hex[2 * i]]

-----------------------------------------------------------------------------
(* base64 (ZBase64): a character is its ASCII code. *)

CR == 13
LF == 10
Equals == 61

EncodeTable(k) ==
    CASE k < 26 -> 65 + k
      [] k \in 26 .. 51 -> 97 + k - 26
      [] k \in 52 .. 61 -> 48 + k - 52
      [] k = 62 -> 43
      [] k = 63 -> 47

Group(a, b, c) ==
    <<EncodeTable(a \div 4), EncodeTable((a % 4) * 16 + b \div 16),
      EncodeTable((b % 16) * 4 + c \div 64), EncodeTable(c % 64)>>

\* A line break follows every nineteenth group.
Base64Encode(Data) ==
    LET groups == [i \in 1 .. Len(Data) \div 3 |->
                      Group(Data[3 * i - 2], Data[3 * i - 1], Data[3 * i])
                      \o IF i % 19 = 0 THEN <<CR, LF>> ELSE <<>>]
        Tail2 == Drop(Data, 3 * (Len(Data) \div 3))
    IN  FlattenSeq(groups)
        \o CASE Len(Tail2) = 0 -> <<>>
             [] Len(Tail2) = 1 -> First(Group(Tail2[1], 0, 0), 2) \o <<Equals, Equals>>
             [] Len(Tail2) = 2 -> First(Group(Tail2[1], Tail2[2], 0), 3) \o <<Equals>>

\* The decoding table, row by row as the code lists it.
DecodeTable ==
    Zeros(23) \o Zeros(18)
    \o Zeros(2)
    \o [i \in 1 .. 9 |-> 52 + i]
    \o Zeros(6)
    \o [i \in 1 .. 12 |-> i] \o [i \in 1 .. 12 |-> 13 + i]
    \o Zeros(5)
    \o [i \in 1 .. 12 |-> 26 + i] \o [i \in 1 .. 12 |-> 39 + i]

Lookup(c) == IF c < Len(DecodeTable) THEN DecodeTable[c + 1] ELSE Stray

\* One turn of the loop at position i: the bytes it adds, where it goes on.
DecodeGroup(Data, i) ==
    LET At(k) == IF k <= Len(Data) THEN Data[k] ELSE 0
        v2 == Lookup(At(i)) * 2 ^ 18 + Lookup(At(i + 1)) * 2 ^ 12
        v3 == v2 + Lookup(At(i + 2)) * 2 ^ 6
        v4 == v3 + Lookup(At(i + 3))
    IN  CASE At(i) \in {CR, LF} -> <<<<>>, i + 1>>
          [] At(i) \notin {CR, LF} /\ At(i + 2) = Equals ->
                 <<<<(v2 \div 65536) % 256>>, i + 2>>
          [] At(i) \notin {CR, LF} /\ At(i + 2) # Equals /\ At(i + 3) = Equals ->
                 <<<<(v2 \div 65536) % 256, (v3 \div 256) % 256>>, i + 3>>
          [] OTHER -> <<<<(v2 \div 65536) % 256, (v3 \div 256) % 256, v4 % 256>>, i + 4>>

\* The loop counts four characters for a group, the pointer those it read.
Base64Decode(Data) ==
    LET turn[n \in Nat] ==
            IF n = 0 THEN [i |-> 0, at |-> 1, out |-> <<>>]
            ELSE LET t == turn[n - 1]
                     g == DecodeGroup(Data, t.at)
                 IN  IF t.i >= Len(Data) THEN t
                     ELSE [i |-> IF g[1] = <<>> THEN t.i + 1 ELSE t.i + 4,
                           at |-> g[2], out |-> t.out \o g[1]]
    IN  turn[Len(Data)].out

\* The data an encoded text stands for, by the alphabet alone.
Meaning(text) ==
    LET code(c) == CHOOSE k \in 0 .. 63 : EncodeTable(k) = c
        chars == SelectSeq(text, LAMBDA c : c \notin {CR, LF, Equals})
        bits == FlattenSeq([i \in 1 .. Len(chars) |-> Reverse(Digits(code(chars[i]), 2, 6))])
    IN  [i \in 1 .. Len(bits) \div 8 |->
            FoldLeft(LAMBDA n, b : 2 * n + b, 0, SubSeq(bits, 8 * i - 7, 8 * i))]

-----------------------------------------------------------------------------
(* DES.  A word is the sequence of its 32 bits, the lowest first; a block  *)
(* is eight bytes.  The code's words are wider than 32 bits on 64-bit      *)
(* builds, and what its shifts push beyond bit 31 is masked away before it *)
(* is used.                                                                *)

XorW(a, b) == [i \in 1 .. 32 |-> (a[i] + b[i]) % 2] \o <<>>

ShiftLeft(w, n) == Zeros(n) \o First(w, 32 - n)

ShiftRight(w, n) == Drop(w, n) \o Zeros(n)

RotateLeft(w, n) == Drop(w, 32 - n) \o First(w, 32 - n)

\* work = ((a >> k) ^ b) & mask; b ^= work; a ^= work << k, where mask has
\* the first k of every 2k bits.
Swap(a, b, k) ==
    LET mixed == XorW(ShiftRight(a, k), b)
        work == [i \in 1 .. 32 |-> IF (i - 1) % (2 * k) < k THEN mixed[i] ELSE 0]
    IN  <<XorW(a, ShiftLeft(work, k)), XorW(b, work)>>

SwapOdd(a, b) ==
    LET mixed == XorW(a, b)
        work == [i \in 1 .. 32 |-> IF i % 2 = 0 THEN mixed[i] ELSE 0]
    IN  <<XorW(a, work), XorW(b, work)>>

\* Six bits of work from bit n on.
Six(work, n) == FoldLeft(LAMBDA x, i : x + work[i + n] * 2 ^ (i - 1), 0, <<1, 2, 3, 4, 5, 6>>)

\* What one round adds to the other half.
fval(half, key) ==
    LET work1 == XorW(RotateLeft(half, 28), key[1])
        work2 == XorW(half, key[2])
        look == << SP[7][Six(work1, 0)], SP[5][Six(work1, 8)], SP[3][Six(work1, 16)],
                   SP[1][Six(work1, 24)], SP[8][Six(work2, 0)], SP[6][Six(work2, 8)],
                   SP[4][Six(work2, 16)], SP[2][Six(work2, 24)] >>
    IN  [i \in 1 .. 32 |-> IF \E k \in 1 .. 8 : look[k][i] = 1 THEN 1 ELSE 0] \o <<>>

\* The initial permutation of <<leftt, right>>, up to the rounds.
Permuted(block) ==
    LET a == Swap(block[1], block[2], 4)
        b == Swap(a[1], a[2], 16)
        c == Swap(b[2], b[1], 2)
        d == Swap(c[1], c[2], 8)
        e == SwapOdd(d[2], RotateLeft(d[1], 1))
    IN  <<RotateLeft(e[1], 1), e[2]>>

\* The final permutation; the halves come out exchanged.
Unpermuted(leftt, right) ==
    LET a == SwapOdd(leftt, RotateLeft(right, 31))
        b == Swap(RotateLeft(a[1], 31), a[2], 8)
        c == Swap(b[1], b[2], 2)
        d == Swap(c[2], c[1], 16)
        e == Swap(d[1], d[2], 4)
    IN  <<e[1], e[2]>>

\* One turn of the round loop: two rounds, one on each half.
Round(lr, key1, key2) ==
    LET leftt == XorW(lr[1], fval(lr[2], key1))
    IN  <<leftt, XorW(lr[2], fval(leftt, key2))>>

deskey(key, md) ==
    [i \in 0 .. 15 |-> Subkeys[key][IF md = "DECRYPT" THEN 15 - i ELSE i]]

scrunch(bytes) ==
    LET word(k) == FlattenSeq([i \in 1 .. 4 |-> Digits(bytes[k - i + 1], 2, 8)])
    IN  <<word(4), word(8)>>

unscrun(words) ==
    LET byte(w, i) == FoldLeft(LAMBDA x, j : x + w[8 * i + j] * 2 ^ (j - 1), 0,
                               <<1, 2, 3, 4, 5, 6, 7, 8>>)
    IN  [i \in 1 .. 8 |-> byte(words[(i + 3) \div 4], (8 - i) % 4)] \o <<>>

\* Block i of the data, and the data with block i replaced: in and out are
\* the same memory.
Block8(data, i) == SubSeq(data, 8 * i - 7, 8 * i)

SetBlock(data, i, b) == memcpy(data, 8 * i - 8, b)

XorBytes(a, b) == [i \in 1 .. 8 |-> a[i] ^^ b[i]] \o <<>>

\* Encrypted data is whole blocks; chained decryption adds one byte to it.
blocks == Len(job.data) \div 8

DesInit ==
    job = [md |-> "idle", mode |-> 0, key |-> 0, text |-> <<>>, data |-> <<>>, i |-> 1,
         CBCVector |-> <<>>, KnL |-> <<>>, lr |-> <<>>, round |-> 9, clearText |-> <<88>>]

\* EasyDES::encrypt up to the first block: the text, zeros, their number.
EasyEncrypt(key, text, mode) ==
    LET textLength == Len(text) + 1
        extendSize == (textLength \div 8 + 1) * 8
        additiveSize == extendSize - textLength
    IN  /\ job.md = "idle"
        /\ job' = [job EXCEPT !.md = "ENCRYPT", !.mode = mode, !.key = key, !.text = text,
                          !.data = text \o Zeros(additiveSize) \o <<48 + additiveSize>>,
                          !.CBCVector = Zeros(8), !.KnL = deskey(key, "ENCRYPT")]

\* EasyDES::decrypt of what encrypt returned, up to the first block.
EasyDecrypt ==
    /\ job.md = "ENCRYPT" /\ job.i > blocks
    /\ job' = [job EXCEPT !.md = "DECRYPT", !.i = 1, !.KnL = deskey(job.key, "DECRYPT"),
                      !.data = IF job.mode = 1 THEN Append(@, 0) ELSE @]

\* The next block of des, cbc_enc or cbc_dec enters des_block.
BlockIn ==
    /\ job.md \in {"ENCRYPT", "DECRYPT"} /\ job.i <= blocks /\ job.round = 9
    /\ LET in == Block8(job.data, job.i)
       IN  job' = [job EXCEPT !.round = 0,
                 !.lr = Permuted(scrunch(IF job.mode = 1 /\ job.md = "ENCRYPT"
                                         THEN XorBytes(job.CBCVector, in) ELSE in))]

desfunc ==
    /\ job.round < 8
    /\ job' = [job EXCEPT !.round = @ + 1,
                      !.lr = Round(@, job.KnL[2 * job.round], job.KnL[2 * job.round + 1])]

\* Mutant: the chaining vector is taken after the block was overwritten.
BlockOutAliased ==
    /\ job.round = 8
    /\ LET out == unscrun(Unpermuted(job.lr[1], job.lr[2]))
           plain == IF job.mode = 1 /\ job.md = "DECRYPT" /\ job.i > 1
                    THEN XorBytes(job.CBCVector, out) ELSE out
       IN  job' = [job EXCEPT !.round = 9, !.i = @ + 1, !.CBCVector = out,
                          !.data = SetBlock(@, job.i, plain)]

\* The block leaves des_block; decryption chains on the block it came from.
BlockOut ==
    /\ job.round = 8
    /\ LET in == Block8(job.data, job.i)
           out == unscrun(Unpermuted(job.lr[1], job.lr[2]))
           plain == IF job.mode = 1 /\ job.md = "DECRYPT" /\ job.i > 1
                    THEN XorBytes(job.CBCVector, out) ELSE out
       IN  job' = [job EXCEPT !.round = 9, !.i = @ + 1,
                          !.CBCVector = IF job.md = "ENCRYPT" THEN out ELSE in,
                          !.data = SetBlock(@, job.i, plain)]

\* The end of EasyDES::decrypt: some calls leave the caller's string alone.
Decrypted ==
    /\ job.md = "DECRYPT" /\ job.i > blocks
    /\ LET additiveSize == Last(job.data) - 48 + 1
       IN  job' = [job EXCEPT !.md = "done",
                 !.clearText = CASE job.mode = 1 -> job.data
                                 [] job.mode = 0 /\ additiveSize < Len(job.data) ->
                                        First(job.data, Len(job.data) - additiveSize)
                                 [] OTHER -> @]

DesNext ==
    \/ \E key \in DOMAIN Subkeys, text \in ClearTexts, mode \in {0, 1} :
           EasyEncrypt(key, text, mode)
    \/ EasyDecrypt \/ BlockIn \/ desfunc \/ BlockOut \/ Decrypted

-----------------------------------------------------------------------------
(* The CRC tables and sums; a u32 is <<high half, low half>>. *)

CRC16Table ==
    << 0, 4489, 8978, 12955, 17956, 22445, 25910, 29887, 35912, 40385, 44890, 48851, 51820, 56293, 59774, 63735,
       4225, 264, 13203, 8730, 22181, 18220, 30135, 25662, 40137, 36160, 49115, 44626, 56045, 52068, 63999, 59510,
       8450, 12427, 528, 5017, 26406, 30383, 17460, 21949, 44362, 48323, 36440, 40913, 60270, 64231, 51324, 55797,
       12675, 8202, 4753, 792, 30631, 26158, 21685, 17724, 48587, 44098, 40665, 36688, 64495, 60006, 55549, 51572,
       16900, 21389, 24854, 28831, 1056, 5545, 10034, 14011, 52812, 57285, 60766, 64727, 34920, 39393, 43898, 47859,
       21125, 17164, 29079, 24606, 5281, 1320, 14259, 9786, 57037, 53060, 64991, 60502, 39145, 35168, 48123, 43634,
       25350, 29327, 16404, 20893, 9506, 13483, 1584, 6073, 61262, 65223, 52316, 56789, 43370, 47331, 35448, 39921,
       29575, 25102, 20629, 16668, 13731, 9258, 5809, 1848, 65487, 60998, 56541, 52564, 47595, 43106, 39673, 35696,
       33800, 38273, 42778, 46739, 49708, 54181, 57662, 61623, 2112, 6601, 11090, 15067, 20068, 24557, 28022, 31999,
       38025, 34048, 47003, 42514, 53933, 49956, 61887, 57398, 6337, 2376, 15315, 10842, 24293, 20332, 32247, 27774,
       42250, 46211, 34328, 38801, 58158, 62119, 49212, 53685, 10562, 14539, 2640, 7129, 28518, 32495, 19572, 24061,
       46475, 41986, 38553, 34576, 62383, 57894, 53437, 49460, 14787, 10314, 6865, 2904, 32743, 28270, 23797, 19836,
       50700, 55173, 58654, 62615, 32808, 37281, 41786, 45747, 19012, 23501, 26966, 30943, 3168, 7657, 12146, 16123,
       54925, 50948, 62879, 58390, 37033, 33056, 46011, 41522, 23237, 19276, 31191, 26718, 7393, 3432, 16371, 11898,
       59150, 63111, 50204, 54677, 41258, 45219, 33336, 37809, 27462, 31439, 18516, 23005, 11618, 15595, 3696, 8185,
       63375, 58886, 54429, 50452, 45483, 40994, 37561, 33584, 31687, 27214, 22741, 18780, 15843, 11370, 7921, 3960 >>

CRC32Halves ==
    << 0, 0, 30471, 12438, 60942, 24876, 39177, 20922, 1901, 50201, 28778, 62607, 59747, 42293, 40548, 38307,
       3803, 34866, 31196, 47268, 57557, 59678, 38866, 55688, 2486, 19499, 32433, 31933, 59320, 11527, 37055, 7569,
       7607, 4196, 27312, 8434, 62393, 29000, 33982, 16862, 6874, 54397, 28125, 58603, 62676, 46417, 33747, 34247,
       4972, 38998, 25707, 43200, 64866, 63866, 35429, 51692, 5121, 23631, 25350, 27865, 64015, 15715, 36104, 3573,
       15214, 8392, 19561, 4190, 54624, 16868, 41575, 29042, 15363, 58577, 19204, 54343, 53773, 34301, 42250, 46443,
       13749, 43258, 17074, 39020, 56251, 51670, 44220, 63808, 13016, 27875, 17887, 23669, 56534, 3535, 43985, 15705,
       9945, 12460, 20958, 58, 51415, 20864, 49104, 24854, 8628, 62645, 22195, 50211, 53178, 38297, 47293, 42255,
       10242, 47262, 24325, 34824, 50700, 55730, 45323, 59684, 12143, 31879, 22632, 19473, 49505, 7595, 46694, 11581,
       30428, 16784, 475, 28934, 39122, 8380, 61397, 4138, 29105, 34185, 1718, 46367, 40895, 58533, 59576, 54323,
       30727, 51618, 3840, 63796, 38409, 43150, 57614, 38936, 32618, 3515, 2157, 15661, 37220, 27799, 58979, 23553,
       27499, 20980, 7276, 24930, 34149, 12504, 62050, 78, 27654, 38381, 6913, 42363, 33288, 62657, 62735, 50263,
       26032, 55750, 4791, 59728, 35774, 47338, 64697, 34940, 25309, 7647, 5594, 11593, 36051, 31987, 64468, 19557,
       19890, 24920, 15029, 20942, 41916, 116, 54459, 12514, 19167, 42305, 15832, 38359, 42193, 50285, 54230, 62715,
       17257, 59754, 13422, 55804, 44391, 34886, 55904, 47312, 17412, 11635, 13059, 7653, 43530, 19551, 56589, 31945,
       20485, 28988, 9986, 16810, 48651, 4112, 51468, 8326, 22376, 46373, 8303, 34227, 47462, 54281, 52833, 58527,
       24286, 63758, 10713, 51608, 45264, 38946, 51159, 43188, 22963, 15639, 11956, 3457, 47037, 23611, 49338, 27821,
       60856, 33568, 39615, 46006, 950, 57868, 29873, 53914, 60117, 18233, 40402, 30639, 1243, 9749, 29660, 5763,
       58211, 2834, 37988, 15236, 3437, 27198, 31338, 23208, 58382, 53003, 37641, 65437, 2560, 44583, 32007, 40625,
       61455, 37700, 34568, 41938, 7681, 62056, 26886, 49918, 63330, 22365, 32869, 26571, 6508, 13937, 28267, 1767,
       65236, 7030, 35283, 11232, 4314, 31322, 26589, 19148, 63929, 57199, 36542, 61433, 6071, 48707, 24752, 36565,
       54998, 41960, 41425, 37758, 14552, 49860, 20447, 62034, 53691, 26609, 42684, 22375, 16309, 1757, 18610, 13899,
       55309, 11226, 44810, 6988, 13827, 19190, 16644, 31328, 57184, 61379, 43111, 57173, 12654, 36591, 18025, 48761,
       52065, 45964, 48230, 33562, 9583, 53920, 21096, 57910, 52236, 30613, 47883, 18179, 8706, 5817, 21765, 9775,
       50618, 15294, 45757, 2856, 11188, 23186, 23731, 27140, 49879, 65447, 46544, 53041, 11481, 40587, 23518, 44573,
       39780, 49840, 60515, 61990, 30058, 41884, 621, 37642, 39945, 1705, 60174, 13887, 29191, 26501, 1280, 22291,
       38335, 19074, 58040, 31252, 31665, 11182, 3254, 6968, 37586, 36507, 58837, 48653, 31964, 61367, 3035, 57121,
       34515, 53972, 61908, 57922, 26845, 46072, 8154, 33646, 33214, 5837, 63161, 9819, 28592, 30689, 6327, 18295,
       34824, 23270, 65295, 27248, 26118, 15306, 4353, 2908, 36709, 40703, 63586, 44649, 24939, 65491, 5740, 53061,
       40970, 57976, 55053, 53998, 19972, 33620, 14595, 46018, 42855, 9825, 53344, 5879, 18793, 18253, 15982, 30683,
       44753, 27210, 55766, 23260, 16607, 2918, 14296, 15344, 43452, 44627, 57019, 40645, 18354, 53119, 12469, 65513,
       48573, 61980, 51898, 49802, 21427, 37680, 9396, 41894, 47824, 13829, 52695, 1683, 21726, 22313, 9177, 26559,
       45926, 31278, 50273, 19128, 23912, 6914, 10863, 11156, 46091, 48695, 49932, 36513, 23045, 57115, 11522, 61325 >>

CRC32Table(i) == <<CRC32Halves[2 * i + 1], CRC32Halves[2 * i + 2]>>

XorU32(a, b) == <<a[1] ^^ b[1], a[2] ^^ b[2]>>

\* v >> 8.
ShiftByte(v) == <<v[1] \div 256, (v[1] % 256) * 256 + v[2] \div 256>>

CRCITUcalc(data) ==
    65535 - FoldLeft(LAMBDA fcs, b : (fcs \div 256) ^^ CRC16Table[((fcs % 256) ^^ b) + 1],
                     65535, data)

CRC32calc(data) ==
    LET fcs == FoldLeft(LAMBDA v, b : XorU32(ShiftByte(v), CRC32Table((v[2] % 256) ^^ b)),
                        <<65535, 65535>>, data)
    IN  <<65535 - fcs[1], 65535 - fcs[2]>>

-----------------------------------------------------------------------------
(* What the encodings promise. *)

\* A byte through eight steps of polynomial division, as the comment beside
\* the code computes the table.
Divide16(v) == IF v % 2 = 1 THEN (v \div 2) ^^ 33800 ELSE v \div 2

Divide32(v) ==
    LET half == <<v[1] \div 2, (v[1] % 2) * 32768 + v[2] \div 2>>
    IN  IF v[2] % 2 = 1 THEN XorU32(half, <<60856, 33568>>) ELSE half

Eight(op(_), v) ==
    LET r[k \in 0 .. 8] == IF k = 0 THEN v ELSE LET was == r[k - 1] IN op(was)
    IN  r[8]

(***************************************************************************)
(* The CRC tables are the remainders of their polynomials, entry by entry, *)
(* so that calc is the division of the message, byte by byte.              *)
(***************************************************************************)
CrcDivides ==
    /\ \A i \in 0 .. 255 : /\ CRC16Table[i + 1] = Eight(Divide16, i)
                           /\ CRC32Table(i) = Eight(Divide32, <<0, i>>)
    /\ \A v \in {u \in Vectors : Len(u) <= 2} :
        /\ CRCITUcalc(v) = 65535 - FoldLeft(LAMBDA r, b : Eight(Divide16, r ^^ b), 65535, v)
        /\ CRC32calc(v) = XorU32(<<65535, 65535>>,
               FoldLeft(LAMBDA r, b : Eight(Divide32, <<r[1], r[2] ^^ b>>), <<65535, 65535>>, v))

(***************************************************************************)
(* base58: no carry is ever lost in the buffer sized by the code's 138/100 *)
(* and 733/1000, decoding gives back every byte string with its leading    *)
(* zeros, blanks around a text are skipped and anything else in it is      *)
(* refused, and the big-number encoder writes the same digits.             *)
(***************************************************************************)
Base58Inverts ==
    /\ \A v \in Vectors : LET e == EncodeBase58(v)
                              padded == <<Space>> \o e[1] \o <<Space, Space>>
                          IN  /\ e[2]
                              /\ DecodeBase58(e[1]) = << <<v, TRUE>> >>
                              /\ DecodeBase58(padded) = << <<v, TRUE>> >>
                              /\ v # <<>> => DecodeBase58(Append(padded, 0)) = <<>>
                              /\ Len(v) <= 3 => EncodeBase58Super(v) = e[1]
                              /\ hexStr2vch(HexStr(v)) = v
    /\ \A w \in Words : LET d == DecodeBase58(w)
                        IN  IF Bad \in Range(w) THEN d = <<>>
                            ELSE d[1][2] /\ EncodeBase58(d[1][1])[1] = w

(***************************************************************************)
(* DES: decrypt undoes encrypt in place for every key and every length of  *)
(* text around the block boundaries: without chaining it gives the text    *)
(* back (an empty text leaves the caller's string as it was), with         *)
(* chaining the text followed by its padding.                              *)
(***************************************************************************)
DesInverts ==
    job.md = "done" =>
        IF job.mode = 0 THEN job.clearText = IF job.text = <<>> THEN <<88>> ELSE job.text
        ELSE /\ First(job.clearText, Len(job.text)) = job.text
             /\ \A i \in Len(job.text) + 1 .. Len(job.clearText) - 2 : job.clearText[i] = 0

(***************************************************************************)
(* base64: an encoded text stands for the data, in lines of 76 characters. *)
(***************************************************************************)
Base64Spells ==
    \A v \in Vectors \cup {[i \in 1 .. 58 |-> 4 * i]} :
                       LET text == Base64Encode(v)
                       IN  /\ Meaning(text) = v
                           /\ \A i \in 1 .. Len(text) : text[i] = CR <=> i % 78 = 77

\* The encodings are inverted, spelled and summed right.
CodecsInvert == CrcDivides /\ Base58Inverts /\ Base64Spells

(***************************************************************************)
(* The decoding table's rows are labelled "'0'-'9'", "'A'-'Z'" and         *)
(* "'a'-'z'" (base64.cpp:56-62): decoding an encoded text gives the data   *)
(* back.                                                                   *)
(***************************************************************************)
Base64Inverts == \A v \in Vectors : Base64Decode(Base64Encode(v)) = v
=============================================================================
