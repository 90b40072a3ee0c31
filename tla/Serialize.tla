------------------------------ MODULE Serialize ------------------------------
(***************************************************************************)
(* util/serialize/serialize.h: compact sizes, the templates that write and *)
(* read objects, CDataStream (a buffer of which the front has been read),  *)
(* and CAutoFile as test_serialize.cpp uses it.  A size is its eight bytes *)
(* in the order they are written, so the limits are the code's own.        *)
(***************************************************************************)
EXTENDS Integers, Sequences, SequencesExt, FiniteSetsExt

CONSTANTS Sizes,       \* sizes that are written, as eight bytes
          Objects,     \* objects that are written, <<type, value>>
          Others,      \* other streams, [vch, nReadPos]
          Chunks,      \* byte sequences that are written
          Block,       \* elements that Unserialize reads at a time
          MaxLen       \* bound on the length of the buffer

VARIABLES vch, nReadPos,     \* CDataStream
          failbit, throws,   \* state and exceptmask
          out,               \* what the last call gave: bytes, or that it threw
          consumed,          \* bytes read since the buffer was last changed at the front
          disk, file, pos    \* CAutoFile: the file's bytes, the handle, where it is

vars == <<vch, nReadPos, failbit, throws, out, consumed, disk, file, pos>>
fileVars == <<disk, file, pos>>

Threw == <<-1>>

-----------------------------------------------------------------------------
Zero(bytes) == \A i \in DOMAIN bytes : bytes[i] = 0
Wide(bytes) == bytes \o [i \in 1 .. 8 - Len(bytes) |-> 0]
ToSize(n) == <<n % 256, (n \div 256) % 256, (n \div 65536) % 256>> \o <<0, 0, 0, 0, 0>>
FromSize(size) == size[1] + 256 * size[2] + 65536 * size[3]

\* MAX_SIZE is 0x02000000.
TooLarge(size) == ~Zero(SubSeq(size, 5, 8)) \/ size[4] > 2 \/ (size[4] = 2 /\ ~Zero(SubSeq(size, 1, 3)))

GetSizeOfCompactSize(size) ==
    CASE Zero(SubSeq(size, 2, 8)) /\ size[1] < 253 -> 1
      [] Zero(SubSeq(size, 3, 8)) /\ ~(Zero(SubSeq(size, 2, 8)) /\ size[1] < 253) -> 3
      [] Zero(SubSeq(size, 5, 8)) /\ ~Zero(SubSeq(size, 3, 8)) -> 5
      [] OTHER -> 9

WriteCompactSize(size) ==
    LET n == GetSizeOfCompactSize(size) IN
    IF n = 1 THEN <<size[1]>>
    ELSE <<CASE n = 3 -> 253 [] n = 5 -> 254 [] n = 9 -> 255>> \o SubSeq(size, 1, n - 1)

\* What reading gives: a value and the bytes that are left, or an exception and the bytes
\* that are left when it is thrown: by read() at the end of the data, which sets failbit,
\* or by ReadCompactSize, which does not.
Got(v, rest) == [ok |-> TRUE, end |-> FALSE, val |-> v, rest |-> rest]
Failed(rest) == [ok |-> FALSE, end |-> TRUE, val |-> <<>>, rest |-> rest]
Refused(rest) == [ok |-> FALSE, end |-> FALSE, val |-> <<>>, rest |-> rest]

\* Mutant: a size that could have been written shorter is accepted.
ReadAnySize(s) ==
    IF s = <<>> THEN Failed(s)
    ELSE LET n == CASE s[1] < 253 -> 0 [] s[1] = 253 -> 2 [] s[1] = 254 -> 4 [] s[1] = 255 -> 8
             size == IF n = 0 THEN Wide(<<s[1]>>) ELSE Wide(SubSeq(s, 2, n + 1))
             rest == SubSeq(s, n + 2, Len(s))
         IN IF Len(s) < n + 1 THEN Failed(Tail(s)) ELSE IF TooLarge(size) THEN Refused(rest) ELSE Got(size, rest)

ReadCompactSize(s) ==
    IF s = <<>> THEN Failed(s)
    ELSE LET n == CASE s[1] < 253 -> 0 [] s[1] = 253 -> 2 [] s[1] = 254 -> 4 [] s[1] = 255 -> 8
             size == IF n = 0 THEN Wide(<<s[1]>>) ELSE Wide(SubSeq(s, 2, n + 1))
             rest == SubSeq(s, n + 2, Len(s))
         IN CASE Len(s) < n + 1 -> Failed(Tail(s))
              [] Len(s) >= n + 1 /\ (GetSizeOfCompactSize(size) # n + 1 \/ TooLarge(size)) -> Refused(rest)
              [] OTHER -> Got(size, rest)

-----------------------------------------------------------------------------
\* Types are <<"byte">>, <<"string">>, <<"vector", T>>, <<"tuple", T, ...>>, <<"map", K, T>>
\* and <<"set", K>>; a map is a function, its keys and those of a set are in order.
Sorted(S) == SetToSortSeq(S, LAMBDA a, b : a < b)
Fundamental(T) == T[1] = "byte"

\* The items of a container, and the type of an item.
Items(T, v) ==
    CASE T[1] \in {"string", "vector"} -> v
      [] T[1] = "map" -> LET keys == Sorted(DOMAIN v) IN [i \in DOMAIN keys |-> <<keys[i], v[keys[i]]>>]
      [] T[1] = "set" -> Sorted(v)
ItemType(T) ==
    CASE T[1] = "string" -> <<"byte">> [] T[1] = "map" -> <<"tuple", T[2], T[3]>> [] OTHER -> T[2]

RECURSIVE Ser(_, _)
Ser(T, v) ==
    CASE T[1] = "byte" -> <<v>>
      [] T[1] = "tuple" -> FlattenSeq([i \in DOMAIN v |-> Ser(T[i + 1], v[i])])
      [] OTHER -> LET items == Items(T, v) IN
                  WriteCompactSize(ToSize(Len(items)))
                      \o FlattenSeq([i \in DOMAIN items |-> Ser(ItemType(T), items[i])])

RECURSIVE GetSerializeSize(_, _)
GetSerializeSize(T, v) ==
    LET Total(sizes) == FoldSeq(LAMBDA a, b : a + b, 0, sizes) IN
    CASE T[1] = "byte" -> 1
      [] T[1] = "tuple" -> Total([i \in DOMAIN v |-> GetSerializeSize(T[i + 1], v[i])])
      [] OTHER -> LET items == Items(T, v)
                      head == GetSizeOfCompactSize(ToSize(Len(items)))
                  IN IF Fundamental(ItemType(T)) THEN head + Len(items)
                     ELSE head + Total([i \in DOMAIN items |-> GetSerializeSize(ItemType(T), items[i])])

\* read() of n bytes: nothing is taken when there are fewer.
Bytes(n, s) == IF n > Len(s) THEN Failed(s) ELSE Got(SubSeq(s, 1, n), SubSeq(s, n + 1, Len(s)))

\* A vector of bytes is read in blocks, so that a wrong size does not take all memory.
RECURSIVE ReadBlocks(_, _, _)
ReadBlocks(n, s, v) ==
    IF n = 0 THEN Got(v, s)
    ELSE LET r == Bytes(IF n < Block THEN n ELSE Block, s)
         IN IF r.ok THEN ReadBlocks(n - Len(r.val), r.rest, v \o r.val) ELSE r

RECURSIVE ReadItems(_, _, _, _), Unser(_, _)
ReadItems(types, i, s, v) ==
    IF i > Len(types) THEN Got(v, s)
    ELSE LET r == Unser(types[i], s)
         IN IF r.ok THEN ReadItems(types, i + 1, r.rest, Append(v, r.val)) ELSE r

\* A container from its items; the first of two equal keys stays.
Build(T, items) ==
    CASE T[1] \in {"string", "vector"} -> items
      [] T[1] = "map" -> [k \in {p[1] : p \in ToSet(items)} |->
                             items[SelectInSeq(items, LAMBDA p : p[1] = k)][2]]
      [] T[1] = "set" -> ToSet(items)

Unser(T, s) ==
    CASE T[1] = "byte" -> LET r == Bytes(1, s) IN IF r.ok THEN Got(r.val[1], r.rest) ELSE r
      [] T[1] = "tuple" -> ReadItems(Tail(T), 1, s, <<>>)
      [] OTHER ->
            LET size == ReadCompactSize(s)
                n == FromSize(size.val)
                r == CASE T[1] = "string" -> Bytes(n, size.rest)
                       [] T[1] = "vector" /\ Fundamental(T[2]) -> ReadBlocks(n, size.rest, <<>>)
                       [] OTHER -> ReadItems([i \in 1 .. n |-> ItemType(T)], 1, size.rest, <<>>)
            IN IF ~size.ok THEN size ELSE IF r.ok THEN Got(Build(T, r.val), r.rest) ELSE r

-----------------------------------------------------------------------------
Unread == SubSeq(vch, nReadPos + 1, Len(vch))
size == Len(vch) - nReadPos
First(n) == SubSeq(Unread, 1, IF n < size THEN n ELSE size)

Init ==
    /\ vch = <<>> /\ nReadPos = 0 /\ failbit = FALSE /\ throws = TRUE
    /\ out = <<>> /\ consumed = <<>>
    /\ disk = <<>> /\ file = "null" /\ pos = 0

Fits(bytes) == Len(vch) + Len(bytes) <= MaxLen

\* write, +=, and << of an object: at the end of the buffer.
Write(bytes) ==
    /\ Fits(bytes)
    /\ vch' = vch \o bytes /\ out' = <<>>
    /\ UNCHANGED <<nReadPos, failbit, throws, consumed, fileVars>>

Append_(b) == Write(SubSeq(b.vch, b.nReadPos + 1, Len(b.vch)))

\* stream << stream: Serialize of the other stream.
Shift(b) == Write(b.vch)

\* n bytes are gone from the front; at the end the buffer is cleared.
Advance(n) ==
    IF nReadPos + n >= Len(vch) THEN vch' = <<>> /\ nReadPos' = 0 /\ consumed' = <<>>
    ELSE nReadPos' = nReadPos + n /\ consumed' = consumed \o First(n) /\ UNCHANGED vch

\* Mutant: a read that fails has already taken the bytes that were there.
ReadWhatIsThere(n) ==
    /\ Advance(n)
    /\ IF n <= size THEN out' = First(n) /\ UNCHANGED failbit
       ELSE failbit' = TRUE /\ out' = Threw
    /\ UNCHANGED <<throws, fileVars>>

\* read: past the end setstate throws first, or, with exceptions off, the rest is zeros.
Read(n) ==
    /\ IF n > size /\ throws THEN failbit' = TRUE /\ out' = Threw /\ UNCHANGED <<vch, nReadPos, consumed>>
       ELSE /\ Advance(n)
            /\ failbit' = (failbit \/ n > size)
            /\ out' = First(n) \o [i \in 1 .. (n - size) |-> 0]
    /\ UNCHANGED <<throws, fileVars>>

Ignore(n) ==
    /\ IF n > size /\ throws THEN failbit' = TRUE /\ out' = Threw /\ UNCHANGED <<vch, nReadPos, consumed>>
       ELSE /\ Advance(n)
            /\ failbit' = (failbit \/ n > size) /\ out' = <<>>
    /\ UNCHANGED <<throws, fileVars>>

\* insert before the i-th unread byte; at the front the room of read bytes is used again.
Insert(i, bytes) ==
    /\ i \in 0 .. size
    /\ IF i = 0 /\ Len(bytes) <= nReadPos
       THEN /\ nReadPos' = nReadPos - Len(bytes)
            /\ vch' = ReplaceSubSeqAt(nReadPos - Len(bytes) + 1, bytes, bytes, vch)
            /\ consumed' = <<>>
       ELSE /\ Fits(bytes) /\ UNCHANGED <<nReadPos, consumed>>
            /\ vch' = SubSeq(vch, 1, nReadPos + i) \o bytes \o SubSeq(vch, nReadPos + i + 1, Len(vch))
    /\ out' = <<>> /\ UNCHANGED <<failbit, throws, fileVars>>

\* erase of unread bytes i .. j - 1 (of one byte when j = i + 1).
Erase(i, j) ==
    /\ 0 <= i /\ i < j /\ j <= size
    /\ IF i = 0 THEN Advance(j)
       ELSE /\ vch' = SubSeq(vch, 1, nReadPos + i) \o SubSeq(vch, nReadPos + j + 1, Len(vch))
            /\ UNCHANGED <<nReadPos, consumed>>
    /\ out' = <<>> /\ UNCHANGED <<failbit, throws, fileVars>>

Compact ==
    /\ vch' = Unread /\ nReadPos' = 0 /\ out' = <<>> /\ consumed' = <<>>
    /\ UNCHANGED <<failbit, throws, fileVars>>

\* Rewind by n bytes if the buffer hasn't been compacted yet.
Rewind(n) ==
    /\ IF n > nReadPos THEN UNCHANGED <<nReadPos, consumed>> /\ out' = <<0>>
       ELSE /\ nReadPos' = nReadPos - n /\ out' = <<1>>
            /\ consumed' = SubSeq(consumed, 1, Len(consumed) - n)
    /\ UNCHANGED <<vch, failbit, throws, fileVars>>

Resize(n) ==
    /\ n <= MaxLen - nReadPos
    /\ vch' = [i \in 1 .. nReadPos + n |-> IF i <= Len(vch) THEN vch[i] ELSE 0]
    /\ out' = <<>> /\ UNCHANGED <<nReadPos, failbit, throws, consumed, fileVars>>

\* clear() and GetAndClear.
Clear ==
    /\ out' = Unread /\ vch' = <<>> /\ nReadPos' = 0 /\ consumed' = <<>>
    /\ UNCHANGED <<failbit, throws, fileVars>>

\* exceptions(mask) throws at once when the stream has failed.
Exceptions(mask) ==
    /\ throws' = mask /\ out' = IF mask /\ failbit THEN Threw ELSE <<>>
    /\ UNCHANGED <<vch, nReadPos, failbit, consumed, fileVars>>

ClearState == failbit' = FALSE /\ out' = <<>> /\ UNCHANGED <<vch, nReadPos, throws, consumed, fileVars>>

\* >> of an object, with exceptions: reads until one fails.
Extract(T) ==
    /\ throws
    /\ LET r == Unser(T, Unread)
           n == Len(Unread) - Len(r.rest)
       IN /\ IF n = 0 THEN UNCHANGED <<vch, nReadPos, consumed>>
             ELSE Advance(n)
          /\ failbit' = (failbit \/ r.end)
          /\ out' = IF r.ok THEN Ser(T, r.val) ELSE Threw
    /\ UNCHANGED <<throws, fileVars>>

-----------------------------------------------------------------------------
streamVars == <<vch, nReadPos, failbit, throws, consumed>>

\* CAutoFile over fopen("wb") or fopen("rb"), which may give NULL.
Open(mode) ==
    /\ file = "null" /\ file' \in {mode, "null"} /\ pos' = 0
    /\ disk' = IF file' = "wb" THEN <<>> ELSE disk
    /\ out' = <<>> /\ UNCHANGED streamVars

\* file << stream: the whole buffer is written, or a part of it and write throws.
FileWrite ==
    /\ file # "null" => file = "wb" /\ Len(disk) + Len(vch) <= MaxLen
    /\ \/ file = "null" /\ out' = Threw /\ UNCHANGED disk
       \/ file = "wb" /\ disk' = disk \o vch /\ out' = <<>>
       \/ /\ file = "wb" /\ out' = Threw
          /\ \E n \in 0 .. Len(vch) - 1 : disk' = disk \o SubSeq(vch, 1, n)
    /\ UNCHANGED <<streamVars, file, pos>>

\* file.read of n bytes: a short fread has moved on before read throws.
FileRead(n) ==
    /\ file # "null" => file = "rb"
    /\ IF file = "null" THEN out' = Threw /\ UNCHANGED pos
       ELSE LET m == IF Len(disk) - pos < n THEN Len(disk) - pos ELSE n IN
            /\ pos' = pos + m
            /\ out' = IF m < n THEN Threw ELSE SubSeq(disk, pos + 1, pos + n)
    /\ UNCHANGED <<streamVars, disk, file>>

\* fclose, also by the destructor; release leaves the file to the caller.
Fclose == file # "null" /\ file' = "null" /\ out' = <<>> /\ UNCHANGED <<streamVars, disk, pos>>

\* CDataStream of the bytes that were read.
FromFile ==
    /\ file = "rb" /\ out # Threw /\ Len(out) <= MaxLen
    /\ vch' = out /\ nReadPos' = 0 /\ failbit' = FALSE /\ throws' = TRUE /\ consumed' = <<>>
    /\ out' = <<>> /\ UNCHANGED fileVars

StreamNext ==
    \/ \E c \in Chunks : Write(c)
    \/ \E o \in Objects : Write(Ser(o[1], o[2])) \/ Extract(o[1])
    \/ \E b \in Others : Append_(b) \/ Shift(b)
    \/ \E n \in 0 .. 2 : Read(n) \/ Ignore(n) \/ Rewind(n) \/ Resize(n)
    \/ \E i \in 0 .. 1, c \in Chunks : Insert(i, c)
    \/ \E i, j \in 0 .. 3 : Erase(i, j)
    \/ Compact \/ Clear \/ ClearState \/ \E mask \in BOOLEAN : Exceptions(mask)

\* The streams of test_serialize.cpp: write an object, file << stream, read it all back.
FileNext ==
    \/ \E o \in Objects : vch = <<>> /\ Write(Ser(o[1], o[2]))
    \/ \E mode \in {"wb", "rb"} : Open(mode)
    \/ FileWrite \/ FileRead(Len(disk)) \/ FromFile \/ Fclose

-----------------------------------------------------------------------------
\* Buffer (CDataStream): whatever has been read before and wherever the read position is,
\* the unread bytes change as a plain buffer would: a read gives the first of them and
\* drops them, or throws and drops nothing; insert and erase work at their place although
\* the front is treated in a special way; += appends what the other stream has not read,
\* << all it holds; Compact changes nothing; Rewind gives back what was read.
BufferStep ==
    /\ \A n \in 0 .. 2 :
         Read(n) =>
             IF out' = Threw THEN n > size /\ Unread' = Unread
             ELSE /\ out' = First(n) \o [i \in 1 .. (n - size) |-> 0]
                  /\ Unread' = SubSeq(Unread, n + 1, Len(Unread))
    /\ out' = Threw => IsSuffix(Unread', Unread)
    /\ \A i \in 0 .. 1, c \in Chunks :
         Insert(i, c) => Unread' = SubSeq(Unread, 1, i) \o c \o SubSeq(Unread, i + 1, Len(Unread))
    /\ \A i, j \in 0 .. 3 :
         Erase(i, j) => Unread' = SubSeq(Unread, 1, i) \o SubSeq(Unread, j + 1, Len(Unread))
    /\ \A n \in 1 .. 2 :
         Rewind(n) /\ n <= Len(consumed) =>
             Unread' = SubSeq(consumed, Len(consumed) - n + 1, Len(consumed)) \o Unread
    /\ \A b \in Others :
         /\ Append_(b) => Unread' = Unread \o SubSeq(b.vch, b.nReadPos + 1, Len(b.vch))
         /\ Shift(b) => Unread' = Unread \o b.vch
    /\ Compact => Unread' = Unread

\* Objects: reading gives back what was written and leaves what follows, GetSerializeSize
\* is the number of bytes written, and an object that is cut short is never read.
ObjectsRoundTrip ==
    \A o \in Objects :
        LET T == o[1]
            s == Ser(T, o[2])
        IN /\ Unser(T, s \o <<7>>) = Got(o[2], <<7>>)
           /\ GetSerializeSize(T, o[2]) = Len(s)
           /\ \A n \in 0 .. Len(s) - 1 : ~Unser(T, SubSeq(s, 1, n)).ok

\* Compact sizes: a size up to MAX_SIZE is read back from the bytes it is written as, a
\* larger one is refused, and no other bytes are read as that size.
SizesCanonical ==
    \A n \in Sizes :
        LET s == WriteCompactSize(n) IN
        /\ Len(s) = GetSizeOfCompactSize(n)
        /\ ReadCompactSize(s) = IF TooLarge(n) THEN Refused(<<>>) ELSE Got(n, <<>>)
        /\ \A long \in {<<253>> \o SubSeq(n, 1, 2), <<254>> \o SubSeq(n, 1, 4), <<255>> \o n} :
              ReadCompactSize(long).ok => WriteCompactSize(ReadCompactSize(long).val) = long
=============================================================================
