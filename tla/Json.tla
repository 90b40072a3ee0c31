-------------------------------- MODULE Json --------------------------------
(* The three JSON libraries of the repository: UniValue (util/univalue),     *)
(* cJSON (comLib/sys/cJSON.cpp) and JSON Spirit (util/json).  A document is  *)
(* a sequence of tokens <<kind, payload>>; white space and indentation are   *)
(* left out.  UniValue::read is a state machine, one step per token of its   *)
(* do loop; the other two readers recurse over a text that is all there.     *)
EXTENDS Integers, Sequences, SequencesExt, TLC

CONSTANTS Strings,      \* payloads of string tokens
          Numbers,      \* payloads of number tokens
          Samples,      \* values put into a container
          MaxTokens,    \* bound: tokens of a document
          MaxValues     \* bound: values of a container that is built

VARIABLES text,         \* the tokens read so far
          root,         \* *this
          stack,        \* the open containers: paths from root
          expectMask,   \* the expect_bits that are set
          last_tok,     \* kind of the token before, "none" for JTOK_NONE
          verdict       \* "reading", "closed" (the loop has ended), "ok", "bad";
                        \* "building" for a value made by calls instead

jsonVars == <<text, root, stack, expectMask, last_tok, verdict>>

Punctuation == {"{", "}", "[", "]", ":", ","}
Keywords == {"null", "true", "false"}
Token == {<<k, 0>> : k \in Punctuation \cup Keywords}
           \cup {<<"str", s>> : s \in Strings} \cup {<<"num", n>> : n \in Numbers}

jsonTokenIsValue(tok) == tok[1] \in Keywords \cup {"num", "str"}
ValueOpens(tok) == jsonTokenIsValue(tok) \/ tok[1] \in {"{", "["}

-----------------------------------------------------------------------------
(* Values.  Only containers have keys and values, only scalars a val.        *)

New(typ, val) == [typ |-> typ, val |-> val, keys |-> <<>>, values |-> <<>>]
Scalar(tok) == New(tok[1], tok[2])
Container(tok) == New(IF tok[1] = "{" THEN "obj" ELSE "arr", 0)

PushValue(v, w) == [v EXCEPT !.values = Append(@, w)]

RECURSIVE ValueAt(_, _)
ValueAt(v, path) == IF path = <<>> THEN v ELSE ValueAt(v.values[Head(path)], Tail(path))

RECURSIVE SetAt(_, _, _)
SetAt(v, path, w) ==
  IF path = <<>> THEN w
  ELSE [v EXCEPT !.values[Head(path)] = SetAt(@, Tail(path), w)]

-----------------------------------------------------------------------------
(* UniValue::read.                                                           *)

\* The test of a token against the one expectation that applies to it.
Expected(tok) ==
  CASE "VALUE" \in expectMask -> ValueOpens(tok)
    [] "VALUE" \notin expectMask /\ "ARR_VALUE" \in expectMask
         -> ValueOpens(tok) \/ tok[1] = "]"
    [] expectMask \cap {"VALUE", "ARR_VALUE"} = {} /\ "OBJ_NAME" \in expectMask
         -> tok[1] \in {"}", "str"}
    [] expectMask \cap {"VALUE", "ARR_VALUE", "OBJ_NAME"} = {} /\ "COLON" \in expectMask
         -> tok[1] = ":"
    [] OTHER -> tok[1] # ":"

Allowed(tok) == Expected(tok) /\ ("NOT_VALUE" \in expectMask => ~ValueOpens(tok))

\* What the tests leave set: an expectation met is cleared, OBJ_NAME is not.
AfterTests ==
  (IF "VALUE" \in expectMask THEN expectMask \ {"VALUE"}
   ELSE IF "ARR_VALUE" \in expectMask THEN expectMask \ {"ARR_VALUE"}
   ELSE IF "OBJ_NAME" \in expectMask THEN expectMask
   ELSE expectMask \ {"COLON"}) \ {"NOT_VALUE"}

top == ValueAt(root, Last(stack))

GrowTop(v) == root' = SetAt(root, Last(stack), PushValue(top, v))

OpenToken(tok) ==
  /\ tok[1] \in {"{", "["}
  /\ IF stack = <<>>
     THEN root' = Container(tok) /\ stack' = <<<<>>>>
     ELSE /\ GrowTop(Container(tok))
          /\ stack' = Append(stack, Append(Last(stack), Len(top.values) + 1))
  /\ expectMask' = AfterTests \cup {IF tok[1] = "{" THEN "OBJ_NAME" ELSE "ARR_VALUE"}

CloseToken(tok) ==
  /\ tok[1] \in {"}", "]"} /\ stack # <<>> /\ last_tok # ","
  /\ top.typ = IF tok[1] = "}" THEN "obj" ELSE "arr"
  /\ stack' = Front(stack)
  /\ expectMask' = (AfterTests \ {"OBJ_NAME"}) \cup {"NOT_VALUE"}
  /\ UNCHANGED root

ColonToken(tok) ==
  /\ tok[1] = ":" /\ stack # <<>> /\ top.typ = "obj"
  /\ expectMask' = AfterTests \cup {"VALUE"}
  /\ UNCHANGED <<root, stack>>

CommaToken(tok) ==
  /\ tok[1] = "," /\ stack # <<>> /\ last_tok \notin {",", "["}
  /\ expectMask' = AfterTests \cup {IF top.typ = "obj" THEN "OBJ_NAME" ELSE "ARR_VALUE"}
  /\ UNCHANGED <<root, stack>>

NameToken(tok) ==
  /\ tok[1] = "str" /\ stack # <<>> /\ "OBJ_NAME" \in expectMask
  /\ root' = SetAt(root, Last(stack), [top EXCEPT !.keys = Append(@, tok[2])])
  /\ expectMask' = (AfterTests \ {"OBJ_NAME"}) \cup {"COLON", "NOT_VALUE"}
  /\ UNCHANGED stack

ScalarToken(tok) ==
  /\ jsonTokenIsValue(tok) /\ stack # <<>>
  /\ tok[1] = "str" => "OBJ_NAME" \notin expectMask
  /\ GrowTop(Scalar(tok))
  /\ expectMask' = AfterTests \cup {"NOT_VALUE"}
  /\ UNCHANGED stack

Handle(tok) == \/ OpenToken(tok) \/ CloseToken(tok) \/ ColonToken(tok)
               \/ CommaToken(tok) \/ NameToken(tok) \/ ScalarToken(tok)

Refused(tok) ==
  \/ ~Allowed(tok)
  \/ stack = <<>> /\ tok[1] \notin {"{", "["}
  \/ tok[1] \in {"}", "]"} /\ stack # <<>>
       /\ (last_tok = "," \/ top.typ # IF tok[1] = "}" THEN "obj" ELSE "arr")
  \/ tok[1] = ":" /\ stack # <<>> /\ top.typ # "obj"
  \/ tok[1] = "," /\ stack # <<>> /\ last_tok \in {",", "["}

\* One turn of the do loop; return false is the verdict "bad".
ReadToken(tok) ==
  /\ verdict = "reading" /\ Len(text) < MaxTokens
  /\ text' = Append(text, tok) /\ last_tok' = tok[1]
  /\ \/ Allowed(tok) /\ Handle(tok) /\ verdict' = IF stack' = <<>> THEN "closed" ELSE "reading"
     \/ Refused(tok) /\ verdict' = "bad" /\ UNCHANGED <<root, stack, expectMask>>

\* The token after the construct: anything but the end of the text refuses it.
ReadTrailing(tok) ==
  /\ verdict = "closed" /\ Len(text) < MaxTokens
  /\ text' = Append(text, tok) /\ verdict' = "bad"
  /\ UNCHANGED <<root, stack, expectMask, last_tok>>

\* JTOK_NONE.
ReadEnd ==
  /\ verdict \in {"reading", "closed"}
  /\ verdict' = IF verdict = "closed" THEN "ok" ELSE "bad"
  /\ last_tok' = "none"
  /\ UNCHANGED <<text, root, stack, expectMask>>

\* clear() and the locals of read().
JsonInit ==
  /\ text = <<>> /\ root = New("null", 0) /\ stack = <<>>
  /\ expectMask = {} /\ last_tok = "none" /\ verdict \in {"reading", "building"}

-----------------------------------------------------------------------------
(* The setters and the push functions.                                       *)

Become(v) == root' = v

\* setNull, setBool, setStr, setArray, setObject and, for a text that
\* validNumStr takes, setNumStr and setInt: clear() and the new type.
Set(v) == Become(v)

\* setFloat of a number whose text is refused (inf, nan): the type is set all
\* the same and nothing is cleared.
SetFloatRefused == Become([root EXCEPT !.typ = "num"])

push_back(v) == root.typ = "arr" /\ Become(PushValue(root, v))

push_backV(vec) == root.typ = "arr" /\ Become([root EXCEPT !.values = @ \o vec])

pushKV(key, v) ==
  /\ root.typ = "obj"
  /\ Become([PushValue(root, v) EXCEPT !.keys = Append(@, key)])

\* Of another object: with *this itself the loop would not end.
pushKVs(obj) ==
  /\ root.typ = "obj" /\ obj.typ = "obj"
  /\ Become([root EXCEPT !.keys = @ \o obj.keys, !.values = @ \o obj.values])

Build ==
  /\ verdict = "building" /\ Len(root.values) < MaxValues
  /\ \/ \E v \in Samples : Set(v) \/ push_back(v) \/ pushKVs(v)
     \/ \E v, w \in Samples : push_backV(<<v, w>>)
     \/ \E k \in Strings, v \in Samples : pushKV(k, v)
     \/ SetFloatRefused
  /\ UNCHANGED <<text, stack, expectMask, last_tok, verdict>>

JsonNext == (\E tok \in Token : ReadToken(tok) \/ ReadTrailing(tok)) \/ ReadEnd \/ Build

-----------------------------------------------------------------------------
(* Writers: the tokens of a value.                                           *)

First(s, n) == SubSeq(s, 1, n)
Sign(k) == <<k, 0>>
Joined(parts) ==
  FoldLeft(LAMBDA out, i : out \o (IF i = 1 THEN <<>> ELSE <<Sign(",")>>) \o parts[i],
           <<>>, [i \in 1 .. Len(parts) |-> i])

\* UniValue::write, writeArray and writeObject.
RECURSIVE Write(_)
Write(v) ==
  CASE v.typ = "arr" ->
         <<Sign("[")>> \o Joined([i \in 1 .. Len(v.values) |-> Write(v.values[i])])
           \o <<Sign("]")>>
    [] v.typ = "obj" ->
         <<Sign("{")>>
           \o Joined([i \in 1 .. Len(v.keys) |->
                        <<<<"str", v.keys[i]>>, Sign(":")>> \o Write(v.values[i])])
           \o <<Sign("}")>>
    [] OTHER -> <<<<v.typ, v.val>>>>

\* cJSON: print_value, which prints the children of a container before the
\* container is put together.
print_array(entries) == <<Sign("[")>> \o Joined(entries) \o <<Sign("]")>>

print_object(names, entries) ==
  <<Sign("{")>>
    \o Joined([i \in 1 .. Len(entries) |-> <<names[i], Sign(":")>> \o entries[i]])
    \o <<Sign("}")>>

RECURSIVE print_value(_)
print_value(v) ==
  LET entries == [i \in 1 .. Len(v.values) |-> print_value(v.values[i])]
  IN CASE v.typ = "arr" -> print_array(entries)
       [] v.typ = "obj" -> print_object([i \in 1 .. Len(v.keys) |-> <<"str", v.keys[i]>>], entries)
       [] OTHER -> <<<<v.typ, v.val>>>>

\* JSON Spirit: Generator::output, of a value and of a member of an object.
output_array_or_obj(t, start_char, end_char) ==
  <<Sign(start_char)>> \o Joined(t) \o <<Sign(end_char)>>

output_member(name, value) == <<<<"str", name>>, Sign(":")>> \o value

RECURSIVE output(_)
output(v) ==
  LET t == [i \in 1 .. Len(v.values) |->
              IF v.typ = "obj" THEN output_member(v.keys[i], output(v.values[i]))
              ELSE output(v.values[i])]
  IN CASE v.typ = "arr" -> output_array_or_obj(t, "[", "]")
       [] v.typ = "obj" -> output_array_or_obj(t, "{", "}")
       [] OTHER -> <<<<v.typ, v.val>>>>

-----------------------------------------------------------------------------
(* cJSON.  A parser returns the value and the place after it; place 0 is     *)
(* the null pointer it returns on an error.                                  *)

NoParse == [v |-> New("null", 0), next |-> 0]
TokenAt(t, i) == IF i \in 1 .. Len(t) THEN t[i][1] ELSE "none"

\* The rest of an array or an object, v being what it holds: one item at i,
\* then more of them after commas up to the closing token.  An item of an
\* object is a string and a colon before its value.
RECURSIVE parse_value(_, _), parse_items(_, _, _)
parse_items(t, i, v) ==
  LET obj == v.typ = "obj"
      start == IF obj THEN i + 2 ELSE i
      item == parse_value(t, start)
      close == IF obj THEN "}" ELSE "]"
      grown == IF obj THEN [PushValue(v, item.v) EXCEPT !.keys = Append(@, t[i][2])]
                      ELSE PushValue(v, item.v)
  IN IF \/ obj /\ ~(TokenAt(t, i) = "str" /\ TokenAt(t, i + 1) = ":")
        \/ item.next = 0
     THEN NoParse
     ELSE CASE TokenAt(t, item.next) = "," -> parse_items(t, item.next + 1, grown)
            [] TokenAt(t, item.next) = close -> [v |-> grown, next |-> item.next + 1]
            [] OTHER -> NoParse
parse_value(t, i) ==
  CASE TokenAt(t, i) \in Keywords \cup {"str", "num"} -> [v |-> Scalar(t[i]), next |-> i + 1]
    [] TokenAt(t, i) = "[" -> IF TokenAt(t, i + 1) = "]"
                              THEN [v |-> Container(t[i]), next |-> i + 2]
                              ELSE parse_items(t, i + 1, Container(t[i]))
    [] TokenAt(t, i) = "{" -> IF TokenAt(t, i + 1) = "}"
                              THEN [v |-> Container(t[i]), next |-> i + 2]
                              ELSE parse_items(t, i + 1, Container(t[i]))
    [] OTHER -> NoParse

\* cJSON_Parse: what follows the value is not looked at.
cJSON_Parse(t) == parse_value(t, 1)

-----------------------------------------------------------------------------
(* JSON Spirit.  The grammar calls the semantic actions, which build the     *)
(* value through current_p_ (a path, or null) and a stack of such pointers.  *)

NoPointer == <<-1>>
Building == [value_ |-> New("null", 0), current_p_ |-> NoPointer, stack_ |-> <<>>,
             name_ |-> 0, at |-> 1, hit |-> TRUE]

Missed(s) == [s EXCEPT !.hit = FALSE]
Past(s) == [s EXCEPT !.at = @ + 1]

add_first(s, v) == [s EXCEPT !.value_ = v, !.current_p_ = <<>>]

\* The pointer add_to_current returns.
Added(s) == IF s.current_p_ = NoPointer THEN <<>>
            ELSE Append(s.current_p_, Len(ValueAt(s.value_, s.current_p_).values) + 1)

add_to_current(s, v) ==
  IF s.current_p_ = NoPointer THEN add_first(s, v)
  ELSE LET c == ValueAt(s.value_, s.current_p_)
           grown == IF c.typ = "arr" THEN PushValue(c, v)
                    ELSE [PushValue(c, v) EXCEPT !.keys = Append(@, s.name_)]
       IN [s EXCEPT !.value_ = SetAt(@, s.current_p_, grown)]

begin_compound(s, v) ==
  IF s.current_p_ = NoPointer THEN add_first(s, v)
  ELSE [add_to_current(s, v) EXCEPT !.stack_ = Append(@, s.current_p_),
                                    !.current_p_ = Added(s)]

end_compound(s) ==
  IF s.current_p_ = <<>> THEN s
  ELSE [s EXCEPT !.current_p_ = Last(s.stack_), !.stack_ = Front(@)]

\* value_, object_, array_ and their lists.  A list that does not match to its
\* end is followed by an eps_p action that throws, so a miss inside a container
\* is a miss of the whole.
RECURSIVE value_rule(_, _), list_rule(_, _, _)
list_rule(t, s, obj) ==
  LET kind == TokenAt(t, s.at)
      named == IF obj THEN [s EXCEPT !.name_ = t[s.at][2], !.at = @ + 2] ELSE s
      s1 == IF obj /\ kind # "str" THEN Missed(s)
            ELSE IF obj /\ TokenAt(t, s.at + 1) # ":" THEN Missed(s)
            ELSE value_rule(t, named)
  IN IF ~s1.hit \/ TokenAt(t, s1.at) # "," THEN s1
     ELSE LET s2 == list_rule(t, Past(s1), obj)
          IN IF s2.hit THEN s2 ELSE Missed(s1)
value_rule(t, s) ==
  LET kind == TokenAt(t, s.at)
      close == IF kind = "{" THEN "}" ELSE "]"
      opened == Past(begin_compound(s, Container(t[s.at])))
      filled == IF TokenAt(t, opened.at) = close THEN opened
                ELSE list_rule(t, opened, kind = "{")
  IN CASE kind \in Keywords \cup {"str", "num"} -> Past(add_to_current(s, Scalar(t[s.at])))
       [] kind \in {"{", "["} ->
            IF filled.hit /\ TokenAt(t, filled.at) = close THEN Past(end_compound(filled))
            ELSE Missed(s)
       [] OTHER -> Missed(s)

\* read_range: begin is moved to where the value ends.
read_range(t) == value_rule(t, Building)

-----------------------------------------------------------------------------
(* The bytes of a string.  Its text is a sequence of items: a byte as it is, *)
(* a two-character escape that stands for a byte, or \u with a code.         *)

ShortEscapes == {8, 9, 10, 12, 13, 34, 92}

\* json_escape: the table escapes[] and the bytes it has no entry for.
UniEscape(b) ==
  CASE b \in ShortEscapes -> <<"esc", b>>
    [] b \notin ShortEscapes /\ (b < 32 \/ b >= 127) -> <<"u", b>>
    [] OTHER -> <<"raw", b>>

\* print_string_ptr.
CEscape(b) ==
  CASE b > 31 /\ b \notin {34, 92} -> <<"raw", b>>
    [] b \in ShortEscapes -> <<"esc", b>>
    [] OTHER -> <<"u", b>>

\* iswprint in the C locale.
iswprint(b) == b \in 32 .. 126

\* add_esc_chars and non_printable_to_string.
SpiritEscape(b) ==
  CASE b \in ShortEscapes -> <<"esc", b>>
    [] b \notin ShortEscapes /\ iswprint(b) -> <<"raw", b>>
    [] OTHER -> <<"u", b>>

\* The bytes of a code below 16^4.
Utf8(c) == CASE c < 128 -> <<c>>
             [] c \in 128 .. 2047 -> <<192 + (c \div 64), 128 + (c % 64)>>
             [] OTHER -> <<224 + (c \div 4096), 128 + ((c \div 64) % 64), 128 + (c % 64)>>

Garbled == <<-1>>

\* getJsonToken: a char is signed, so a byte above 127 is below 0x20.
UniUnescape(item) ==
  CASE item[1] = "raw" -> IF item[2] < 32 \/ item[2] \in {34, 92} \/ item[2] > 127
                          THEN Garbled ELSE <<item[2]>>
    [] item[1] = "esc" -> <<item[2]>>
    [] OTHER -> Utf8(item[2])

\* parse_string: the code 0 and a lone half of a surrogate pair are dropped.
CUnescape(item) ==
  CASE item[1] = "raw" -> IF item[2] \in {34, 92} THEN Garbled ELSE <<item[2]>>
    [] item[1] = "esc" -> <<item[2]>>
    [] OTHER -> IF item[2] = 0 \/ item[2] \in 55296 .. 57343 THEN <<>> ELSE Utf8(item[2])

\* append_esc_char_and_incr_iter: the code is cut to a char.
SpiritUnescape(item) ==
  CASE item[1] = "raw" -> IF item[2] \in {34, 92} THEN Garbled ELSE <<item[2]>>
    [] item[1] = "esc" -> <<item[2]>>
    [] OTHER -> <<item[2] % 256>>

-----------------------------------------------------------------------------
(* Numbers, character by character: the sign, zero, the other digits, the    *)
(* point and the exponent are all the classes the lexers tell apart.         *)

Digits == {"0", "1"}
CharAt(s, i) == IF i \in 1 .. Len(s) THEN s[i] ELSE "end"

RECURSIVE SkipDigits(_, _)
SkipDigits(s, i) == IF CharAt(s, i) \in Digits THEN SkipDigits(s, i + 1) ELSE i

\* The number branch of getJsonToken: the place after the number, 0 for
\* JTOK_ERR.
UniNumber(s) ==
  LET first == IF CharAt(s, 1) = "-" THEN 2 ELSE 1
      int == SkipDigits(s, first)
      frac == IF CharAt(s, int) = "." THEN SkipDigits(s, int + 1) ELSE int
      sign == IF CharAt(s, frac) = "e" THEN
                IF CharAt(s, frac + 1) \in {"+", "-"} THEN frac + 2 ELSE frac + 1
              ELSE frac
      exp == IF CharAt(s, frac) = "e" THEN SkipDigits(s, sign) ELSE frac
  IN IF \/ CharAt(s, first) = "0" /\ CharAt(s, first + 1) \in Digits
        \/ CharAt(s, first) \notin Digits
        \/ CharAt(s, int) = "." /\ CharAt(s, int + 1) \notin Digits
        \/ CharAt(s, frac) = "e" /\ CharAt(s, sign) \notin Digits
     THEN 0 ELSE exp

\* parse_number, which has no error: the place where it stops.
parse_number(s) ==
  LET first == IF CharAt(s, 1) = "-" THEN 2 ELSE 1
      zero == IF CharAt(s, first) = "0" THEN first + 1 ELSE first
      int == IF CharAt(s, zero) = "1" THEN SkipDigits(s, zero) ELSE zero
      frac == IF CharAt(s, int) = "." /\ CharAt(s, int + 1) \in Digits
              THEN SkipDigits(s, int + 1) ELSE int
  IN IF CharAt(s, frac) # "e" THEN frac
     ELSE IF CharAt(s, frac + 1) \in {"+", "-"} THEN SkipDigits(s, frac + 2)
     ELSE SkipDigits(s, frac + 1)

-----------------------------------------------------------------------------
(* The grammar, for reference: Texts[n] holds the values, the lists of       *)
(* values and the lists of members that are n tokens long.                   *)

ScalarTexts == {<<<<k, 0>>>> : k \in Keywords} \cup {<<<<"str", s>>>> : s \in Strings}
                 \cup {<<<<"num", n>>>> : n \in Numbers}

Texts ==
  LET Enclosed(open, inner, close) == {<<Sign(open)>> \o x \o <<Sign(close)>> : x \in inner}
      Pair(t, n) == IF n < 3 THEN {}
                    ELSE {<<<<"str", s>>, Sign(":")>> \o v : s \in Strings, v \in t[n - 2].value}
      Comma(a, b) == {x \o <<Sign(",")>> \o y : x \in a, y \in b}
      Level(t, n) ==
        LET single == IF n = 1 THEN ScalarTexts ELSE IF n = 0 THEN {}
                      ELSE Enclosed("[", t[n - 2].values, "]")
                             \cup Enclosed("{", t[n - 2].members, "}")
        IN [value |-> single,
            values |-> (IF n = 0 THEN {<<>>} ELSE single) \cup
                       UNION {Comma(t[i].value, t[n - 1 - i].values) : i \in 1 .. n - 2},
            members |-> (IF n = 0 THEN {<<>>} ELSE Pair(t, n)) \cup
                        UNION {Comma(Pair(t, i), t[n - 1 - i].members) : i \in 3 .. n - 4}]
  IN FoldLeft(LAMBDA t, n : t @@ (n :> Level(t, n)), <<>>,
              [i \in 1 .. MaxTokens + 1 |-> i - 1])

Documents ==
  {d \in UNION {Texts[n].value : n \in 1 .. MaxTokens} : d[1][1] \in {"{", "["}}

\* UniValue::read takes the texts that are one object or array and nothing
\* else, the value it builds is the one written by the same tokens, and a text
\* it refuses in the middle cannot be completed to a document.
UniReads ==
  /\ verdict = "ok" => text \in Documents /\ Write(root) = text
  /\ verdict = "bad" => text \notin Documents
  /\ verdict = "bad" /\ last_tok # "none" => \A d \in Documents : ~IsPrefix(text, d)

\* cJSON_Parse and read_range take a text whose beginning is a value, whatever
\* follows it, and cJSON_Print and write_string give that beginning back.
OthersRead ==
  LET begins == {n \in 1 .. Len(text) : First(text, n) \in Texts[n].value}
      c == cJSON_Parse(text)
      s == read_range(text)
  IN /\ c.next # 0 <=> begins # {}
     /\ s.hit <=> begins # {}
     /\ c.next # 0 => print_value(c.v) = First(text, c.next - 1)
     /\ s.hit => output(s.value_) = First(text, s.at - 1)

\* An array or an object built by calls, whatever came before it, is written as
\* a text that the other libraries read back as the same value.
BuiltReadsBack ==
  verdict = "building" /\ root.typ \in {"arr", "obj"} =>
    /\ cJSON_Parse(Write(root)) = [v |-> root, next |-> Len(Write(root)) + 1]
    /\ read_range(Write(root)).value_ = root

\* A string written and read again is the string it was: with cJSON and JSON
\* Spirit for every byte of a C string, with UniValue below 128, where a byte
\* above it comes back as the UTF-8 form of its code ("TODO handle UTF-8
\* properly" in json_escape).
StringsSurvive ==
  \A b \in 1 .. 255 :
    /\ CUnescape(CEscape(b)) = <<b>>
    /\ SpiritUnescape(SpiritEscape(b)) = <<b>>
    /\ UniUnescape(UniEscape(b)) = Utf8(b)

\* A JSON number: an integer part without a leading zero, then optionally a
\* fraction, then optionally an exponent.
IsNumber(s) ==
  LET Run(i, j) == i < j /\ \A k \in i .. j - 1 : CharAt(s, k) \in Digits
      first == IF CharAt(s, 1) = "-" THEN 2 ELSE 1
      end == Len(s) + 1
      Whole(j) == Run(first, j) /\ (CharAt(s, first) = "0" => j = first + 1)
      Frac(i, j) == i = j \/ (CharAt(s, i) = "." /\ Run(i + 1, j))
      Exp(i) == \/ i = end
                \/ CharAt(s, i) = "e" /\ Run(i + 1, end)
                \/ CharAt(s, i) = "e" /\ CharAt(s, i + 1) \in {"+", "-"} /\ Run(i + 2, end)
  IN \E i, j \in 1 .. end : Whole(i) /\ Frac(i, j) /\ Exp(j)

NumberTexts(n) == UNION {[1 .. k -> {"-", "+", ".", "e"} \cup Digits] : k \in 1 .. n}

\* Of the texts made of the characters of numbers that start as a number may,
\* UniValue takes whole exactly the JSON numbers, and cJSON all of those.
NumbersLexed(n) ==
  \A s \in {x \in NumberTexts(n) : x[1] \in Digits \cup {"-"}} :
    /\ UniNumber(s) = Len(s) + 1 <=> IsNumber(s)
    /\ IsNumber(s) => parse_number(s) = Len(s) + 1

=============================================================================
