------------------------------- MODULE Config -------------------------------
(* The two configuration files of the repository: IniFile                    *)
(* (comLib/IniFile.cpp), a map of sections loaded from and flushed to a      *)
(* file, and the items of util/filesystem/cfg_op.c, read and rewritten in    *)
(* place.  A line is the sequence of its characters; a string of no interest *)
(* to the parsers counts as one character.                                   *)
EXTENDS Integers, Sequences, SequencesExt, FiniteSetsExt, Functions, TLC

CONSTANTS Lower,          \* getLowercase, on the capital letters in use
          Sections, Keys, Values,    \* arguments of the calls
          Files,          \* contents the file may start with
          MaxLine,        \* CFG_LINE_LEN - 1
          MaxFile,        \* the lines WriteCfgItem's filebuf has room for
          MaxItems        \* bound: items of the map that calls set

VARIABLES ini,            \* m_Inifile: section -> (key -> value)
          file,           \* the lines of the file
          loading,        \* lines read by the LoadIniFile under way, -1 for none
          strCurrSection,
          failbit,        \* of the stream LoadIniFile reads from
          flushed         \* history: <<m_Inifile when file was flushed>>, <<>> before

vars == <<ini, file, loading, strCurrSection, failbit, flushed>>

Empty == <<>>
Idle == -1

getLowercase(c) == IF c \in DOMAIN Lower THEN Lower[c] ELSE c
Lowercase(s) == [i \in 1 .. Len(s) |-> getLowercase(s[i])]

Bind(f, k, v) == [x \in DOMAIN f \cup {k} |-> IF x = k THEN v ELSE f[x]]

-----------------------------------------------------------------------------
(* analyzeLine.                                                              *)

Spaces == {" ", "\t"}
Finish == {"#", ";", "\r"}
Quotes == {"'", "\""}

\* A line without '=': the section it opens, Empty for none.
RECURSIVE SectionFrom(_, _, _)
SectionFrom(line, bSection, strSec) ==
  IF line = <<>> THEN Empty
  ELSE LET c == Head(line)
           rest == Tail(line)
       IN CASE c \in Spaces -> SectionFrom(rest, bSection, strSec)
            [] c = "[" -> IF bSection THEN Empty ELSE SectionFrom(rest, TRUE, strSec)
            [] c = "]" -> strSec
            [] c \in Finish -> Empty
            [] OTHER -> IF bSection THEN SectionFrom(rest, TRUE, Append(strSec, getLowercase(c)))
                        ELSE Empty

\* Mutant: the spaces before '=' are taken for a part of the key.
ParameterWithSpaces(line, section) ==
  LET before == SubSeq(line, 1, Min({i \in 1 .. Len(line) : line[i] = "="}) - 1)
  IN IF ToSet(before) \cap (Finish \cup Quotes \cup {"[", "]"}) # {} THEN Empty
     ELSE Lowercase(before)

\* What is before '=', without its spaces; Empty if it is no key.
ParameterOf(line, section) ==
  LET before == SubSeq(line, 1, Min({i \in 1 .. Len(line) : line[i] = "="}) - 1)
      key == SelectSeq(before, LAMBDA c : c \notin Spaces)
  IN IF ToSet(before) \cap (Finish \cup Quotes \cup {"[", "]"}) # {} THEN Empty
     ELSE IF section = <<"domain_isp_map">> THEN key
     ELSE Lowercase(key)

\* What is after '=', up to a closing quote or a finish mark; a space counts
\* only after an opening quote.
RECURSIVE ValueFrom(_, _)
ValueFrom(line, bInBarcket) ==
  IF line = <<>> THEN Empty
  ELSE LET c == Head(line)
           rest == Tail(line)
       IN CASE c = " " /\ ~bInBarcket -> ValueFrom(rest, bInBarcket)
            [] c \in Quotes -> IF bInBarcket THEN Empty ELSE ValueFrom(rest, TRUE)
            [] c \in Finish -> Empty
            [] OTHER -> <<c>> \o ValueFrom(rest, bInBarcket)

ValueOf(line) == ValueFrom(SubSeq(line, Min({i \in 1 .. Len(line) : line[i] = "="}) + 1, Len(line)),
                           FALSE)

\* Only the first section and the first value of a name are added.
addASection(m, s) == IF s \in DOMAIN m THEN m ELSE Bind(m, s, Empty)
addAValue(m, s, k, v) == IF s \notin DOMAIN m \/ k \in DOMAIN m[s] THEN m
                         ELSE Bind(m, s, Bind(m[s], k, v))

\* The section that is current after a line, and the map.
analyzeLine(line, section, m) ==
  IF "=" \notin ToSet(line)
  THEN LET s == SectionFrom(line, FALSE, Empty)
       IN IF s = Empty THEN <<section, m>> ELSE <<s, addASection(m, s)>>
  ELSE IF section = Empty \/ ParameterOf(line, section) = Empty THEN <<section, m>>
  ELSE <<section, addAValue(m, section, ParameterOf(line, section), ValueOf(line))>>

-----------------------------------------------------------------------------
(* LoadIniFile: the mutex is held from clear() to the last line.             *)

LoadIniFile ==
  /\ loading = Idle
  /\ ini' = Empty /\ strCurrSection' = Empty
  /\ loading' = 0 /\ failbit' = FALSE
  /\ UNCHANGED <<file, flushed>>

\* getline of a line that does not fit stores what fits and sets failbit; from
\* then on it stores nothing and end of file is never reached.
GetLine ==
  /\ loading \in 0 .. Len(file) - 1 /\ ~failbit
  /\ LET line == file[loading + 1]
         got == SubSeq(line, 1, IF Len(line) > MaxLine THEN MaxLine ELSE Len(line))
         r == IF got = <<>> THEN <<strCurrSection, ini>> ELSE analyzeLine(got, strCurrSection, ini)
     IN /\ strCurrSection' = r[1] /\ ini' = r[2]
        /\ failbit' = (Len(line) > MaxLine)
  /\ loading' = loading + 1
  /\ UNCHANGED <<file, flushed>>

GetNothing ==
  /\ loading # Idle /\ failbit
  /\ UNCHANGED vars

EndOfFile ==
  /\ loading = Len(file) /\ ~failbit
  /\ loading' = Idle
  /\ UNCHANGED <<ini, file, strCurrSection, failbit, flushed>>

-----------------------------------------------------------------------------
(* The calls on the map.                                                     *)

getSection(m, s) == IF Lowercase(s) \in DOMAIN m THEN m ELSE Bind(m, Lowercase(s), Empty)

Items(m) == MapThenSumSet(LAMBDA s : Cardinality(DOMAIN m[s]), DOMAIN m)

\* SetInteger, SetString and SetBool: the section's name is folded, the key's
\* is not.
Set(s, k, v) ==
  /\ loading = Idle /\ v # Empty /\ Items(ini) < MaxItems
  /\ LET m == getSection(ini, s)
     IN ini' = Bind(m, Lowercase(s), Bind(m[Lowercase(s)], k, v))
  /\ UNCHANGED <<file, loading, strCurrSection, failbit, flushed>>

add_a_key_value(s, k, v) ==
  /\ loading = Idle /\ s \in DOMAIN ini /\ Items(ini) < MaxItems
  /\ ini' = Bind(ini, s, Bind(ini[s], k, v))
  /\ UNCHANGED <<file, loading, strCurrSection, failbit, flushed>>

delete_a_key_value(s, k) ==
  /\ loading = Idle /\ s \in DOMAIN ini
  /\ ini' = [ini EXCEPT ![s] = Restrict(@, DOMAIN @ \ {k})]
  /\ UNCHANGED <<file, loading, strCurrSection, failbit, flushed>>

\* GetString; GetInteger and GetBool convert what it finds.
GetString(m, s, k, default) ==
  IF Lowercase(s) \in DOMAIN m /\ Lowercase(k) \in DOMAIN m[Lowercase(s)]
  THEN m[Lowercase(s)][Lowercase(k)] ELSE default

GetStringLowercase(m, s, k, default) == Lowercase(GetString(m, s, k, default))

GetBool(m, s, k, default) ==
  GetStringLowercase(m, s, k, IF default THEN <<"yes">> ELSE <<"no">>) \in {<<"yes">>, <<"true">>}

is_section_key_exist(m, s, k) == Lowercase(s) \in DOMAIN m /\ k \in DOMAIN m[Lowercase(s)]

\* flush_to_file and flush_to_string: a header, then every section with its
\* items and an empty line; the padding of a key is one space.
Flushed(m) ==
  <<<<"#", "Host">>, <<>>>>
    \o FlattenSeq([i \in 1 .. Cardinality(DOMAIN m) |->
         LET s == SetToSeq(DOMAIN m)[i]
             items == SetToSeq(DOMAIN m[s])
         IN <<<<"[">> \o s \o <<"]">>>>
              \o [j \in 1 .. Len(items) |-> items[j] \o <<" ", "=", " ">> \o m[s][items[j]]]
              \o <<<<>>>>])

flush_to_file ==
  /\ loading = Idle
  /\ file' = Flushed(ini) /\ flushed' = <<ini>>
  /\ UNCHANGED <<ini, loading, strCurrSection, failbit>>

IniInit ==
  /\ ini = Empty /\ file \in Files /\ flushed = <<>>
  /\ loading = Idle /\ strCurrSection = Empty /\ failbit = FALSE

IniLoad == GetLine \/ EndOfFile

IniNext ==
  \/ LoadIniFile \/ IniLoad \/ GetNothing \/ flush_to_file
  \/ \E s \in Sections, k \in Keys : delete_a_key_value(s, k)
                                       \/ \E v \in Values : Set(s, k, v) \/ add_a_key_value(s, k, v)

\* Text that analyzeLine gives back as it is: names with no capital letter and
\* no mark, values with no space, quote or mark.
Marks == Spaces \cup Finish \cup Quotes \cup {"[", "]", "="}
PlainName(s) == s # Empty /\ Lowercase(s) = s /\ ToSet(s) \cap Marks = {}
PlainValue(v) == ToSet(v) \cap ({" "} \cup Finish \cup Quotes) = {}
PlainMap(m) == \A s \in DOMAIN m : /\ PlainName(s)
                                   /\ \A k \in DOMAIN m[s] : PlainName(k) /\ PlainValue(m[s][k])

\* Every line of the file fits the buffer of LoadIniFile: only then does a load,
\* which holds the mutex, come to its end.
AllFit == \A i \in 1 .. Len(file) : Len(file[i]) <= MaxLine

\* A load that comes to its end, right after a flush of a map of plain names and
\* values, restores the map that was flushed: no item is lost, renamed or moved
\* to another section.
FlushRestored ==
  EndOfFile /\ flushed # <<>> /\ PlainMap(flushed[1]) => ini' = flushed[1]

\* What a caller has set is what it gets, provided its key has no capital
\* letter; until the next load, a key that has one is found only by
\* is_section_key_exist.
SetIsGot ==
  \A s \in Sections, k \in Keys, v \in Values :
    Set(s, k, v) =>
      /\ is_section_key_exist(ini', s, k)
      /\ Lowercase(k) = k => GetString(ini', s, k, Empty) = v
      /\ Lowercase(k) # k =>
           GetString(ini', s, k, Empty) = GetString(ini, s, k, Empty)

-----------------------------------------------------------------------------
(* cfg_op.c, on the same variable file.  Every line ends in a newline.       *)

strstr(line, key) == \E i \in 0 .. Len(line) - Len(key) : SubSeq(line, i + 1, i + Len(key)) = key

ItemLine(key, v) == key \o <<" ", "=", " ">> \o v

\* The value of the first line that has '=' and the key in it: what is after
\* '=' up to the next space, Empty when nothing is configured.
RECURSIVE LeadingWord(_)
LeadingWord(text) == IF text = <<>> \/ text[1] = " " THEN <<>>
                     ELSE <<text[1]>> \o LeadingWord(Tail(text))
RECURSIVE SkipSpaces(_)
SkipSpaces(text) == IF text # <<>> /\ text[1] = " " THEN SkipSpaces(Tail(text)) ELSE text

GetCfgItem(f, key) ==
  LET hits == {i \in 1 .. Len(f) : "=" \in ToSet(f[i]) /\ strstr(f[i], key)}
      line == f[Min(hits)]
      eq == Min({i \in 1 .. Len(line) : line[i] = "="})
  IN IF hits = {} THEN Empty ELSE LeadingWord(SkipSpaces(SubSeq(line, eq + 1, Len(line))))

\* Every line the key is in becomes the item; with none it is appended.  A file
\* that is too long is left alone.
WriteCfgItem(f, key, v) ==
  IF Len(f) > MaxFile THEN f
  ELSE IF \E i \in 1 .. Len(f) : strstr(f[i], key)
  THEN [i \in 1 .. Len(f) |-> IF strstr(f[i], key) THEN ItemLine(key, v) ELSE f[i]]
  ELSE Append(f, ItemLine(key, v))

CfgInit ==
  /\ file = <<>> /\ ini = Empty /\ flushed = <<>>
  /\ loading = Idle /\ strCurrSection = Empty /\ failbit = FALSE

Write(k, v) ==
  /\ file' = WriteCfgItem(file, k, v)
  /\ UNCHANGED <<ini, loading, strCurrSection, failbit, flushed>>

CfgNext == \E k \in Keys, v \in Values : Write(k, v)

\* The lines of f the key is in are its own.
OwnLines(k, f) == \A i \in 1 .. Len(f) : strstr(f[i], k) => LeadingWord(f[i]) = k

\* Writing an item whose key is in no other item's line sets its value, and
\* leaves every item whose key is not in its own line as it was.
WriteSetsItem ==
  \A k \in Keys, v \in Values :
    Write(k, v) /\ Len(file) <= MaxFile /\ OwnLines(k, file) =>
      /\ GetCfgItem(file', k) = LeadingWord(SkipSpaces(v))
      /\ \A o \in Keys :
           (\A line \in {ItemLine(k, v)} \cup {x \in ToSet(file) : strstr(x, k)} : ~strstr(line, o))
             => GetCfgItem(file', o) = GetCfgItem(file, o)

\* "If it exists change its value, if not append key = value at the end of the
\* file": writing an item leaves the lines of the other items.
OthersUntouched ==
  \A k \in Keys, v \in Values :
    Write(k, v) => \A i \in 1 .. Len(file) : LeadingWord(file[i]) # k => file'[i] = file[i]

=============================================================================
