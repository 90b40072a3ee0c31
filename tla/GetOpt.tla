------------------------------- MODULE GetOpt -------------------------------
(* comLib/sys/getopt.cpp: getopt and getopt_long called until they return    *)
(* -1.  An argument is the sequence of its characters; argv[i] of the code   *)
(* is argv[i + 1] here.  long_only is 0: no function of the file sets it.    *)
EXTENDS Integers, Sequences, SequencesExt, FiniteSets

CONSTANTS Optstring,    \* the characters of optstring
          Longopts,     \* sequence of [name, has_arg, flag, val]; <<>> for getopt
          Argvs         \* argument vectors, the program's name first

VARIABLES g,            \* the globals and statics of the file, the argument
                        \* vector and the value returned
          given,        \* argv before the first call
          reported      \* what the calls returned: <<value, optarg>>

vars == <<g, given, reported>>

NoArg == <<"none">>
NULL == <<>>

argc == Len(given)
Arg(s, i) == s.argv[i + 1]
First(a, n) == SubSeq(a, 1, n)

-----------------------------------------------------------------------------
(* exchange(): [first_nonopt, last_nonopt) and [last_nonopt, optind) change  *)
(* places, the shorter one moved to its end each time.                       *)

SwapRuns(a, i, j, len) ==
  [k \in 1 .. Len(a) |->
     IF k - 1 \in i .. i + len - 1 THEN a[j + (k - i)]
     ELSE IF k - 1 \in j .. j + len - 1 THEN a[i + (k - j)]
     ELSE a[k]]

RECURSIVE Exchanged(_, _, _, _)
Exchanged(a, bottom, middle, top) ==
  IF ~(top > middle /\ middle > bottom) THEN a
  ELSE IF top - middle > middle - bottom
  THEN LET len == middle - bottom
       IN Exchanged(SwapRuns(a, bottom, top - len, len), bottom, middle, top - len)
  ELSE LET len == top - middle
       IN Exchanged(SwapRuns(a, bottom, middle, len), bottom + len, middle, top)

\* Mutant: the records of the slots are not moved.
ExchangeOnly(s) ==
  [s EXCEPT !.argv = Exchanged(@, s.first_nonopt, s.last_nonopt, s.optind),
            !.last_nonopt = s.optind]

exchange(s) ==
  [s EXCEPT !.argv = Exchanged(@, s.first_nonopt, s.last_nonopt, s.optind),
            !.first_nonopt = @ + (s.optind - s.last_nonopt),
            !.last_nonopt = s.optind]

-----------------------------------------------------------------------------
(* _getopt_initialize.  Only the call that initialises skips the leading     *)
(* sign of optstring.                                                        *)

Stripped == IF Optstring # <<>> /\ Optstring[1] \in {"-", "+"} THEN Tail(Optstring) ELSE Optstring

optstring(s) == IF s.initialized THEN Optstring ELSE Stripped

Ordering == CASE Optstring # <<>> /\ Optstring[1] = "-" -> "RETURN_IN_ORDER"
              [] Optstring # <<>> /\ Optstring[1] = "+" -> "REQUIRE_ORDER"
              [] OTHER -> "PERMUTE"

_getopt_initialize(s) ==
  IF s.initialized THEN s
  ELSE [s EXCEPT !.first_nonopt = s.optind, !.last_nonopt = s.optind,
                 !.nextchar = NULL, !.ordering = Ordering]

-----------------------------------------------------------------------------
(* Advance to the next element of argv.                                      *)

Returns(s, c) == [s EXCEPT !.ret = c]

NONOPTION_P(s) == LET a == Arg(s, s.optind) IN a = <<>> \/ a[1] # "-" \/ Len(a) = 1

Clamp(s) == [s EXCEPT !.last_nonopt = IF @ > s.optind THEN s.optind ELSE @,
                      !.first_nonopt = IF @ > s.optind THEN s.optind ELSE @]

RECURSIVE SkipNonoptions(_)
SkipNonoptions(s) == IF s.optind < argc /\ NONOPTION_P(s)
                     THEN SkipNonoptions([s EXCEPT !.optind = @ + 1])
                     ELSE [s EXCEPT !.last_nonopt = s.optind]

Permute(s) ==
  IF s.ordering # "PERMUTE" THEN s
  ELSE SkipNonoptions(
         IF s.first_nonopt # s.last_nonopt /\ s.last_nonopt # s.optind THEN exchange(s)
         ELSE IF s.last_nonopt # s.optind THEN [s EXCEPT !.first_nonopt = s.optind]
         ELSE s)

AtDashes(s) == s.optind # argc /\ Arg(s, s.optind) = <<"-", "-">>

DoubleDash(s) ==
  LET past == [s EXCEPT !.optind = @ + 1]
      moved == IF past.first_nonopt # past.last_nonopt /\ past.last_nonopt # past.optind
               THEN exchange(past)
               ELSE IF past.first_nonopt = past.last_nonopt
               THEN [past EXCEPT !.first_nonopt = past.optind]
               ELSE past
  IN IF AtDashes(s) THEN [moved EXCEPT !.last_nonopt = argc, !.optind = argc] ELSE s

\* The element that is decoded next, or the value that is returned instead.
NextElement(s) ==
  LET d == DoubleDash(Permute(Clamp(s)))
      a == Arg(d, d.optind)
  IN IF d.optind = argc
     THEN Returns([d EXCEPT !.optind = IF d.first_nonopt # d.last_nonopt
                                       THEN d.first_nonopt ELSE @], "end")
     ELSE IF NONOPTION_P(d) THEN
       IF d.ordering = "REQUIRE_ORDER" THEN Returns(d, "end")
       ELSE Returns([d EXCEPT !.optarg = a, !.optind = @ + 1], "1")
     ELSE [d EXCEPT !.nextchar = SubSeq(a, IF Longopts # <<>> /\ a[2] = "-" THEN 3 ELSE 2, Len(a))]

-----------------------------------------------------------------------------
(* Long options.  A name is looked up exactly or as an abbreviation.         *)

NameOf(a) == LET ends == {i \in 1 .. Len(a) : a[i] = "="}
             IN IF ends = {} THEN a ELSE First(a, (CHOOSE i \in ends : \A j \in ends : i <= j) - 1)
HasValue(a) == Len(NameOf(a)) < Len(a)
ValueOf(a) == SubSeq(a, Len(NameOf(a)) + 2, Len(a))

Matching(name) == {i \in DOMAIN Longopts : IsPrefix(name, Longopts[i].name)}
Exact(name) == {i \in Matching(name) : Longopts[i].name = name}
pfound(name) == LET S == IF Exact(name) # {} THEN Exact(name) ELSE Matching(name)
                IN CHOOSE i \in S : \A j \in S : i <= j
Ambiguous(name) == Exact(name) = {} /\ Cardinality(Matching(name)) > 1

MissingArg(s) == IF optstring(s) # <<>> /\ optstring(s)[1] = ":" THEN ":" ELSE "?"

\* The option found for text a, s.optind past the element it came from.
FoundLong(s, a) ==
  LET o == Longopts[pfound(NameOf(a))]
      d == [s EXCEPT !.nextchar = NULL]
      result == IF o.flag THEN "0" ELSE o.val
  IN CASE HasValue(a) /\ o.has_arg # 0 -> Returns([d EXCEPT !.optarg = ValueOf(a)], result)
       [] HasValue(a) /\ o.has_arg = 0 -> Returns(d, "?")
       [] ~HasValue(a) /\ o.has_arg = 1 ->
            IF s.optind < argc
            THEN Returns([d EXCEPT !.optarg = Arg(s, s.optind), !.optind = @ + 1], result)
            ELSE Returns(d, MissingArg(s))
       [] OTHER -> Returns(d, result)

LongOption(s) ==
  LET a == s.nextchar
      past == [s EXCEPT !.optind = @ + 1]
  IN IF Ambiguous(NameOf(a)) \/ Matching(NameOf(a)) = {}
     THEN Returns([past EXCEPT !.nextchar = NULL], "?")
     ELSE FoundLong(past, a)

-----------------------------------------------------------------------------
(* Short options.                                                            *)

my_index(str, c) == IF \E i \in DOMAIN str : str[i] = c
                    THEN CHOOSE i \in DOMAIN str : str[i] = c /\ \A j \in 1 .. i - 1 : str[j] # c
                    ELSE 0
CharAt(str, i) == IF i \in DOMAIN str THEN str[i] ELSE "end"

\* The argument of an option that requires one: the rest of the element, or
\* the next element.  s is past the option's character.
TakesArg(s, c) ==
  CASE s.nextchar # <<>> ->
         Returns([s EXCEPT !.optarg = s.nextchar, !.optind = @ + 1, !.nextchar = NULL], c)
    [] s.nextchar = <<>> /\ s.optind = argc -> Returns(s, MissingArg(s))
    [] OTHER ->
         Returns([s EXCEPT !.optarg = Arg(s, s.optind), !.optind = @ + 1, !.nextchar = NULL], c)

\* -W foo, treated as --foo; an ambiguous name advances optind once more.
OptionW(s) ==
  LET t == TakesArg(s, "W")
      a == t.optarg
  IN IF s.nextchar = <<>> /\ s.optind = argc THEN t
     ELSE IF Ambiguous(NameOf(a)) THEN Returns([t EXCEPT !.optind = @ + 1], "?")
     ELSE IF Matching(NameOf(a)) # {} THEN FoundLong(t, a)
     ELSE t

ShortOption(s) ==
  LET str == optstring(s)
      c == Head(s.nextchar)
      temp == my_index(str, c)
      rest == Tail(s.nextchar)
      d == [s EXCEPT !.nextchar = rest, !.optind = IF rest = <<>> THEN @ + 1 ELSE @]
  IN CASE temp = 0 \/ c = ":" -> Returns(d, "?")
       [] temp # 0 /\ c = "W" /\ CharAt(str, temp + 1) = ";" -> OptionW(d)
       [] temp # 0 /\ CharAt(str, temp + 1) = ":" /\ CharAt(str, temp + 2) # ":" -> TakesArg(d, c)
       [] temp # 0 /\ CharAt(str, temp + 1) = ":" /\ CharAt(str, temp + 2) = ":" ->
            IF rest = <<>> THEN Returns([d EXCEPT !.nextchar = NULL], c) ELSE TakesArg(d, c)
       [] OTHER -> Returns(d, c)

-----------------------------------------------------------------------------

Init ==
  /\ given \in Argvs
  /\ g = [argv |-> given, optind |-> 1, initialized |-> FALSE, nextchar |-> NULL,
          first_nonopt |-> 0, last_nonopt |-> 0, ordering |-> "PERMUTE",
          optarg |-> NoArg, ret |-> "none"]
  /\ reported = <<>>

\* One call of _getopt_internal.
_getopt_internal(s) ==
  LET i == _getopt_initialize([s EXCEPT !.optarg = NoArg, !.ret = "none"])
      e == IF i.nextchar = NULL THEN NextElement(i) ELSE i
      r == IF e.ret # "none" THEN e
           ELSE IF Longopts # <<>> /\ CharAt(Arg(e, e.optind), 2) = "-" THEN LongOption(e)
           ELSE ShortOption(e)
  IN [r EXCEPT !.initialized = TRUE]

\* The caller's loop: while ((c = getopt(...)) != -1).
Getopt ==
  /\ g.ret # "end"
  /\ g' = _getopt_internal(g)
  /\ reported' = IF g'.ret = "end" THEN reported ELSE Append(reported, <<g'.ret, g'.optarg>>)
  /\ UNCHANGED given

Next == Getopt

-----------------------------------------------------------------------------
(* What the calls should amount to: one pass over the arguments as they were *)
(* given, nothing moved.  The pass yields the options in order and the       *)
(* arguments that are left.                                                  *)

RECURSIVE Pass(_), Cluster(_, _)
Report(r, rest) == [rest EXCEPT !.opts = <<r>> \o @]
Keep(a, rest) == [rest EXCEPT !.left = <<a>> \o @]

\* The option characters cs of one element, and the elements after it.
Cluster(cs, rest) ==
  IF cs = <<>> THEN Pass(rest)
  ELSE LET c == cs[1]
           more == Tail(cs)
           i == my_index(Stripped, c)
           colons == IF CharAt(Stripped, i + 1) # ":" THEN 0
                     ELSE IF CharAt(Stripped, i + 2) # ":" THEN 1 ELSE 2
       IN CASE i = 0 -> Report(<<"?", NoArg>>, Cluster(more, rest))
            [] i # 0 /\ c = "W" ->
                 IF more # <<>> THEN Pass(<<<<"-", "-">> \o more>> \o rest)
                 ELSE IF rest = <<>> THEN Report(<<"?", NoArg>>, Pass(rest))
                 ELSE Pass(<<<<"-", "-">> \o rest[1]>> \o Tail(rest))
            [] i # 0 /\ c # "W" /\ (colons = 0 \/ (colons = 2 /\ more = <<>>)) ->
                 Report(<<c, NoArg>>, Cluster(more, rest))
            [] i # 0 /\ c # "W" /\ colons > 0 /\ more # <<>> -> Report(<<c, more>>, Pass(rest))
            [] i # 0 /\ c # "W" /\ colons = 1 /\ more = <<>> /\ rest = <<>> ->
                 Report(<<"?", NoArg>>, Pass(rest))
            [] OTHER -> Report(<<c, rest[1]>>, Pass(Tail(rest)))

Pass(args) ==
  IF args = <<>> THEN [opts |-> <<>>, left |-> <<>>]
  ELSE LET a == args[1]
           rest == Tail(args)
           text == SubSeq(a, 3, Len(a))
           names == {i \in DOMAIN Longopts : IsPrefix(NameOf(text), Longopts[i].name)}
           whole == {i \in names : Longopts[i].name = NameOf(text)}
           o == Longopts[CHOOSE i \in IF whole # {} THEN whole ELSE names : TRUE]
       IN CASE a = <<"-", "-">> -> [opts |-> <<>>, left |-> rest]
            [] a # <<"-", "-">> /\ CharAt(a, 1) = "-" /\ Len(a) > 1
                 /\ (Longopts = <<>> \/ a[2] # "-") -> Cluster(Tail(a), rest)
            [] a # <<"-", "-">> /\ CharAt(a, 1) = "-" /\ Longopts # <<>> /\ CharAt(a, 2) = "-" ->
                 IF Cardinality(whole) # 1 /\ Cardinality(names) # 1
                 THEN Report(<<"?", NoArg>>, Pass(rest))
                 ELSE CASE HasValue(text) /\ o.has_arg = 0 -> Report(<<"?", NoArg>>, Pass(rest))
                        [] HasValue(text) /\ o.has_arg # 0 ->
                             Report(<<IF o.flag THEN "0" ELSE o.val, ValueOf(text)>>, Pass(rest))
                        [] ~HasValue(text) /\ o.has_arg = 1 ->
                             IF rest = <<>> THEN Report(<<"?", NoArg>>, Pass(rest))
                             ELSE Report(<<IF o.flag THEN "0" ELSE o.val, rest[1]>>, Pass(Tail(rest)))
                        [] OTHER -> Report(<<IF o.flag THEN "0" ELSE o.val, NoArg>>, Pass(rest))
            [] OTHER -> CASE Ordering = "PERMUTE" -> Keep(a, Pass(rest))
                          [] Ordering = "REQUIRE_ORDER" -> [opts |-> <<>>, left |-> args]
                          [] Ordering = "RETURN_IN_ORDER" -> Report(<<"1", a>>, Pass(rest))

\* A "?" has no argument for its caller: after -W optarg still holds the name.
Told(r) == IF r[1] = "?" THEN <<"?", NoArg>> ELSE r

\* When getopt returns -1 it has reported the options of the command line in
\* their order with their arguments, optind is the index of the first argument
\* that is not one, and from there on argv holds the others in the order they
\* were given: the exchanges lose none, repeat none and reorder none.
ArgumentsSorted ==
  g.ret = "end" =>
    LET p == Pass(Tail(given))
    IN /\ [i \in DOMAIN reported |-> Told(reported[i])] = p.opts
       /\ SubSeq(g.argv, g.optind + 1, argc) = p.left
       /\ \A a \in ToSet(given) : Cardinality({i \in 1 .. argc : g.argv[i] = a})
                                    = Cardinality({i \in 1 .. argc : given[i] = a})
=============================================================================
