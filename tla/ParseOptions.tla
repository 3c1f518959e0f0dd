---------------------------- MODULE ParseOptions ----------------------------
(***************************************************************************)
(* parse_options: matches an argument vector against a table of options,   *)
(* takes out the arguments it recognises and returns the others.           *)
(*                                                                         *)
(* An argument is a record of its text and of what the parser sees in it:  *)
(* a word, "--", a long option with or without "=value", or a cluster of   *)
(* short options.  Texts are atoms; a run of characters of a cluster that  *)
(* are no flags (the "15" of -n15) is one element.                         *)
(***************************************************************************)
EXTENDS Integers, Places

CONSTANTS
  None,         \* no text: a flag that an option lacks, a long option without "="
  Numbers       \* what strtol makes of the texts it reads to their end

ASSUME ParseOptionsAssumption == \A t \in DOMAIN Numbers : Numbers[t] \in Int

Arg(form, text) ==
  [form |-> form, text |-> text, name |-> None, value |-> None, flags |-> << >>]

Word(text) == Arg("word", text)
Dashes == Arg("dashes", "--")
Long(text, name, value) == [Arg("long", text) EXCEPT !.name = name, !.value = value]
Short(text, flags) == [Arg("short", text) EXCEPT !.flags = flags]

\* A row of the table.  Commands have only a name, options a flag or two.
Option(type, id, short, long) == [type |-> type, id |-> id, short |-> short, long |-> long]

-----------------------------------------------------------------------------
(* The state of a parse: the arguments left, the index of the next one,    *)
(* the assignments made (in order), and whether the parse is over or has   *)
(* read through a null pointer.                                            *)

Parsing(args) ==
  [left |-> args, at |-> 1, given |-> << >>, over |-> FALSE, crashed |-> FALSE]

\* Mutant: the value of an option stays in the vector.
ShiftOne(s, n) ==
  [s EXCEPT !.left = SubSeq(@, 1, s.at - 1) \o SubSeq(@, s.at + 1, Len(@))]

\* array_shift.
Shift(s, n) ==
  [s EXCEPT !.left = SubSeq(@, 1, s.at - 1) \o SubSeq(@, s.at + n, Len(@))]

Give(s, op, value) == [s EXCEPT !.given = Append(@, [id |-> op.id, value |-> value])]

\* An argument that was not recognised ends the parse or is passed over.
Unknown(s, stopOnUnknown) ==
  IF stopOnUnknown THEN [s EXCEPT !.over = TRUE] ELSE [s EXCEPT !.at = @ + 1]

\* strtol reads the text to its end, and the option can have the value.
Fits(op, text) == op.type \in {"string", "list"} \/ (op.type = "int" /\ text \in DOMAIN Numbers)

\* Mutant: the last argument is never a value.
HasValueButLast(s) == s.at + 1 < Len(s.left)

HasValue(s) == s.at < Len(s.left)
ValueArg(s) == s.left[s.at + 1].text

-----------------------------------------------------------------------------
(* parse_long_option: the table is searched from its start.  A value that  *)
(* does not fit replaces what is searched for, in the rest of the table.   *)

SearchStep(s, find, op) ==
  LET joined  == find.value # None
      matches == find.result = {} /\ op.long = find.name /\ op.long # None
      switch  == op.type = "bool" /\ ~joined
      has     == ~switch /\ (joined \/ HasValue(s))
      value   == IF joined THEN find.value ELSE ValueArg(s)
  IN CASE matches /\ switch -> [find EXCEPT !.result = {Give(Shift(s, 1), op, None)}]
       [] matches /\ has /\ Fits(op, value) ->
            [find EXCEPT !.result = {Give(Shift(s, IF joined THEN 1 ELSE 2), op, value)}]
       [] matches /\ has /\ ~Fits(op, value) -> [find EXCEPT !.name = value, !.value = None]
       [] OTHER -> find

ParseLong(opts, s, stopOnUnknown) ==
  LET arg  == s.left[s.at]
      find == FoldLeft(LAMBDA f, op : SearchStep(s, f, op),
                       [name |-> arg.name, value |-> arg.value, result |-> {}], opts)
  IN IF find.result = {} THEN Unknown(s, stopOnUnknown) ELSE CHOOSE r \in find.result : TRUE

-----------------------------------------------------------------------------
(* parse_short_option: the boolean flags at the start of a cluster are set *)
(* even if what comes after them is refused.                               *)

Flagged(opts, flag) == {op \in ToSet(opts) : op.short = flag /\ op.short # None}

IsSwitch(opts, flag) == \E op \in Flagged(opts, flag) : op.type = "bool"

\* The boolean flags before flag n.
Switches(opts, s, flags, n) ==
  FoldLeft(LAMBDA a, flag : Give(a, CHOOSE op \in Flagged(opts, flag) : TRUE, None),
           s, SubSeq(flags, 1, n - 1))

\* A flag that takes a value: the rest of the cluster, if it is a number, or
\* the next argument.  There may be none, which strtol is not told.
ParseFlag(op, s, rest, stopOnUnknown) ==
  CASE op.type = "int" /\ Len(rest) = 1 /\ rest[1] \in DOMAIN Numbers ->
         Give(Shift(s, 1), op, rest[1])
    [] rest = << >> /\ HasValue(s) /\ Fits(op, ValueArg(s)) ->
         Give(Shift(s, 2), op, ValueArg(s))
    [] op.type = "int" /\ rest = << >> /\ ~HasValue(s) -> [s EXCEPT !.crashed = TRUE, !.over = TRUE]
    [] OTHER -> Unknown(s, stopOnUnknown)

ParseShort(opts, s, stopOnUnknown) ==
  LET flags   == s.left[s.at].flags
      others  == {i \in DOMAIN flags : ~IsSwitch(opts, flags[i])}
      n       == CHOOSE i \in others : \A j \in others : i <= j
      ops     == Flagged(opts, flags[n])
      rest    == SubSeq(flags, n + 1, Len(flags))
  IN IF others = {} THEN Shift(Switches(opts, s, flags, Len(flags) + 1), 1)
     ELSE LET t == Switches(opts, s, flags, n) IN
          IF ops = {} THEN Unknown(t, stopOnUnknown)
          ELSE ParseFlag(CHOOSE op \in ops : TRUE, t, rest, stopOnUnknown)

-----------------------------------------------------------------------------

\* parse_subcommand.
IsCommand(opts, text) == \E op \in ToSet(opts) : op.type = "command" /\ op.id = text

ParseNext(opts, s, arg, stopOnUnknown) ==
  CASE arg.form = "dashes" -> [Shift(s, 1) EXCEPT !.over = TRUE]
    [] arg.form = "long" -> ParseLong(opts, s, stopOnUnknown)
    [] arg.form = "short" -> ParseShort(opts, s, stopOnUnknown)
    [] arg.form = "word" /\ IsCommand(opts, arg.text) -> [s EXCEPT !.over = TRUE]
    [] OTHER -> Unknown(s, stopOnUnknown)

\* One turn of the loop of parse_options.
ParseArg(opts, s, stopOnUnknown) ==
  IF s.over \/ s.at > Len(s.left) THEN [s EXCEPT !.over = TRUE]
  ELSE ParseNext(opts, s, s.left[s.at], stopOnUnknown)

\* parse_options.
Parse(opts, args, skipFirst, stopOnUnknown) ==
  FoldLeft(LAMBDA s, i : ParseArg(opts, s, stopOnUnknown),
           Parsing(IF skipFirst THEN Tail(args) ELSE args),
           [i \in 1..Len(args) |-> i])

\* The values given for an option; the variable of a string keeps the last.
PlacesOf(s, id) == {i \in DOMAIN s.given : s.given[i].id = id}

ValuesOf(s, id) == AtPlaces(s.given, PlacesOf(s, id))

IsGiven(s, id) == PlacesOf(s, id) # {}

LastValue(s, id) == s.given[Max(PlacesOf(s, id))].value

-----------------------------------------------------------------------------
(* The grammar that parse-options.h documents, as what it generates.  A    *)
(* phrase is an option with its value, or boolean flags in one cluster,    *)
(* which the flag of an option with a value may close.                     *)

LongArg(name, value) ==
  Long(IF value = None THEN "--" \o name ELSE "--" \o name \o "=" \o value, name, value)

Cluster(flags) == Short(FoldLeft(LAMBDA a, f : a \o f, "-", flags), flags)

\* A phrase: how it is spelled, its boolean flags, the other option, its value.
Phrase(how, switches, op, value) ==
  [how |-> how, switches |-> switches, op |-> op, value |-> value]

IsPhrase(opts, ph) ==
  LET bools == {op \in ToSet(opts) : op.type = "bool"}
      takes == /\ ph.op \in ToSet(opts) /\ ph.op.type \in {"int", "string", "list"}
               /\ Fits(ph.op, ph.value)
      long  == ph.switches = << >> /\ ph.op.long # None
      short == ph.switches \in Seq({op \in bools : op.short # None})
  IN \/ ph.how = "name" /\ long /\ ph.op \in bools
     \/ ph.how = "equals" /\ long /\ takes /\ ph.value # None
     \/ ph.how = "apart" /\ long /\ takes
     \/ ph.how = "cluster" /\ short /\ ph.switches # << >>
     \/ ph.how = "flag" /\ short /\ takes /\ ph.op.short # None
     \/ ph.how = "close" /\ short /\ takes /\ ph.op.short # None /\ ph.op.type = "int"

\* --help, --count=2, --count 2, -ab, -abn 2, -abn2.
PhraseArgs(ph) ==
  LET op == ph.op
      flags == [i \in DOMAIN ph.switches |-> ph.switches[i].short]
  IN CASE ph.how = "name" -> <<LongArg(op.long, None)>>
       [] ph.how = "equals" -> <<LongArg(op.long, ph.value)>>
       [] ph.how = "apart" -> <<LongArg(op.long, None), Word(ph.value)>>
       [] ph.how = "cluster" -> <<Cluster(flags)>>
       [] ph.how = "flag" -> <<Cluster(Append(flags, op.short)), Word(ph.value)>>
       [] ph.how = "close" -> <<Cluster(flags \o <<op.short, ph.value>>)>>

PhraseGiven(ph) ==
  [i \in DOMAIN ph.switches |-> [id |-> ph.switches[i].id, value |-> None]]
    \o (IF ph.how = "cluster" THEN << >>
         ELSE <<[id |-> ph.op.id, value |-> IF ph.how = "name" THEN None ELSE ph.value]>>)

\* Phrases in a row: their arguments, and the assignments they make.
ArgsOf(phrases) == FlattenSeq([i \in DOMAIN phrases |-> PhraseArgs(phrases[i])])

GivenOf(phrases) == FlattenSeq([i \in DOMAIN phrases |-> PhraseGiven(phrases[i])])

\* What follows the options: words, or after "--" anything.
Ending(dashes, rest) == IF dashes THEN <<Dashes>> \o rest ELSE rest

IsEnding(dashes, rest) ==
  /\ dashes \in BOOLEAN /\ rest \in Seq(ToSet(rest))
  /\ \A i \in DOMAIN rest : rest[i].flags \in Seq(ToSet(rest[i].flags))
  /\ ~dashes /\ rest # << >> => Head(rest).form = "word"
=============================================================================
