----------------------------- MODULE ConfigStore -----------------------------
(***************************************************************************)
(* "git chat config".  --set and --unset parse the file .git-chat/config   *)
(* into a tree of sections, change one entry, truncate the file and write  *)
(* it again from a walk over the tree, one write per line.  The queries    *)
(* and --is-valid-config parse it and look; --edit runs an editor on it.   *)
(*                                                                         *)
(* A key is the sequence of its components; all but the last name nested   *)
(* sections.  What the text of a line can carry is kept: escape_buffer     *)
(* quotes a component or a value, save an empty one, and extract_property  *)
(* refuses a line with a character that is not printable.                  *)
(***************************************************************************)
EXTENDS Places, Functions, TLC

CONSTANTS
  Keys,         \* the keys given on the command line, all valid ones
  Values,       \* the values given on the command line
  Unprintable,  \* those with a line feed, a tab or a byte above 127
  Empty,        \* the component written "" in a key
  NoValue,      \* the value of a line that has none
  Files,        \* what the file may hold before the first command, and after
                \* an editor was run on it
  Broken,       \* the contents of a file that does not parse
  Slop,         \* by how many subsections a section grows, and what it begins with
  PointerSize,  \* sizeof(struct config_data *)
  Faults        \* TRUE: commands are killed, and the disk fills up

ASSUME ConfigStoreAssumption ==
  /\ \A k \in Keys : k # << >>
  /\ Unprintable \subseteq Values
  /\ NoValue \notin Values
  /\ Slop \in Nat \ {0} /\ PointerSize \in Nat \ {0}
  /\ Faults \in BOOLEAN

VARIABLES
  file,         \* the lines of .git-chat/config
  conf,         \* the config_data of the running command
  pc,           \* the next step of the command
  visitor,      \* the node visitor: has it begun, its node, its index stack
  lines,        \* the lines of the node that are yet to be written
  cmd,          \* the running command, or the last one
  status,       \* how the last command ended: "done" with status 0, "missing"
                \* (nothing to unset or to show), "invalid" (the file) or "died"
                \* with another, or "crashed"
  full          \* the disk is full

vars == <<file, conf, pc, visitor, lines, cmd, status, full>>

-----------------------------------------------------------------------------
(* config_data: the section paths in the order they were made, and the     *)
(* entries in the order they were made.  The root is the path << >>.       *)

NoConfig == [sections |-> << >>, entries |-> << >>]

Children(c, path) ==
  AtPlaces(c.sections, {i \in DOMAIN c.sections : /\ c.sections[i] # << >>
                                                  /\ Front(c.sections[i]) = path})

\* config_data_init and config_data_subsections_grow: the subsections that fit
\* what is allocated for n of them.  Past Slop, their count (the next multiple
\* of Slop) is taken for a size in bytes.
Allocated(n) ==
  IF n <= Slop THEN Slop ELSE (((n + Slop - 1) \div Slop) * Slop) \div PointerSize

\* The entries of one node.
EntriesOf(c, path) ==
  AtPlaces(c.entries, {i \in DOMAIN c.entries : Front(c.entries[i].key) = path})

HasProp(c, key) == \E i \in DOMAIN c.entries : c.entries[i].key = key

IndexOf(c, key) == CHOOSE i \in DOMAIN c.entries : c.entries[i].key = key

\* Mutant: the property is looked for in every section.
FindAnywhere(c, key) ==
  LET at == SelectInSeq(c.entries, LAMBDA e : Last(e.key) = Last(key))
  IN  IF at = 0 THEN NoValue ELSE c.entries[at].value

\* config_data_find: the value, or NoValue.
Find(c, key) == IF HasProp(c, key) THEN c.entries[IndexOf(c, key)].value ELSE NoValue

\* config_data_lookup_section, making the sections that are missing.
LookupSection(c, path) ==
  FoldLeft(LAMBDA a, i : LET p == SubSeq(path, 1, i) IN
             IF Contains(a.sections, p) THEN a
             ELSE [a EXCEPT !.sections = Append(@, p)],
           c, [i \in 1..Len(path) |-> i])

\* Mutant: the new entry goes before the others.
InsertFirst(c, key, value) ==
  [LookupSection(c, Front(key)) EXCEPT !.entries = <<[key |-> key, value |-> value]>> \o @]

\* config_data_insert, of a key that has no entry.
Insert(c, key, value) ==
  [LookupSection(c, Front(key)) EXCEPT !.entries = Append(@, [key |-> key, value |-> value])]

Update(c, key, value) == [c EXCEPT !.entries[IndexOf(c, key)].value = value]

\* Mutant: the value is released, and the entry stays.
DeleteValue(c, key) == [c EXCEPT !.entries[IndexOf(c, key)].value = NoValue]

Delete(c, key) == [c EXCEPT !.entries = RemoveAt(@, IndexOf(c, key))]

-----------------------------------------------------------------------------
(* Lines, and what the parser makes of them.                               *)

SectionLine(path) == [kind |-> "section", name |-> path, value |-> NoValue]
PropLine(name, value) == [kind |-> "prop", name |-> name, value |-> value]
BadLine == [kind |-> "bad", name |-> << >>, value |-> NoValue]

\* The components of keys and headings, and the lines that a file can have.
Words ==
  UNION {ToSet(k) : k \in Keys} \cup UNION {UNION {ToSet(f[i].name) : i \in DOMAIN f} : f \in Files}

Lines ==
  [kind : {"section"}, name : Seq(Words), value : {NoValue}]
    \cup [kind : {"prop"}, name : Seq(Words) \ {<< >>}, value : Values]
    \cup {BadLine}

ASSUME FilesAssumption == Keys \subseteq Seq(Words) /\ Files \subseteq Seq(Lines)

\* The line write_for_node makes of an entry: an empty property leaves
\* nothing before the "=".
WrittenLine(entry) ==
  IF Last(entry.key) = Empty \/ entry.value \in Unprintable
  THEN BadLine ELSE PropLine(<<Last(entry.key)>>, entry.value)

\* One line of parse_config_fd: a section, or a property whose name follows
\* the section and which has no entry yet; anything else ends the parse.
ParseLine(acc, line) ==
  IF acc.status # 0 THEN acc
  ELSE CASE line.kind = "section" -> [acc EXCEPT !.section = line.name]
         [] line.kind = "prop" /\ ~HasProp(acc.conf, acc.section \o line.name) ->
              [acc EXCEPT !.conf = Insert(@, acc.section \o line.name, line.value)]
         [] OTHER -> [acc EXCEPT !.status = 1]

Parse(f) == FoldLeft(ParseLine, [status |-> 0, section |-> << >>, conf |-> NoConfig], f)

\* config_data_get_section_key: merging the components gives a valid key.
ValidSectionKey(path) == \A i \in DOMAIN path : path[i] # Empty

\* write_for_node: the section heading, then the entries.
NodeLines(c, path) ==
  (IF path = << >> THEN << >> ELSE <<SectionLine(path)>>)
    \o [i \in DOMAIN EntriesOf(c, path) |-> WrittenLine(EntriesOf(c, path)[i])]

-----------------------------------------------------------------------------
(* node_visitor_next: the root, then the first child of a node that has    *)
(* children, else the next sibling of the closest ancestor-or-self that    *)
(* has one.  stack[j] is the index of the j-th section on the way down.    *)

Begun(node, stack) == [begun |-> TRUE, node |-> node, stack |-> stack]
NotBegun == [begun |-> FALSE, node |-> << >>, stack |-> << >>]

\* The levels at which the walk has siblings left.
Levels(c, v) ==
  {j \in DOMAIN v.stack : v.stack[j] < Len(Children(c, SubSeq(v.node, 1, j - 1)))}

\* Mutant: only the siblings of the node itself are tried.
HasNextNear(c, v) ==
  ~v.begun \/ Children(c, v.node) # << >> \/ Len(v.stack) \in Levels(c, v)

HasNext(c, v) == ~v.begun \/ Children(c, v.node) # << >> \/ Levels(c, v) # {}

Descend(c, v) == Begun(Children(c, v.node)[1], Append(v.stack, 1))

Climb(c, v) ==
  LET j == CHOOSE j \in Levels(c, v) : \A i \in Levels(c, v) : i <= j
      n == v.stack[j] + 1
  IN Begun(Children(c, SubSeq(v.node, 1, j - 1))[n], Append(SubSeq(v.stack, 1, j - 1), n))

\* Mutant: the siblings come before the children.
NextNodeWide(c, v) ==
  IF ~v.begun THEN Begun(<< >>, << >>)
  ELSE IF Len(v.stack) \in Levels(c, v) THEN Climb(c, v)
  ELSE IF Children(c, v.node) # << >> THEN Descend(c, v) ELSE Climb(c, v)

NextNode(c, v) ==
  IF ~v.begun THEN Begun(<< >>, << >>)
  ELSE IF Children(c, v.node) # << >> THEN Descend(c, v) ELSE Climb(c, v)

-----------------------------------------------------------------------------
(* The commands.                                                           *)

Exit(s) == pc' = "idle" /\ status' = s /\ conf' = NoConfig /\ lines' = << >> /\ visitor' = NotBegun

\* config_set_value up to write_config: parse, then insert or update.
Set(k, v) ==
  LET p == Parse(file) IN
  /\ pc = "idle"
  /\ p.status = 0
  /\ conf' = IF HasProp(p.conf, k) THEN Update(p.conf, k, v) ELSE Insert(p.conf, k, v)
  /\ cmd' = [op |-> "set", key |-> k, value |-> v, missing |-> FALSE]
  /\ pc' = "open"
  /\ UNCHANGED <<file, visitor, lines, status, full>>

\* Unset of a key that has no entry rewrites the file all the same.
Unset(k) ==
  LET p == Parse(file) IN
  /\ pc = "idle"
  /\ p.status = 0
  /\ conf' = IF HasProp(p.conf, k) THEN Delete(p.conf, k) ELSE p.conf
  /\ cmd' = [op |-> "unset", key |-> k, value |-> NoValue,
             missing |-> ~HasProp(p.conf, k)]
  /\ pc' = "open"
  /\ UNCHANGED <<file, visitor, lines, status, full>>

\* DIE: malformed config file.  The message is made with a whole struct strbuf
\* in the place of a string, which may be read through any pointer.
ParseFails(k) ==
  /\ pc = "idle"
  /\ Parse(file).status # 0
  /\ \E op \in {"get", "unset"} :
       cmd' = [op |-> op, key |-> k, value |-> NoValue, missing |-> FALSE]
  /\ Exit("died") \/ Exit("crashed")
  /\ UNCHANGED <<file, full>>

\* config_defaults: channel.*.name, channel.*.createdby, channel.*.description.
Recognized(k) ==
  Len(k) = 3 /\ k[1] = "channel" /\ k[3] \in {"name", "createdby", "description"}

\* get_default_config_value: the empty string, or NULL.
DefaultValue(k) == IF Recognized(k) THEN Empty ELSE NoValue

\* config_query_value: --get and --get-or-default, whose answer is cmd.value.
Query(k, fallback) ==
  LET p == Parse(file)
      found == Find(p.conf, k)
      answer == IF found = NoValue /\ fallback THEN DefaultValue(k) ELSE found IN
  /\ pc = "idle"
  /\ p.status = 0
  /\ cmd' = [op |-> IF fallback THEN "get-or-default" ELSE "get", key |-> k,
             value |-> answer, missing |-> found = NoValue]
  /\ Exit(IF answer = NoValue THEN "missing" ELSE "done")
  /\ UNCHANGED <<file, full>>

\* is_config_file_valid: every section that has entries can be named, and each
\* of their keys is recognized.
ValidateConfig ==
  LET p == Parse(file)
      keys == {p.conf.entries[i].key : i \in DOMAIN p.conf.entries} IN
  /\ pc = "idle"
  /\ cmd' = [op |-> "validate", key |-> << >>, value |-> NoValue, missing |-> FALSE]
  /\ Exit(IF p.status = 0 /\ \A k \in keys : ValidSectionKey(Front(k)) /\ Recognized(k)
          THEN "done" ELSE "invalid")
  /\ UNCHANGED <<file, full>>

\* editor_edit_config_file: whatever vim saves, and however it ends.
EditConfig ==
  /\ pc = "idle"
  /\ file' \in Files \cup {file}
  /\ cmd' = [op |-> "edit", key |-> << >>, value |-> NoValue, missing |-> FALSE]
  /\ Exit("done") \/ Exit("died")
  /\ UNCHANGED full

\* write_config: open with O_TRUNC.
OpenConfig ==
  /\ pc = "open"
  /\ file' = << >>
  /\ visitor' = NotBegun
  /\ pc' = "visit"
  /\ UNCHANGED <<conf, lines, cmd, status, full>>

\* write_config_fd: go to the next node; one without entries is skipped.
VisitNode ==
  LET next == NextNode(conf, visitor) IN
  /\ pc = "visit"
  /\ HasNext(conf, visitor)
  /\ EntriesOf(conf, next.node) # << >> => ValidSectionKey(next.node)
  /\ visitor' = next
  /\ IF EntriesOf(conf, next.node) = << >>
     THEN UNCHANGED <<pc, lines>>
     ELSE pc' = "lines" /\ lines' = NodeLines(conf, next.node)
  /\ UNCHANGED <<file, conf, cmd, status, full>>

\* DIE: the key of a section cannot be written; nor is anything after it.
VisitFails ==
  LET next == NextNode(conf, visitor) IN
  /\ pc = "visit"
  /\ HasNext(conf, visitor)
  /\ EntriesOf(conf, next.node) # << >>
  /\ ~ValidSectionKey(next.node)
  /\ Exit("died")
  /\ UNCHANGED <<file, cmd, full>>

WriteLine ==
  /\ pc = "lines"
  /\ ~full
  /\ file' = Append(file, Head(lines))
  /\ lines' = Tail(lines)
  /\ pc' = IF Tail(lines) = << >> THEN "visit" ELSE "lines"
  /\ UNCHANGED <<conf, visitor, cmd, status, full>>

\* What is left of a line that did not fit: nothing, a cut-off line, or an
\* entry with a shorter value.
CutLines(line) ==
  {<< >>, <<BadLine>>} \cup
  {<<PropLine(line.name, v)>> : v \in IF line.kind = "prop" THEN Values \ Unprintable ELSE {}}

\* Mutant: a short write goes unnoticed.
WriteIgnored ==
  /\ pc = "lines"
  /\ full
  /\ lines' = Tail(lines)
  /\ pc' = IF Tail(lines) = << >> THEN "visit" ELSE "lines"
  /\ UNCHANGED <<file, conf, visitor, cmd, status, full>>

\* FATAL: a short write.
WriteFails ==
  /\ pc = "lines"
  /\ full
  /\ \E cut \in CutLines(Head(lines)) : file' = file \o cut
  /\ Exit("died")
  /\ UNCHANGED <<cmd, full>>

\* The walk is over.
WriteDone ==
  /\ pc = "visit"
  /\ ~HasNext(conf, visitor)
  /\ Exit(IF cmd.missing THEN "missing" ELSE "done")
  /\ UNCHANGED <<file, cmd, full>>

Kill ==
  /\ Faults
  /\ pc # "idle"
  /\ Exit("died")
  /\ UNCHANGED <<file, cmd, full>>

DiskFills ==
  /\ Faults
  /\ full' = ~full
  /\ UNCHANGED <<file, conf, pc, visitor, lines, cmd, status>>

Init ==
  /\ file \in Files
  /\ conf = NoConfig
  /\ pc = "idle"
  /\ visitor = NotBegun
  /\ lines = << >>
  /\ cmd = [op |-> "none", key |-> << >>, value |-> NoValue, missing |-> FALSE]
  /\ status = "none"
  /\ full = FALSE

Next ==
  \/ \E k \in Keys : Unset(k) \/ ParseFails(k) \/ \E v \in Values : Set(k, v)
  \/ \E k \in Keys, fallback \in BOOLEAN : Query(k, fallback)
  \/ ValidateConfig \/ EditConfig
  \/ OpenConfig \/ VisitNode \/ VisitFails
  \/ WriteLine \/ WriteFails \/ WriteDone
  \/ Kill \/ DiskFills

Spec == Init /\ [][Next]_vars

-----------------------------------------------------------------------------
(* Properties.                                                             *)

\* Each variable holds a value of its kind: the entries of a config_data have
\* values, its sections come after the section they are in, and the index
\* stack of the visitor is as deep as its node.
TypeOK ==
  /\ \A i \in DOMAIN conf.entries :
       /\ conf.entries[i].value \in Values
       /\ conf.entries[i].key # << >>
  /\ \A i \in DOMAIN conf.sections :
       /\ conf.sections[i] # << >>
       /\ \/ Len(conf.sections[i]) = 1
          \/ \E j \in 1..(i - 1) : conf.sections[j] = Front(conf.sections[i])
  /\ pc \in {"idle", "open", "visit", "lines"}
  /\ visitor.begun \in BOOLEAN
  /\ Len(visitor.stack) = Len(visitor.node)
  /\ \A j \in DOMAIN visitor.stack : visitor.stack[j] \in Nat \ {0}
  /\ \A i \in DOMAIN file : file[i].kind \in {"section", "prop", "bad"}
  /\ status \in {"none", "done", "missing", "invalid", "died", "crashed"}
  /\ full \in BOOLEAN

\* The map an entry list stands for.
AsMap(c) ==
  [k \in {c.entries[i].key : i \in DOMAIN c.entries} |-> Find(c, k)]

\* What a file says, line by line: a property belongs to the last section
\* before it.
SectionAt(f, i) ==
  LET before == {j \in 1..(i - 1) : f[j].kind = "section"}
  IN IF before = {} THEN << >>
     ELSE f[CHOOSE j \in before : \A k \in before : k <= j].name

KeyAt(f, i) == SectionAt(f, i) \o f[i].name

PropLines(f) == {i \in DOMAIN f : f[i].kind = "prop"}

IsClear(f) ==
  /\ \A i \in DOMAIN f : f[i].kind # "bad"
  /\ \A i, j \in PropLines(f) : i # j => KeyAt(f, i) # KeyAt(f, j)

Meaning(f) ==
  IF IsClear(f)
  THEN [k \in {KeyAt(f, i) : i \in PropLines(f)} |->
          f[CHOOSE i \in PropLines(f) : KeyAt(f, i) = k].value]
  ELSE Broken

Carries(k, v) == v \notin Unprintable /\ \A i \in DOMAIN k : k[i] # Empty

\* Entries in files that were not written by git-chat have other keys, too.
AllKeys ==
  Keys \cup UNION {DOMAIN Meaning(f) : f \in {g \in Files : IsClear(g)}}

ASSUME BrokenAssumption == \A K \in SUBSET AllKeys : Broken \notin [K -> Values]

Carried == {e \in AllKeys \X Values : Carries(e[1], e[2])}

Store == INSTANCE KeyValue WITH
  Keys <- AllKeys,
  failed <- status \in {"died", "crashed"},
  edited <- cmd.op = "edit",
  busy <- pc \in {"visit", "lines"},
  kv <- IF pc \in {"visit", "lines"} THEN AsMap(conf) ELSE Meaning(file)

\* The file behaves as a map: parsing, the walk over the sections and the way
\* lines are written and read back change the entry that was named, and no
\* other, unless the command is killed, the disk is full or an entry cannot be
\* written.  A killed command leaves a file that parses.
ImplementsKeyValue == Store!Spec

\* The sections in the order of a depth-first walk: one section comes before
\* another if, where their ways down part, its index is the smaller one.
IndexIn(s, x) == CHOOSE i \in DOMAIN s : s[i] = x

WayDown(c, path) ==
  [j \in 1..Len(path) |-> IndexIn(Children(c, SubSeq(path, 1, j - 1)), SubSeq(path, 1, j))]

Earlier(a, b) ==
  \/ IsStrictPrefix(a, b)
  \/ \E j \in DOMAIN a \cap DOMAIN b :
       a[j] < b[j] /\ \A i \in 1..(j - 1) : a[i] = b[i]

DepthFirst(c) ==
  LET S == {<< >>} \cup ToSet(c.sections)
      Before(p) == {q \in S : Earlier(WayDown(c, q), WayDown(c, p))}
  IN [n \in 1..Cardinality(S) |-> CHOOSE p \in S : Cardinality(Before(p)) = n - 1]

\* The text of a config_data.
Text(c) ==
  FoldLeft(LAMBDA t, path : IF EntriesOf(c, path) = << >> THEN t
                            ELSE t \o NodeLines(c, path),
           << >>, DepthFirst(c))

\* While the file is written it is the beginning of the text of the config, with
\* the entries outside any section first, where no heading captures them.
WritesInOrder == pc \in {"visit", "lines"} => IsPrefix(file, Text(conf))

\* A command that reported success has written the whole text of what it was
\* asked for: a set entry reads back, and an unset one is gone.
ReportedIsStored ==
  LET m == Meaning(file) IN
  /\ pc = "idle" /\ status = "done" /\ m # Broken
  => /\ cmd.op = "set" => cmd.key \in DOMAIN m /\ m[cmd.key] = cmd.value
     /\ cmd.op = "unset" => cmd.key \notin DOMAIN m

\* Reading a file that a command wrote and writing it again gives the same
\* file: no order of edits makes sections or entries wander.
RewritingIsStable ==
  pc = "idle" /\ cmd.op \in {"set", "unset"}
    /\ status \in {"done", "missing"} /\ Meaning(file) # Broken
    => Text(Parse(file).conf) = file

\* A query tells what the lines of the file say under the key, or else the
\* default of a recognized key, also after edits that were cut short or that
\* an editor made; and --is-valid-config accepts a file only when it has a
\* meaning and every key in it a default.
AnswersAreTrue ==
  LET m == Meaning(file)
      said == IF cmd.key \in DOMAIN m THEN m[cmd.key] ELSE NoValue IN
  /\ pc = "idle" /\ cmd.op \in {"get", "get-or-default"} /\ status \in {"done", "missing"}
     => /\ IsClear(file)
        /\ cmd.value = IF said = NoValue /\ cmd.op = "get-or-default" /\ Recognized(cmd.key)
                       THEN Empty ELSE said
        /\ status = "missing" <=> cmd.value = NoValue
  /\ pc = "idle" /\ cmd.op = "validate" /\ status = "done"
     => IsClear(file) /\ \A k \in DOMAIN m : Recognized(k)

(* Stated by the documentation; not what the code does.                    *)

\* docs/git-chat-config.1: --set exits with a non-zero status if the key could
\* not be set for any reason.
SetIsEffective ==
  pc = "idle" /\ status = "done" /\ cmd.op = "set"
    => /\ Meaning(file) # Broken
       /\ cmd.key \in DOMAIN Meaning(file)
       /\ Meaning(file)[cmd.key] = cmd.value

\* config-data.c, of config_data_subsections_grow: "Grow the subsections array
\* such that it may fit at least n elements."
SubsectionsFit ==
  \A path \in {<< >>} \cup ToSet(conf.sections) :
    LET n == Len(Children(conf, path)) IN n <= Allocated(n)
=============================================================================
