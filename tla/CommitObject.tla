---------------------------- MODULE CommitObject ----------------------------
(***************************************************************************)
(* A commit object as git prints it, and commit_parse, which reads it.     *)
(*                                                                         *)
(* An object is a sequence of lines, a line a word and what follows it.    *)
(* What follows tree and parent is an object id; what follows author and   *)
(* committer is a person, with a time and a time zone (the number that     *)
(* git writes as +hhmm or -hhmm, which is read as a decimal number).       *)
(***************************************************************************)
EXTENDS Integers, Sequences, SequencesExt

CONSTANT None     \* no commit; an address that is missing

Line(word, arg) == [word |-> word, arg |-> arg]
BlankLine == Line("", "")

-----------------------------------------------------------------------------
(* The object that git writes for a commit: the parents in order, the      *)
(* author before the committer, then headers that git-chat does not know,  *)
(* whose further lines begin with a blank, and the message as it was given.*)

Zone(person) == IF person.east THEN person.hours * 100 + person.minutes
                               ELSE -(person.hours * 100 + person.minutes)

PersonLine(word, person) ==
  Line(word, [name |-> person.name, mail |-> person.mail,
              time |-> person.time, zone |-> Zone(person)])

ObjectOf(c) ==
  <<Line("tree", c.tree)>>
  \o [i \in DOMAIN c.parents |-> Line("parent", c.parents[i])]
  \o <<PersonLine("author", c.author), PersonLine("committer", c.committer)>>
  \o c.headers \o <<BlankLine>> \o c.message

IsList(s) == s \in Seq({s[i] : i \in DOMAIN s})

(* The commits that git writes: a line that is empty would end the headers *)
(* early, and a time zone lies less than a day away.                       *)
IsWritten(c) ==
  /\ IsList(c.parents) /\ IsList(c.headers) /\ IsList(c.message)
  /\ \A i \in DOMAIN c.headers : c.headers[i] # BlankLine
  /\ \A person \in {c.author, c.committer} :
       person.hours \in 0..23 /\ person.minutes \in 0..59

-----------------------------------------------------------------------------
(* commit_parse                                                            *)

\* Mutant: the hours of a zone west of Greenwich are rounded down.
MinutesDown(zone) == (zone \div 100) * 60 + (zone % 100)

\* The minutes of a number hhmm: / and % of C cut towards zero.
Minutes(zone) ==
  IF zone < 0 THEN -(((-zone) \div 100) * 60 + ((-zone) % 100))
              ELSE (zone \div 100) * 60 + (zone % 100)

\* An address that is not between < and > is refused, a wild zone is dropped.
Signed(arg) == arg.mail # None

Signature(arg) ==
  [name |-> arg.name, mail |-> arg.mail, time |-> arg.time,
   offset |-> IF arg.zone \in -2400..2400 THEN Minutes(arg.zone) ELSE 0]

\* The first line from index i on that passes the test; past the end if none.
FirstFrom(lines, i, Test(_)) ==
  LET found == {k \in i..Len(lines) : Test(lines[k])}
  IN  IF found = {} THEN Len(lines) + 1 ELSE Min(found)

\* strbuf_trim: no blank lines before the first word, or after the last.
TrimmedFrom(lines, i) ==
  LET filled == {k \in i..Len(lines) : lines[k] # BlankLine}
  IN  IF filled = {} THEN << >> ELSE SubSeq(lines, Min(filled), Max(filled))

\* The author follows the parents, of which there may be none.
AuthorLine(object) == FirstFrom(object, 2, LAMBDA line : line.word # "parent")

\* Further author lines are skipped, as long as they can be parsed.
CommitterLine(object) ==
  FirstFrom(object, AuthorLine(object) + 1,
            LAMBDA line : line.word # "author" \/ ~Signed(line.arg))

\* Headers are skipped up to the first blank line.
MessageLine(object) ==
  FirstFrom(object, CommitterLine(object) + 1, LAMBDA line : line = BlankLine)

IsSigned(object, i, word) ==
  i <= Len(object) /\ object[i].word = word /\ Signed(object[i].arg)

\* The commit, or None when the object is refused.
ParseCommit(object) ==
  IF /\ object # << >> /\ object[1].word = "tree"
     /\ IsSigned(object, AuthorLine(object), "author")
     /\ IsSigned(object, CommitterLine(object), "committer")
    THEN [tree      |-> object[1].arg,
          parents   |-> [i \in 1..AuthorLine(object) - 2 |-> object[i + 1].arg],
          author    |-> Signature(object[AuthorLine(object)].arg),
          committer |-> Signature(object[CommitterLine(object)].arg),
          body      |-> TrimmedFrom(object, MessageLine(object))]
    ELSE None

-----------------------------------------------------------------------------
(* What the fields of a commit mean: the reference for ParseCommit.        *)

Meant(person) ==
  [name |-> person.name, mail |-> person.mail, time |-> person.time,
   offset |-> IF person.east THEN person.hours * 60 + person.minutes
                             ELSE -(person.hours * 60 + person.minutes)]

IsCommit(parsed, c) ==
  /\ parsed.tree = c.tree
  /\ parsed.parents = c.parents
  /\ parsed.author = Meant(c.author)
  /\ parsed.committer = Meant(c.committer)
  /\ parsed.body = TrimmedFrom(c.message, 1)
=============================================================================
